------------------------- MODULE Confirmation_proofs -------------------------
(***************************************************************************)
(* Proofs about Confirmation, for any clients, paths, requests and bounds: *)
(* what the AI does has the user's consent, what the user has allowed is   *)
(* not asked again, and workspaces outlive the shell.                      *)
(***************************************************************************)
EXTENDS Confirmation, SequenceTheorems, WellFoundedInduction, TLAPS

-----------------------------------------------------------------------------
(* Numbers: a nonempty set of them has a smallest.                           *)

LEMMA NatOrder == \E R : IsWellFoundedOn(R, Nat) /\ \A x, y \in Nat : x < y => <<x, y>> \in R
<1> DEFINE R == OpToRel(<, Nat)
<1>1. IsWellFoundedOn(R, Nat)
  BY NatLessThanWellFounded, Zenon
<1>2. \A x, y \in Nat : x < y => <<x, y>> \in R
  BY DEF OpToRel
<1> HIDE DEF R
<1>3. QED
  BY <1>1, <1>2, Zenon

LEMMA Smallest ==
  ASSUME NEW T, T \subseteq Nat, T # {}
  PROVE  \E n \in T : \A m \in T : n <= m
<1>1. PICK R : IsWellFoundedOn(R, Nat) /\ \A x, y \in Nat : x < y => <<x, y>> \in R
  BY NatOrder
<1>2. \E n \in T : \A m \in T : ~(<<m, n>> \in R)
  <2>1. IsWellFoundedOn(R, Nat)
    BY <1>1, Zenon
  <2>2. \A S, U : IsWellFoundedOn(R, S) /\ U \subseteq S /\ U # {} =>
                    \E x \in U : \A y \in U : ~(<<y, x>> \in R)
    BY WFMin
  <2>3. QED
    BY <2>1, <2>2
<1>3. PICK n \in T : \A m \in T : ~(<<m, n>> \in R)
  BY <1>2
<1>4. \A m \in T : m \in Nat /\ n \in Nat /\ ~(m < n)
  BY <1>1, <1>3, Zenon
<1>5. QED
  <2>1. ASSUME NEW m \in T PROVE n <= m
    BY <1>4
  <2>2. QED
    BY <2>1

-----------------------------------------------------------------------------
(* Sequences and paths.                                                      *)

LEMMA AppendFacts ==
  ASSUME NEW S, NEW seq \in Seq(S), NEW x \in S
  PROVE  /\ Append(seq, x) \in Seq(S)
         /\ DOMAIN seq = 1 .. Len(seq) /\ Len(seq) \in Nat
         /\ Len(Append(seq, x)) = Len(seq) + 1
         /\ DOMAIN Append(seq, x) = 1 .. Len(seq) + 1
         /\ Append(seq, x)[Len(seq) + 1] = x
         /\ \A i \in DOMAIN seq : /\ i \in DOMAIN Append(seq, x) /\ i # Len(seq) + 1
                                 /\ Append(seq, x)[i] = seq[i]
         /\ \A i \in DOMAIN Append(seq, x) : i = Len(seq) + 1 \/ i \in DOMAIN seq
OBVIOUS

(* What is before the last element, and the whole put together again.        *)
LEMMA FrontFacts ==
  ASSUME NEW S, NEW s \in Seq(S), s # << >>
  PROVE  /\ Front(s) \in Seq(S) /\ Last(s) \in S
         /\ Len(Front(s)) = Len(s) - 1
         /\ s = Append(Front(s), Last(s))
<1>1. Len(s) \in Nat /\ Len(s) >= 1
  OBVIOUS
<1>2. PICK n \in Nat : n = Len(s) - 1 /\ n + 1 = Len(s)
  BY <1>1
<1> DEFINE f == SubSeq(s, 1, n)
<1>3. f \in Seq(S) /\ Len(f) = n /\ \A i \in 1 .. n : f[i] = s[i]
  BY <1>2
<1>4. s[n + 1] \in S
  BY <1>1, <1>2
<1> HIDE DEF f
<1>5. /\ Append(f, s[n + 1]) \in Seq(S) /\ Len(Append(f, s[n + 1])) = n + 1
      /\ \A i \in 1 .. n : Append(f, s[n + 1])[i] = f[i]
      /\ Append(f, s[n + 1])[n + 1] = s[n + 1]
  BY <1>3, <1>4
<1>6. \A i \in 1 .. n + 1 : Append(f, s[n + 1])[i] = s[i]
  BY <1>2, <1>3, <1>5
<1>7. s = Append(f, s[n + 1])
  BY <1>2, <1>5, <1>6
<1>8. Front(s) = f /\ Last(s) = s[n + 1]
  BY <1>2 DEF Front, Last, f
<1>9. QED
  BY <1>2, <1>3, <1>4, <1>7, <1>8

(* A prefix stays one when the sequence grows.                               *)
LEMMA PrefixGrows ==
  ASSUME NEW S, NEW s \in Seq(S), NEW x \in S, NEW pre \in Seq(S), IsPrefix(pre, s)
  PROVE  IsPrefix(pre, Append(s, x))
<1>1. /\ Len(pre) \in Nat /\ Len(s) \in Nat /\ Len(pre) <= Len(s)
      /\ SubSeq(pre, 1, Len(pre)) = SubSeq(s, 1, Len(pre))
  BY DEF IsPrefix
<1> DEFINE t == Append(s, x)
<1>2. t \in Seq(S) /\ Len(t) = Len(s) + 1 /\ \A i \in 1 .. Len(s) : t[i] = s[i]
  OBVIOUS
<1> HIDE DEF t
<1> DEFINE a == SubSeq(s, 1, Len(pre))  b == SubSeq(t, 1, Len(pre))
<1>3. a \in Seq(S) /\ Len(a) = Len(pre) /\ \A i \in 1 .. Len(pre) : a[i] = s[i]
  BY <1>1
<1>4. b \in Seq(S) /\ Len(b) = Len(pre) /\ \A i \in 1 .. Len(pre) : b[i] = t[i]
  BY <1>1, <1>2
<1> HIDE DEF a, b
<1>5. \A i \in 1 .. Len(pre) : a[i] = b[i]
  BY <1>1, <1>2, <1>3, <1>4
<1>6. a = b
  BY <1>1, <1>3, <1>4, <1>5
<1>7. QED
  BY <1>1, <1>2, <1>6 DEF IsPrefix, a, b, t

-----------------------------------------------------------------------------
(* Resolved paths.  The function by which Norm is defined exists, gives      *)
(* names, and a name at the end of a path is the last of the resolved one.   *)

Norms(f, p) == f = [k \in 0 .. Len(p) |-> IF k = 0 THEN << >> ELSE Resolve(f[k - 1], p[k])]

LEMMA NormIs ==
  ASSUME NEW p
  PROVE  Norm(p) = (CHOOSE f : Norms(f, p))[Len(p)]
BY DEF Norm, Norms

LEMMA NormsAt ==
  ASSUME NEW p, NEW f, Norms(f, p), NEW k \in 0 .. Len(p)
  PROVE  f[k] = IF k = 0 THEN << >> ELSE Resolve(f[k - 1], p[k])
<1> DEFINE g == [j \in 0 .. Len(p) |-> IF j = 0 THEN << >> ELSE Resolve(f[j - 1], p[j])]
<1>1. g[k] = IF k = 0 THEN << >> ELSE Resolve(f[k - 1], p[k])
  OBVIOUS
<1>2. f = g
  BY DEF Norms
<1> HIDE DEF g
<1>3. QED
  BY <1>1, <1>2

LEMMA ResolveFacts ==
  ASSUME NEW kept \in Seq(Names), NEW c \in Component
  PROVE  /\ Resolve(kept, c) \in Seq(Names)
         /\ c \in Names => Resolve(kept, c) = Append(kept, c)
<1>1. CASE c # Up
  <2>1. c \in Names
    BY <1>1 DEF Component
  <2>2. Resolve(kept, c) = Append(kept, c)
    BY <1>1 DEF Resolve
  <2>3. Append(kept, c) \in Seq(Names)
    BY <2>1
  <2>4. QED
    BY <2>2, <2>3
<1>2. CASE c = Up
  <2>1. c \notin Names
    BY <1>2, PathAssumption
  <2>2. CASE kept = << >>
    BY <1>2, <2>1, <2>2 DEF Resolve
  <2>3. CASE kept # << >>
    BY <1>2, <2>1, <2>3, FrontFacts DEF Resolve
  <2>4. QED
    BY <2>2, <2>3
<1>3. QED
  BY <1>1, <1>2

(* Where two paths agree, so do the functions.                               *)
LEMMA NormsAgree ==
  ASSUME NEW p, NEW q, NEW n \in Nat, Len(p) \in Nat, Len(q) \in Nat, n <= Len(p), n <= Len(q),
         \A k \in 1 .. n : p[k] = q[k],
         NEW f, NEW g, Norms(f, p), Norms(g, q)
  PROVE  \A k \in 0 .. n : f[k] = g[k]
<1> DEFINE D == {k \in 0 .. n : f[k] # g[k]}
<1>1. ASSUME D # {} PROVE FALSE
  <2>1. PICK k \in D : \A j \in D : k <= j
    <3>1. D \subseteq Nat
      OBVIOUS
    <3>2. QED
      BY <1>1, <3>1, Smallest
  <2>2. k \in 0 .. n /\ f[k] # g[k] /\ k \in 0 .. Len(p) /\ k \in 0 .. Len(q)
    BY <2>1
  <2>3. f[k] = IF k = 0 THEN << >> ELSE Resolve(f[k - 1], p[k])
    BY <2>2, NormsAt
  <2>4. g[k] = IF k = 0 THEN << >> ELSE Resolve(g[k - 1], q[k])
    BY <2>2, NormsAt
  <2>5. k # 0 => f[k - 1] = g[k - 1] /\ p[k] = q[k]
    BY <2>1, <2>2
  <2>6. QED
    BY <2>2, <2>3, <2>4, <2>5
<1>2. QED
  <2>1. ASSUME NEW k \in 0 .. n, f[k] # g[k] PROVE FALSE
    BY <1>1, <2>1
  <2>2. QED
    BY <2>1

LEMMA NormsGrow ==
  ASSUME NEW p \in Seq(Component), NEW c \in Component, NEW f, Norms(f, p),
         \A k \in 0 .. Len(p) : f[k] \in Seq(Names)
  PROVE  \E g : Norms(g, Append(p, c)) /\ \A k \in 0 .. Len(Append(p, c)) : g[k] \in Seq(Names)
<1>1. PICK n \in Nat : n = Len(p)
  OBVIOUS
<1>2. PICK q : q = Append(p, c) /\ Len(q) = n + 1 /\ q[n + 1] = c /\ \A k \in 1 .. n : q[k] = p[k]
  <2>1. Len(Append(p, c)) = n + 1 /\ Append(p, c)[n + 1] = c
    BY <1>1, AppendFacts
  <2>2. \A k \in 1 .. n : Append(p, c)[k] = p[k]
    BY <1>1, AppendFacts
  <2>3. QED
    BY <2>1, <2>2
<1>3. PICK g : g = [k \in 0 .. n + 1 |-> IF k = n + 1 THEN Resolve(f[n], c) ELSE f[k]]
  OBVIOUS
<1>4. \A k \in 0 .. n : f[k] = IF k = 0 THEN << >> ELSE Resolve(f[k - 1], p[k])
  BY <1>1, NormsAt
<1>5. \A k \in 0 .. n + 1 : g[k] = IF k = 0 THEN << >> ELSE Resolve(g[k - 1], q[k])
  <2>1. ASSUME NEW k \in 0 .. n PROVE g[k] = IF k = 0 THEN << >> ELSE Resolve(g[k - 1], q[k])
    <3>1. g[k] = f[k] /\ (k # 0 => k \in 1 .. n /\ k - 1 \in 0 .. n /\ g[k - 1] = f[k - 1])
      BY <1>3
    <3>2. QED
      BY <1>2, <1>4, <3>1
  <2>2. g[n + 1] = Resolve(g[n], q[n + 1]) /\ n + 1 # 0 /\ (n + 1) - 1 = n
    BY <1>2, <1>3
  <2>3. \A k \in 0 .. n + 1 : k \in 0 .. n \/ k = n + 1
    OBVIOUS
  <2>4. QED
    BY <2>1, <2>2, <2>3
<1>6. Norms(g, q)
  <2>1. g = [k \in 0 .. n + 1 |-> g[k]]
    BY <1>3
  <2>2. [k \in 0 .. n + 1 |-> g[k]]
          = [k \in 0 .. n + 1 |-> IF k = 0 THEN << >> ELSE Resolve(g[k - 1], q[k])]
    BY <1>5
  <2>3. QED
    BY <1>2, <2>1, <2>2 DEF Norms
<1>7. \A k \in 0 .. n + 1 : g[k] \in Seq(Names)
  <2>1. f[n] \in Seq(Names) /\ Resolve(f[n], c) \in Seq(Names)
    BY <1>1, ResolveFacts
  <2>2. QED
    BY <1>1, <1>3, <2>1
<1>8. QED
  BY <1>2, <1>6, <1>7

NormsWell(p) == \E f : Norms(f, p) /\ \A k \in 0 .. Len(p) : f[k] \in Seq(Names)

LEMMA NormsExist ==
  ASSUME NEW p \in Seq(Component)
  PROVE  NormsWell(p)
<1> DEFINE D == {n \in Nat : \E q \in Seq(Component) : Len(q) = n /\ ~NormsWell(q)}
<1>1. ASSUME D # {} PROVE FALSE
  <2>1. PICK n \in D : \A m \in D : n <= m
    <3>1. D \subseteq Nat
      OBVIOUS
    <3>2. QED
      BY <1>1, <3>1, Smallest
  <2>2. PICK q \in Seq(Component) : Len(q) = n /\ ~NormsWell(q)
    BY <2>1
  <2>3. CASE q = << >>
    <3>1. PICK f : f = [k \in 0 .. 0 |-> << >>]
      OBVIOUS
    <3>2. Len(q) = 0
      BY <2>3
    <3>3. f = [k \in 0 .. Len(q) |-> IF k = 0 THEN << >> ELSE Resolve(f[k - 1], q[k])]
      BY <3>1, <3>2
    <3>4. \A k \in 0 .. Len(q) : f[k] \in Seq(Names)
      BY <3>1, <3>2
    <3>5. QED
      BY <2>2, <3>3, <3>4 DEF NormsWell, Norms
  <2>4. CASE q # << >>
    <3>1. PICK v \in Seq(Component), c \in Component : q = Append(v, c)
      BY <2>2, <2>4, FrontFacts
    <3>2. Len(v) \in Nat /\ Len(v) < n
      BY <2>2, <3>1
    <3>3. NormsWell(v)
      BY <2>1, <3>2
    <3>4. PICK f : Norms(f, v) /\ \A k \in 0 .. Len(v) : f[k] \in Seq(Names)
      BY <3>3 DEF NormsWell
    <3>5. NormsWell(q)
      BY <3>1, <3>4, NormsGrow DEF NormsWell
    <3>6. QED
      BY <2>2, <3>5
  <2>5. QED
    BY <2>3, <2>4
<1>2. Len(p) \in Nat
  OBVIOUS
<1>3. QED
  BY <1>1, <1>2

LEMMA NormChosen ==
  ASSUME NEW p \in Seq(Component)
  PROVE  \E f : /\ Norms(f, p) /\ \A k \in 0 .. Len(p) : f[k] \in Seq(Names)
                /\ Norm(p) = f[Len(p)]
<1>1. PICK f : Norms(f, p) /\ \A k \in 0 .. Len(p) : f[k] \in Seq(Names)
  BY NormsExist DEF NormsWell
<1>2. PICK g : g = CHOOSE h : Norms(h, p)
  OBVIOUS
<1>3. Norms(g, p)
  BY <1>1, <1>2
<1>4. \A k \in 0 .. Len(p) : g[k] = f[k]
  <2>1. Len(p) \in Nat /\ \A k \in 1 .. Len(p) : p[k] = p[k]
    OBVIOUS
  <2>2. QED
    BY <1>1, <1>3, <2>1, NormsAgree
<1>5. Norm(p) = g[Len(p)] /\ Len(p) \in 0 .. Len(p)
  BY <1>2, NormIs
<1>6. QED
  BY <1>1, <1>4, <1>5

LEMMA NormFacts ==
  ASSUME NEW p \in Seq(Component)
  PROVE  /\ Norm(p) \in Seq(Names)
         /\ \A x \in Names : Norm(Append(p, x)) = Append(Norm(p), x)
<1>1. PICK f : /\ Norms(f, p) /\ \A k \in 0 .. Len(p) : f[k] \in Seq(Names)
               /\ Norm(p) = f[Len(p)]
  BY NormChosen
<1>2. PICK n \in Nat : n = Len(p)
  OBVIOUS
<1>3. Norm(p) \in Seq(Names)
  BY <1>1, <1>2
<1>4. ASSUME NEW x \in Names PROVE Norm(Append(p, x)) = Append(Norm(p), x)
  <2>1. x \in Component
    BY DEF Component
  <2>2. PICK q \in Seq(Component) : /\ q = Append(p, x) /\ Len(q) = n + 1 /\ q[n + 1] = x
                                    /\ \A k \in 1 .. n : p[k] = q[k]
    <3>1. /\ Append(p, x) \in Seq(Component) /\ Len(Append(p, x)) = n + 1
          /\ Append(p, x)[n + 1] = x
      BY <1>2, <2>1, AppendFacts
    <3>2. \A k \in 1 .. n : Append(p, x)[k] = p[k]
      BY <1>2, <2>1, AppendFacts
    <3>3. QED
      BY <3>1, <3>2
  <2>3. PICK g : Norms(g, q) /\ Norm(q) = g[Len(q)]
    BY NormChosen
  <2>4. g[n + 1] = Resolve(g[n], x)
    <3>1. n + 1 \in 0 .. Len(q) /\ n + 1 # 0 /\ (n + 1) - 1 = n
      BY <2>2
    <3>2. QED
      BY <2>2, <2>3, <3>1, NormsAt
  <2>5. f[n] = g[n]
    <3>1. \A k \in 0 .. n : f[k] = g[k]
      <4>1. Len(p) \in Nat /\ Len(q) \in Nat /\ n <= Len(p) /\ n <= Len(q)
        BY <1>2, <2>2
      <4>2. Norms(f, p) /\ Norms(g, q) /\ \A k \in 1 .. n : p[k] = q[k]
        BY <1>1, <2>2, <2>3
      <4>3. QED
        BY <4>1, <4>2, NormsAgree
    <3>2. QED
      BY <3>1
  <2>6. QED
    BY <1>1, <1>2, <1>3, <2>1, <2>2, <2>3, <2>4, <2>5, ResolveFacts
<1>5. QED
  BY <1>3, <1>4

(* What lies in a folder lies where the folder lies.                         *)
LEMMA BelowChild ==
  ASSUME NEW p \in Seq(Component), NEW x \in Names, NEW dir \in Seq(Component), Below(p, dir)
  PROVE  Below(Append(p, x), dir)
<1>1. Norm(p) \in Seq(Names) /\ Norm(dir) \in Seq(Names) /\ Norm(Append(p, x)) = Append(Norm(p), x)
  BY NormFacts
<1>2. QED
  BY <1>1, PrefixGrows DEF Below


LEMMA PathFacts ==
  ASSUME NEW p \in Paths
  PROVE  /\ p \in Seq(Component) /\ Front(p) \in Seq(Component)
         /\ ParentOf(p) \subseteq Paths
<1>1. p \in Seq(Component) /\ p # << >> /\ Len(p) \in Nat
  BY DEF Paths
<1>2. Front(p) \in Seq(Component) /\ Len(Front(p)) = Len(p) - 1
  BY <1>1, FrontFacts
<1>3. Len(p) > 1 => Front(p) # << >>
  BY <1>1, <1>2
<1>4. QED
  BY <1>1, <1>2, <1>3 DEF ParentOf, Paths

(* The last component of a file's path is a name.                            *)
LEMMA FileFacts ==
  ASSUME NEW p \in FilePaths
  PROVE  /\ p \in Paths /\ Front(p) \in Seq(Component) /\ Last(p) \in Names
         /\ p = Append(Front(p), Last(p))
<1>1. p \in Seq(Component) /\ p # << >> /\ Last(p) \in Names
  BY DEF FilePaths
<1>2. QED
  BY <1>1, FrontFacts DEF Paths

LEMMA JoinFacts ==
  ASSUME NEW dir \in Seq(Component), NEW name \in FileNames
  PROVE  /\ Join(dir, name) \in Paths
         /\ Leaf(name) => \E x \in Names : Join(dir, name) = Append(dir, x)
<1>1. name.parts \in Seq(Component) /\ name.parts # << >> /\ name.absolute \in BOOLEAN
  BY DEF FileNames, Paths
<1> DEFINE parts == name.parts
<1> HIDE DEF parts
<1>2. parts \in Seq(Component) /\ parts # << >>
  BY <1>1 DEF parts
<1>3. dir \o parts \in Seq(Component) /\ dir \o parts # << >>
  BY <1>2
<1>4. Join(dir, name) = parts \/ Join(dir, name) = dir \o parts
  BY Zenon DEF Join, parts
<1>5. ASSUME Leaf(name) PROVE \E x \in Names : Join(dir, name) = Append(dir, x)
  <2>1. ~name.absolute /\ Len(parts) = 1 /\ parts[1] \in Names
    BY <1>5, Zenon DEF Leaf, parts
  <2>2. Join(dir, name) = dir \o parts
    BY <2>1, Zenon DEF Join, parts
  <2>3. dir \o parts = Append(dir, parts[1])
    <3>1. parts[1] \in Component
      BY <1>2, <2>1
    <3>2. parts = <<parts[1]>>
      BY <1>2, <2>1
    <3>3. Append(dir, parts[1]) = dir \o <<parts[1]>>
      BY <3>1, AppendIsConcat
    <3>4. QED
      BY <3>2, <3>3
  <2>4. QED
    BY <2>1, <2>2, <2>3
<1>6. QED
  BY <1>2, <1>3, <1>4, <1>5 DEF Paths

-----------------------------------------------------------------------------
(* Operations and dialogs.                                                   *)

LEMMA Distinct ==
  /\ Null \notin Paths /\ Null \notin FileNames /\ Null \notin FsIds /\ Null \notin FsObjects
  /\ Null \notin Operations /\ Null \notin Dialogs
  /\ Compositor \notin Ais /\ LocalUser \notin Ais
BY CallAssumption

(* What a handler makes of a complete call: the paths and the name its method *)
(* needs are there, those of objects end in a name.                          *)
SoundOp(op) ==
  /\ op \in Operations
  /\ op.method \in Opening => op.path \in Paths
  /\ op.method \in {"save", "delete", "rename"} \cup Creates => op.path \in FilePaths
  /\ op.name # Null <=> op.method \in {"rename"} \cup Creates
  /\ op.to # Null <=> op.method = "rename_external"
  /\ op.method \in {"delete", "rename"} => op.target \in FsIds

(* Its object was mounted then, and only a restart unmounts.                 *)
Mounted(op) == op.target # Null => mounted[op.target] # Null

(* The user has answered a Dialog; an answer is on its way.                  *)
Heard(d)    == \E j \in DOMAIN said : said[j].kind = "answer" /\ said[j].dialog = d
Clicking(d) == \E j \in DOMAIN inbox : inbox[j].kind = "answer" /\ inbox[j].dialog = d

OpsOK ==
  /\ \A d \in Dialogs : asked[d] # Null => SoundOp(asked[d])
  /\ \A d \in Dialogs : pending[d] # Null => asked[d] = pending[d] /\ Mounted(pending[d])

(* A Dialog the shell still waits on was not answered yet, and one that can  *)
(* still be answered for the first time is waited on.                        *)
DialogsOK ==
  /\ \A d \in Dialogs : d >= nextDialog => asked[d] = Null /\ pending[d] = Null
  /\ \A d \in Dialogs : pending[d] # Null => ~Heard(d)
  /\ \A d \in Dialogs : Heard(d) => d < nextDialog
  /\ \A d \in Dialogs : Clicking(d) \/ d \in screen =>
       d < nextDialog /\ (Heard(d) \/ pending[d] # Null)

Base == TypeOK /\ OpsOK

-----------------------------------------------------------------------------
(* The kinds of step.                                                        *)

Serving ==
  /\ inbox # << >> /\ Head(inbox).kind = "call" /\ inbox' = Tail(inbox)
  /\ UNCHANGED <<said, grantVars, run, sent>>

Sends ==
  \E c \in Calls : /\ inbox' = Append(inbox, Request(c)) /\ sent' \in 0 .. MaxCalls
                   /\ UNCHANGED <<mounted, dialogVars, grantVars, run, said, effects>>

Tells ==
  \E event \in UserEvents :
    /\ event.kind = "answer" => event.dialog \in screen
    /\ inbox' = Append(inbox, event)
    /\ UNCHANGED <<mounted, dialogVars, grantVars, run, sent, said, effects>>

Refuses == Serving /\ Refuse
Carries == Serving /\ \E op : SoundOp(op) /\ Mounted(op) /\ Allowed(op) /\ CarryOut(op)
Asks    == Serving /\ \E op : /\ SoundOp(op) /\ Mounted(op)
                              /\ op.method \in Opening => ~Allowed(op)
                              /\ Ask(op)

LEMMA CallFacts ==
  ASSUME NEW c \in Calls
  PROVE  c \in CallRecords /\ Complete(c)
BY CallAssumption

(* The first event on its way, and the rest.                                 *)
LEMMA HeadFacts ==
  ASSUME TypeOK, inbox # << >>
  PROVE  /\ Tail(inbox) \in Seq(UserEvents \cup {Request(c) : c \in Calls})
         /\ Head(inbox).kind = "call" => Taken \in Calls
         /\ Head(inbox).kind # "call" => Head(inbox) \in UserEvents
         /\ DOMAIN inbox = 1 .. Len(inbox) /\ 1 \in DOMAIN inbox /\ Head(inbox) = inbox[1]
         /\ \A j \in DOMAIN Tail(inbox) : j + 1 \in DOMAIN inbox /\ Tail(inbox)[j] = inbox[j + 1]
<1> DEFINE S == UserEvents \cup {Request(c) : c \in Calls}
<1>1. inbox \in Seq(S)
  BY DEF TypeOK
<1> HIDE DEF S
<1>2. /\ Tail(inbox) \in Seq(S) /\ Head(inbox) \in S
      /\ DOMAIN inbox = 1 .. Len(inbox) /\ 1 \in DOMAIN inbox /\ Head(inbox) = inbox[1]
      /\ \A j \in DOMAIN Tail(inbox) : j + 1 \in DOMAIN inbox /\ Tail(inbox)[j] = inbox[j + 1]
  BY <1>1
<1>3. \A e \in S : /\ e.kind = "call" => e.call \in Calls
                   /\ e.kind # "call" => e \in UserEvents
  BY DEF S, UserEvents, Request
<1>4. QED
  BY <1>2, <1>3 DEF S, Taken

LEMMA EventFacts ==
  ASSUME NEW e \in UserEvents
  PROVE  /\ e.kind \in {"answer", "add", "remove"}
         /\ e.kind = "answer" => /\ e.dialog \in Dialogs /\ e.allow \in BOOLEAN
                                 /\ e = Answer(e.dialog, e.allow)
         /\ e.kind = "add" => e.path \in Paths /\ e = AddWs(e.path)
         /\ e.kind = "remove" => e.path \in Paths /\ e = RemoveWs(e.path)
<1>1. CASE e \in [kind : {"answer"}, dialog : Dialogs, allow : BOOLEAN]
  BY <1>1 DEF Answer
<1>2. CASE e \in [kind : {"add", "remove"}, path : Paths]
  BY <1>2 DEF AddWs, RemoveWs
<1>3. QED
  BY <1>1, <1>2 DEF UserEvents

LEMMA ObjectPaths ==
  ASSUME TypeOK, NEW id \in FsIds, mounted[id] # Null
  PROVE  mounted[id] \in FsObjects /\ mounted[id].path \in FilePaths
BY DEF TypeOK, FsObjects

(* What a handler asks for is sound.                                         *)
LEMMA CapturedSound ==
  ASSUME TypeOK, NEW c \in Calls, c.target # Null => mounted[c.target] # Null
  PROVE  /\ SoundOp(Captured(c)) /\ Mounted(Captured(c))
         /\ Captured(c).method = c.method
<1> DEFINE at == IF c.target = Null THEN c.path ELSE mounted[c.target].path
<1>1. c \in CallRecords /\ Complete(c)
  BY CallFacts
<1>2. c.method \in Methods /\ c.actor \in Ais \cup {Compositor, LocalUser}
      /\ c.target \in FsIds \cup {Null} /\ c.name \in FileNames \cup {Null}
      /\ c.path \in Paths \cup {Null} /\ c.to \in Paths \cup {Null}
  BY <1>1 DEF CallRecords
<1>3. c.method \in {"save", "delete", "rename"} \cup Creates => c.target \in FsIds /\ c.target # Null
  BY <1>1, <1>2 DEF Complete
<1>4. c.target # Null => at \in FilePaths
  BY <1>2, ObjectPaths
<1>5. at \in Paths \cup {Null}
  BY <1>2, <1>4, FileFacts
<1>6. Captured(c) = [method |-> c.method, actor |-> c.actor, target |-> c.target,
                     path |-> at, name |-> c.name, to |-> c.to]
  BY DEF Captured
<1>7. c.method \in {"save", "delete", "rename"} \cup Creates => at \in FilePaths
  BY <1>3, <1>4
<1>8. c.method \in Opening => at \in Paths
  <2>1. CASE c.method \in Externals
    <3>1. c.target = Null /\ c.path # Null
      BY <1>1, <2>1 DEF Complete, Creates, Externals
    <3>2. QED
      BY <1>2, <3>1
  <2>2. QED
    BY <1>7, <2>1, FileFacts DEF Opening
<1> HIDE DEF at
<1>9. Captured(c) \in Operations
  BY <1>2, <1>5, <1>6 DEF Operations
<1>10. /\ c.name # Null <=> c.method \in {"rename"} \cup Creates
       /\ c.to # Null <=> c.method = "rename_external"
  BY <1>1 DEF Complete
<1>11. /\ Captured(c).method = c.method /\ Captured(c).path = at /\ Captured(c).name = c.name
       /\ Captured(c).to = c.to /\ Captured(c).target = c.target
  BY <1>6
<1>12. SoundOp(Captured(c))
  BY <1>3, <1>7, <1>8, <1>9, <1>10, <1>11 DEF SoundOp
<1>13. QED
  BY <1>11, <1>12 DEF Mounted

LEMMA TakeFacts ==
  ASSUME TypeOK, NEW m \in Methods, TakeCall(m)
  PROVE  Serving /\ Taken \in Calls /\ Taken.method = m
BY HeadFacts DEF TakeCall, Take, Serving, Taken

LEMMA TargetFacts ==
  ASSUME NEW c \in Calls
  PROVE  /\ c.method \in {"save", "delete", "rename"} \cup Creates => c.target \in FsIds
         /\ c.method \in Externals \cup Commands => c.target = Null
<1>1. c \in CallRecords /\ Complete(c)
  BY CallFacts
<1>2. c.target \in FsIds \cup {Null}
  BY <1>1 DEF CallRecords
<1>3. QED
  BY <1>1, <1>2 DEF Complete, Creates, Externals, Commands

LEMMA CaptureAsks ==
  ASSUME Serving, NEW c, SoundOp(Captured(c)), Mounted(Captured(c)),
         Captured(c).method \in Opening => ~Allowed(Captured(c)), Ask(Captured(c))
  PROVE  Asks
BY Zenon DEF Asks

LEMMA CaptureCarries ==
  ASSUME Serving, NEW c, SoundOp(Captured(c)), Mounted(Captured(c)),
         Allowed(Captured(c)), CarryOut(Captured(c))
  PROVE  Carries
BY Zenon DEF Carries

(* Every handler of a call refuses it, carries it out or asks.               *)
LEMMA HandlerKinds ==
  ASSUME TypeOK, NEW m \in Methods, TakeCall(m),
         \/ m \in {"save", "rename"} \cup Creates /\ JudgeObject(Taken)
         \/ m = "delete" /\ AskForObject(Taken)
         \/ m \in Externals /\ JudgePath(Taken)
         \/ m \in Commands /\ JudgeCommand(Taken)
  PROVE  Refuses \/ Carries \/ Asks
<1>1. Serving /\ Taken \in Calls /\ Taken.method = m
  BY TakeFacts
<1>2. /\ m \in {"save", "delete", "rename"} \cup Creates => Taken.target \in FsIds
      /\ m \in Externals \cup Commands => Taken.target = Null
  BY <1>1, TargetFacts
<1>3. (Taken.target # Null => mounted[Taken.target] # Null) =>
         /\ SoundOp(Captured(Taken)) /\ Mounted(Captured(Taken))
         /\ Captured(Taken).method = m
  BY <1>1, CapturedSound
<1>4. CASE m \in {"save", "rename"} \cup Creates /\ JudgeObject(Taken)
  <2>1. CASE mounted[Taken.target] = Null
    BY <1>1, <1>4, <2>1 DEF JudgeObject, Refuses
  <2>2. CASE mounted[Taken.target] # Null
    <3>1. SoundOp(Captured(Taken)) /\ Mounted(Captured(Taken))
      BY <1>3, <2>2
    <3>2. \/ Allowed(Captured(Taken)) /\ CarryOut(Captured(Taken))
          \/ ~Allowed(Captured(Taken)) /\ Ask(Captured(Taken))
      BY <1>4, <2>2 DEF JudgeObject
    <3>3. QED
      BY <1>1, <3>1, <3>2, CaptureAsks, CaptureCarries
  <2>3. QED
    BY <2>1, <2>2
<1>5. CASE m = "delete" /\ AskForObject(Taken)
  <2>1. CASE mounted[Taken.target] = Null
    BY <1>1, <1>5, <2>1 DEF AskForObject, Refuses
  <2>2. CASE mounted[Taken.target] # Null
    <3>1. SoundOp(Captured(Taken)) /\ Mounted(Captured(Taken)) /\ Captured(Taken).method \notin Opening
      BY <1>3, <1>5, <2>2 DEF Opening, Creates, Externals
    <3>2. Ask(Captured(Taken))
      BY <1>5, <2>2 DEF AskForObject
    <3>3. QED
      BY <1>1, <3>1, <3>2, CaptureAsks
  <2>3. QED
    BY <2>1, <2>2
<1>6. CASE m \in Externals /\ JudgePath(Taken)
  <2>1. SoundOp(Captured(Taken)) /\ Mounted(Captured(Taken))
    BY <1>2, <1>3, <1>6
  <2>2. \/ Allowed(Captured(Taken)) /\ CarryOut(Captured(Taken))
        \/ Refuse
        \/ ~Allowed(Captured(Taken)) /\ Ask(Captured(Taken))
    BY <1>6 DEF JudgePath
  <2>3. QED
    BY <1>1, <2>1, <2>2, CaptureAsks, CaptureCarries DEF Refuses
<1>7. CASE m \in Commands /\ JudgeCommand(Taken)
  <2>1. SoundOp(Captured(Taken)) /\ Mounted(Captured(Taken))
    BY <1>2, <1>3, <1>7
  <2>2. \/ Refuse
        \/ Allowed(Captured(Taken)) /\ CarryOut(Captured(Taken))
        \/ ~Allowed(Captured(Taken)) /\ Ask(Captured(Taken))
    BY <1>7 DEF JudgeCommand
  <2>3. QED
    BY <1>1, <2>1, <2>2, CaptureAsks, CaptureCarries DEF Refuses
<1>8. QED
  BY <1>4, <1>5, <1>6, <1>7

(* Every step is of one of these kinds.                                      *)
LEMMA StepKinds ==
  ASSUME TypeOK, [Next]_vars
  PROVE  \/ Sends \/ Tells \/ Refuses \/ Carries \/ Asks
         \/ HandleRespond \/ HandleAdd \/ HandleRemove \/ Restart
         \/ UNCHANGED vars
<1>1. ASSUME NEW c \in Calls, Send(c) PROVE Sends
  BY <1>1, PathAssumption DEF Send, Deliver, Sends, TypeOK
<1>2. ASSUME Click PROVE Tells
  <2>1. PICK d \in screen, allow \in BOOLEAN : Tell(Answer(d, allow))
    BY <1>2 DEF Click
  <2>2. d \in Dialogs
    BY DEF TypeOK
  <2>3. Answer(d, allow) \in UserEvents /\ Answer(d, allow).dialog = d
    BY <2>2 DEF UserEvents, Answer
  <2>4. QED
    BY <2>1, <2>3 DEF Tell, Deliver, Tells
<1>3. ASSUME Workspace PROVE Tells
  <2>1. PICK dir \in Workspaces : Tell(AddWs(dir)) \/ Tell(RemoveWs(dir))
    BY <1>3 DEF Workspace
  <2>2. dir \in Paths
    BY PathAssumption
  <2>3. /\ AddWs(dir) \in UserEvents /\ AddWs(dir).kind # "answer"
        /\ RemoveWs(dir) \in UserEvents /\ RemoveWs(dir).kind # "answer"
    BY <2>2 DEF UserEvents, AddWs, RemoveWs
  <2>4. QED
    BY <2>1, <2>3 DEF Tell, Deliver, Tells
<1>4. ASSUME NEW m \in {"save", "rename"} \cup Creates, TakeCall(m), JudgeObject(Taken)
      PROVE  Refuses \/ Carries \/ Asks
  BY <1>4, HandlerKinds DEF Methods
<1>5. ASSUME NEW m \in Externals, TakeCall(m), JudgePath(Taken)
      PROVE  Refuses \/ Carries \/ Asks
  BY <1>5, HandlerKinds DEF Methods
<1>6. ASSUME NEW m \in Commands, TakeCall(m), JudgeCommand(Taken)
      PROVE  Refuses \/ Carries \/ Asks
  BY <1>6, HandlerKinds DEF Methods
<1>7. ASSUME Handle
      PROVE  Refuses \/ Carries \/ Asks \/ HandleRespond \/ HandleAdd \/ HandleRemove
  <2>1. HandleSave \/ HandleCreateFile \/ HandleCreateFolder \/ HandleRename => Refuses \/ Carries \/ Asks
    BY <1>4 DEF HandleSave, HandleCreateFile, HandleCreateFolder, HandleRename, Creates
  <2>2. HandleDelete => Refuses \/ Carries \/ Asks
    BY HandlerKinds DEF HandleDelete, Methods
  <2>3. HandleWriteExternal \/ HandleDeleteExternal \/ HandleRenameExternal => Refuses \/ Carries \/ Asks
    BY <1>5 DEF HandleWriteExternal, HandleDeleteExternal, HandleRenameExternal, Externals
  <2>4. HandleRun \/ HandleRunStreamed \/ HandleTerminate => Refuses \/ Carries \/ Asks
    BY <1>6 DEF HandleRun, HandleRunStreamed, HandleTerminate, Commands
  <2>5. QED
    BY <1>7, <2>1, <2>2, <2>3, <2>4 DEF Handle
<1>8. QED
  BY <1>1, <1>2, <1>3, <1>7 DEF Next

-----------------------------------------------------------------------------
(* Types.                                                                    *)

(* The path that a name makes, a file's when the operation succeeds.         *)
LEMMA TargetPath ==
  ASSUME NEW op, SoundOp(op), op.method \in {"rename"} \cup Creates
  PROVE  /\ op.name \in FileNames /\ Target(op) \in Paths
         /\ \A done \in Outcomes(op) : done => Target(op) \in FilePaths
<1>1. op.name \in FileNames /\ op.name # Null
  BY DEF SoundOp, Operations
<1>2. op.path \in Paths /\ Front(op.path) \in Seq(Component) /\ op.path \in Seq(Component)
  BY FileFacts, PathFacts DEF SoundOp
<1>3. Target(op) \in Paths
  BY <1>1, <1>2, JoinFacts DEF Target
<1>4. \A done \in Outcomes(op) : done => Last(Target(op)) \in Names
  BY <1>1 DEF Outcomes
<1>5. QED
  BY <1>1, <1>3, <1>4 DEF Paths, FilePaths

LEMMA OpFacts ==
  ASSUME NEW op, SoundOp(op)
  PROVE  /\ op.method \in Methods /\ op.actor \in Ais \cup {Compositor, LocalUser}
         /\ op.target \in FsIds \cup {Null} /\ op # Null
         /\ Touched(op) \subseteq Paths /\ Places(op) \subseteq Paths
<1>1. op \in Operations /\ op # Null
  BY Distinct DEF SoundOp
<1>2. /\ op.method \in Methods /\ op.actor \in Ais \cup {Compositor, LocalUser}
      /\ op.target \in FsIds \cup {Null}
      /\ op.path \in Paths \cup {Null} /\ op.to \in Paths \cup {Null}
  BY <1>1 DEF Operations
<1>3. op.method \in {"rename"} \cup Creates => op.path \in Paths /\ Target(op) \in Paths
  BY TargetPath, FileFacts DEF SoundOp
<1>4. Touched(op) \subseteq Paths
  BY <1>2, <1>3 DEF Touched, Creates
<1>5. Places(op) \subseteq Paths
  BY <1>3, <1>4, PathFacts DEF Places
<1>6. QED
  BY <1>1, <1>2, <1>4, <1>5

(* Objects stay mounted while the shell runs.                                *)
LEMMA RetreeTypes ==
  ASSUME TypeOK, NEW op, SoundOp(op), Mounted(op), NEW done \in Outcomes(op), Retree(op, done)
  PROVE  /\ mounted' \in [FsIds -> FsObjects \cup {Null}]
         /\ \A id \in FsIds : mounted[id] # Null => mounted'[id] # Null
<1>1. mounted \in [FsIds -> FsObjects \cup {Null}]
  BY DEF TypeOK
<1>2. CASE mounted' = mounted
  BY <1>1, <1>2
<1>3. CASE done /\ op.method \in Creates /\ Unused # {}
           /\ mounted' = [mounted EXCEPT ![CHOOSE id \in Unused : TRUE] = NewObject(op)]
  <2>1. NewObject(op) \in FsObjects
    BY <1>3, TargetPath DEF NewObject, FsObjects
  <2>2. PICK id \in FsIds : mounted' = [mounted EXCEPT ![id] = NewObject(op)]
    BY <1>3 DEF Unused
  <2>3. QED
    BY <1>1, <2>1, <2>2, Distinct
<1>4. CASE op.method = "delete" /\ mounted' = [mounted EXCEPT ![op.target].destroyed = TRUE]
  <2>1. op.target \in FsIds /\ mounted[op.target] \in FsObjects
    BY <1>1, <1>4, Distinct DEF SoundOp, Mounted
  <2>2. [mounted[op.target] EXCEPT !.destroyed = TRUE] \in FsObjects
    BY <2>1 DEF FsObjects
  <2>3. QED
    BY <1>1, <1>4, <2>1, <2>2, Distinct
<1>5. CASE done /\ op.method = "rename" /\ mounted' = [mounted EXCEPT ![op.target].path = Target(op)]
  <2>1. op.target \in FsIds /\ mounted[op.target] \in FsObjects /\ Target(op) \in FilePaths
    BY <1>1, <1>5, Distinct, TargetPath DEF SoundOp, Mounted
  <2>2. [mounted[op.target] EXCEPT !.path = Target(op)] \in FsObjects
    BY <2>1 DEF FsObjects
  <2>3. QED
    BY <1>1, <1>5, <2>1, <2>2, Distinct
<1>6. QED
  BY <1>2, <1>3, <1>4, <1>5 DEF Retree

(* An approval opens directories its Dialog is about; creating and the       *)
(* external operations open them all.                                        *)
LEMMA OpenedFacts ==
  ASSUME NEW op, SoundOp(op), NEW done \in Outcomes(op)
  PROVE  /\ Opened(op, done) \subseteq Paths
         /\ \A dir \in Opened(op, done) : op.method \in Opening /\ dir \in Places(op)
         /\ op.method \in Creates \cup Externals => Places(op) \subseteq Opened(op, done)
<1>1. Places(op) \subseteq Paths
  BY OpFacts
<1>2. CASE op.method \in Creates \cup Externals
  <2>1. Opened(op, done) = Places(op) /\ op.method \in Opening
    BY <1>2 DEF Opened, Opening, Creates, Externals
  <2>2. QED
    BY <1>1, <2>1
<1>3. CASE op.method = "save"
  <2>1. op.path \in Touched(op)
    BY <1>3, FileFacts, Distinct DEF Touched, Creates, SoundOp
  <2>2. ParentOf(op.path) \subseteq Places(op)
    BY <1>3, <2>1 DEF Places, Creates
  <2>3. Opened(op, done) \subseteq ParentOf(op.path)
    BY <1>3 DEF Opened, Creates, Externals
  <2>4. QED
    BY <1>1, <1>3, <2>2, <2>3 DEF Opening, Creates, Externals
<1>4. CASE op.method = "rename"
  <2>1. Target(op) \in Touched(op)
    BY <1>4 DEF Touched, Creates
  <2>2. ParentOf(Target(op)) \subseteq Places(op)
    BY <1>4, <2>1 DEF Places, Creates
  <2>3. Opened(op, done) \subseteq ParentOf(Target(op))
    BY <1>4 DEF Opened, Creates, Externals
  <2>4. QED
    BY <1>1, <1>4, <2>2, <2>3 DEF Opening, Creates, Externals
<1>5. CASE op.method \notin Opening
  BY <1>5 DEF Opened, Opening
<1>6. QED
  BY <1>2, <1>3, <1>4, <1>5 DEF Opening

LEMMA RecordTypes ==
  ASSUME TypeOK, NEW op, SoundOp(op), NEW d \in Dialogs \cup {Null}, Record(op, d),
         Len(said') \in Nat, Len(said') >= Len(said)
  PROVE  effects' \subseteq Effects /\ \A e \in effects' : e.at <= Len(said')
<1>1. Len(said) \in Nat /\ op \in Operations
  BY DEF TypeOK, SoundOp
<1>2. [op |-> op, dialog |-> d, at |-> Len(said')] \in Effects
  BY <1>1 DEF Effects
<1>3. \A e \in effects : e \in Effects /\ e.at \in Nat /\ e.at <= Len(said)
  BY DEF TypeOK, Effects
<1>4. \A e \in effects : e.at <= Len(said')
  BY <1>1, <1>3
<1>5. QED
  BY <1>2, <1>3, <1>4 DEF Record

(* What a Dialog's answer does.                                              *)
LEMMA RespondFacts ==
  ASSUME TypeOK, HandleRespond
  PROVE  \E d \in Dialogs, allow \in BOOLEAN :
           /\ inbox # << >> /\ Head(inbox) = Answer(d, allow) /\ Clicking(d)
           /\ inbox' = Tail(inbox) /\ said' = Append(said, Answer(d, allow))
           /\ pending' = [pending EXCEPT ![d] = Null] /\ screen' = screen \ {d}
           /\ UNCHANGED <<nextDialog, asked, askedAt, run, sent>>
           /\ \/ /\ pending[d] # Null /\ allow = TRUE
                 /\ \E done \in Outcomes(pending[d]) :
                      /\ Record(pending[d], d)
                      /\ Retree(pending[d], done)
                      /\ Grant(pending[d].actor, Opened(pending[d], done))
              \/ /\ pending[d] = Null \/ allow = FALSE
                 /\ UNCHANGED <<mounted, grantVars, effects>>
<1>1. inbox # << >> /\ Head(inbox).kind = "answer" /\ inbox' = Tail(inbox)
  BY DEF HandleRespond, Take
<1>2. Head(inbox) \in UserEvents /\ 1 \in DOMAIN inbox /\ Head(inbox) = inbox[1]
  BY <1>1, HeadFacts
<1> DEFINE d == Head(inbox).dialog  allow == Head(inbox).allow
<1>3. d \in Dialogs /\ allow \in BOOLEAN /\ Head(inbox) = Answer(d, allow)
  BY <1>1, <1>2, EventFacts
<1>4. Clicking(d)
  BY <1>1, <1>2 DEF Clicking
<1>5. allow = TRUE \/ allow = FALSE
  BY <1>3
<1>6. /\ said' = Append(said, Answer(d, allow))
      /\ pending' = [pending EXCEPT ![d] = Null] /\ screen' = screen \ {d}
      /\ UNCHANGED <<nextDialog, asked, askedAt, run, sent>>
  BY <1>3 DEF HandleRespond, Hear
<1>7. \/ /\ pending[d] # Null /\ allow
         /\ \E done \in Outcomes(pending[d]) :
              /\ Record(pending[d], d)
              /\ Retree(pending[d], done)
              /\ Grant(pending[d].actor, Opened(pending[d], done))
      \/ /\ ~(pending[d] # Null /\ allow)
         /\ UNCHANGED <<mounted, grantVars, effects>>
  BY DEF HandleRespond
<1> HIDE DEF d, allow
<1>8. \/ /\ pending[d] # Null /\ allow = TRUE
         /\ \E done \in Outcomes(pending[d]) :
              /\ Record(pending[d], d)
              /\ Retree(pending[d], done)
              /\ Grant(pending[d].actor, Opened(pending[d], done))
      \/ /\ pending[d] = Null \/ allow = FALSE
         /\ UNCHANGED <<mounted, grantVars, effects>>
  <2>1. CASE allow = TRUE
    BY <1>7, <2>1, Zenon
  <2>2. CASE allow = FALSE
    BY <1>7, <2>2, Zenon
  <2>3. QED
    BY <1>5, <2>1, <2>2
<1>9. QED
  BY <1>1, <1>3, <1>4, <1>6, <1>8

LEMMA Spoken ==
  ASSUME TypeOK, NEW e \in UserEvents \cup {Restarted}, said' = Append(said, e)
  PROVE  /\ said' \in Seq(UserEvents \cup {Restarted})
         /\ Len(said) \in Nat /\ Len(said') = Len(said) + 1 /\ Len(said') \in Nat
         /\ DOMAIN said = 1 .. Len(said) /\ DOMAIN said' = 1 .. Len(said) + 1
         /\ said'[Len(said) + 1] = e
         /\ \A i \in 1 .. Len(said) : said'[i] = said[i]
<1> DEFINE S == UserEvents \cup {Restarted}
<1>1. said \in Seq(S)
  BY DEF TypeOK
<1> HIDE DEF S
<1>2. QED
  BY <1>1 DEF S

LEMMA SaidTypes ==
  ASSUME TypeOK
  PROVE  Len(said) \in Nat /\ DOMAIN said = 1 .. Len(said)
         /\ \A i \in 1 .. Len(said) : said[i] \in UserEvents \cup {Restarted}
BY DEF TypeOK

(* The parts of TypeOK a step's kind leaves alone.                           *)
GrantTypes == /\ session \subseteq Paths /\ persistent \subseteq Paths /\ saved \subseteq Paths
              /\ server \subseteq Holders \X Paths /\ run \in Runs
DialogTypes == /\ screen \subseteq Dialogs /\ pending \in [Dialogs -> Operations \cup {Null}]
               /\ nextDialog \in 1 .. MaxCalls + 1
               /\ asked \in [Dialogs -> Operations \cup {Null}]
               /\ askedAt \in [Dialogs -> Nat]
InboxTypes == inbox \in Seq(UserEvents \cup {Request(c) : c \in Calls}) /\ sent \in 0 .. MaxCalls
SaidAt     == /\ said \in Seq(UserEvents \cup {Restarted})
              /\ \A d \in Dialogs : askedAt[d] <= Len(said)
Done       == effects \subseteq Effects /\ \A e \in effects : e.at <= Len(said)
Tops       == mounted \in [FsIds -> FsObjects \cup {Null}]

LEMMA TypeParts == TypeOK <=> GrantTypes /\ DialogTypes /\ InboxTypes /\ SaidAt /\ Done /\ Tops
BY DEF TypeOK, GrantTypes, DialogTypes, InboxTypes, SaidAt, Done, Tops

LEMMA OpsKept ==
  ASSUME Base, UNCHANGED asked,
         \A id \in FsIds : mounted[id] # Null => mounted'[id] # Null,
         \A d \in Dialogs : pending'[d] = pending[d] \/ pending'[d] = Null
  PROVE  OpsOK'
<1>1. \A d \in Dialogs : pending'[d] # Null => pending'[d] = pending[d] /\ asked[d] = pending[d]
  BY DEF Base, OpsOK
<1>2. ASSUME NEW d \in Dialogs, pending'[d] # Null PROVE Mounted(pending[d])'
  <2>1. pending'[d] = pending[d] /\ SoundOp(pending[d]) /\ Mounted(pending[d])
    BY <1>1, <1>2 DEF Base, OpsOK
  <2>2. pending[d].target \in FsIds \cup {Null}
    BY <2>1, OpFacts
  <2>3. QED
    BY <2>1, <2>2 DEF Mounted
<1>3. QED
  BY <1>1, <1>2 DEF Base, OpsOK

(* Nothing more is said, and nothing is done.                                *)
LEMMA QuietDone ==
  ASSUME TypeOK, UNCHANGED <<said, askedAt, effects>>
  PROVE  SaidAt' /\ Done'
BY TypeParts DEF SaidAt, Done

(* More is said.                                                             *)
LEMMA SpokenDone ==
  ASSUME TypeOK, NEW e \in UserEvents \cup {Restarted}, said' = Append(said, e), UNCHANGED askedAt
  PROVE  SaidAt' /\ (UNCHANGED effects => Done')
<1>1. /\ said' \in Seq(UserEvents \cup {Restarted})
      /\ Len(said) \in Nat /\ Len(said') = Len(said) + 1
  BY Spoken
<1>2. \A d \in Dialogs : askedAt[d] \in Nat /\ askedAt[d] <= Len(said)
  BY DEF TypeOK
<1>3. \A d \in Dialogs : askedAt'[d] <= Len(said')
  BY <1>1, <1>2
<1>4. \A f \in effects : f \in Effects /\ f.at \in Nat /\ f.at <= Len(said)
  BY DEF TypeOK, Effects
<1>5. \A f \in effects : f.at <= Len(said')
  BY <1>1, <1>4
<1>6. QED
  BY <1>1, <1>3, <1>4, <1>5 DEF SaidAt, Done

LEMMA InitBase == Init => Base
<1> SUFFICES ASSUME Init PROVE Base
  OBVIOUS
<1>1. mounted \in [FsIds -> FsObjects \cup {Null}]
  BY CallAssumption DEF Init
<1>2. /\ inbox = << >> /\ said = << >> /\ screen = {} /\ nextDialog = 1 /\ run = 1 /\ sent = 0
      /\ session = {} /\ persistent = {} /\ saved = {} /\ server = {} /\ effects = {}
      /\ pending = [d \in Dialogs |-> Null] /\ asked = [d \in Dialogs |-> Null]
      /\ askedAt = [d \in Dialogs |-> 0]
  BY DEF Init
<1>3. TypeOK
  BY <1>1, <1>2, PathAssumption DEF TypeOK, Runs
<1>4. OpsOK
  BY <1>2 DEF OpsOK
<1>5. QED
  BY <1>3, <1>4 DEF Base

LEMMA BaseCall ==
  ASSUME Base, Serving, Refuse \/ Carries \/ Asks
  PROVE  Base'
<1>1. TypeOK /\ OpsOK /\ GrantTypes /\ DialogTypes /\ InboxTypes /\ SaidAt /\ Done /\ Tops
  BY TypeParts DEF Base
<1>2. GrantTypes' /\ InboxTypes'
  <2>1. inbox' \in Seq(UserEvents \cup {Request(c) : c \in Calls})
    BY <1>1, HeadFacts DEF Serving
  <2>2. QED
    BY <1>1, <2>1 DEF GrantTypes, InboxTypes, Serving, grantVars
<1>3. said' = said /\ Len(said) \in Nat
  BY <1>1, SaidTypes DEF Serving
<1>4. CASE Refuse
  <2>1. UNCHANGED <<mounted, dialogVars, effects>>
    BY <1>4 DEF Refuse
  <2>2. OpsOK'
    BY <1>1, <2>1, OpsKept DEF dialogVars, Base
  <2>3. DialogTypes' /\ Tops' /\ SaidAt' /\ Done'
    BY <1>1, <1>3, <2>1, QuietDone DEF DialogTypes, Tops, dialogVars
  <2>4. QED
    BY <1>2, <2>2, <2>3, TypeParts, PTL DEF Base
<1>5. CASE Carries
  <2>1. PICK op : SoundOp(op) /\ Mounted(op) /\ CarryOut(op)
    BY <1>5 DEF Carries
  <2>2. PICK done \in Outcomes(op) : Retree(op, done)
    BY <2>1 DEF CarryOut
  <2>3. Record(op, Null) /\ UNCHANGED dialogVars
    BY <2>1 DEF CarryOut
  <2>4. /\ mounted' \in [FsIds -> FsObjects \cup {Null}]
        /\ \A id \in FsIds : mounted[id] # Null => mounted'[id] # Null
    BY <1>1, <2>1, <2>2, RetreeTypes
  <2>5. OpsOK'
    BY <1>1, <2>3, <2>4, OpsKept DEF dialogVars, Base
  <2>6. Done'
    BY <1>1, <1>3, <2>1, <2>3, RecordTypes DEF Done
  <2>7. DialogTypes' /\ Tops' /\ SaidAt'
    BY <1>1, <1>3, <2>3, <2>4 DEF DialogTypes, Tops, SaidAt, dialogVars
  <2>8. QED
    BY <1>2, <2>5, <2>6, <2>7, TypeParts, PTL DEF Base
<1>6. CASE Asks
  <2>1. PICK op : SoundOp(op) /\ Mounted(op) /\ Ask(op)
    BY <1>6 DEF Asks
  <2>2. op \in Operations /\ op # Null /\ op.target \in FsIds \cup {Null}
    BY <2>1, OpFacts DEF SoundOp
  <2>3. /\ nextDialog \in Dialogs
        /\ screen' = screen \cup {nextDialog} /\ nextDialog' = nextDialog + 1
        /\ pending' = [pending EXCEPT ![nextDialog] = op]
        /\ asked' = [asked EXCEPT ![nextDialog] = op]
        /\ askedAt' = [askedAt EXCEPT ![nextDialog] = Len(said)]
        /\ UNCHANGED <<mounted, effects>>
    BY <2>1 DEF Ask
  <2>4. DialogTypes'
    BY <1>1, <1>3, <2>2, <2>3, PathAssumption DEF DialogTypes, Dialogs
  <2>5. Tops' /\ Done'
    BY <1>1, <1>3, <2>3 DEF Tops, Done
  <2>6. SaidAt'
    BY <1>1, <1>3, <2>3 DEF SaidAt, DialogTypes
  <2>7. \A d \in Dialogs : /\ asked'[d] = (IF d = nextDialog THEN op ELSE asked[d])
                           /\ pending'[d] = (IF d = nextDialog THEN op ELSE pending[d])
    BY <1>1, <2>3 DEF DialogTypes
  <2>8. OpsOK'
    <3>1. \A d \in Dialogs : asked'[d] # Null => SoundOp(asked'[d])
      BY <1>1, <2>1, <2>7 DEF OpsOK
    <3>2. \A d \in Dialogs : pending'[d] # Null => asked'[d] = pending'[d] /\ Mounted(pending'[d])
      BY <1>1, <2>1, <2>7 DEF OpsOK
    <3>3. \A d \in Dialogs : pending'[d] # Null => Mounted(pending[d])'
      BY <3>2, <2>3 DEF Mounted
    <3>4. QED
      BY <3>1, <3>2, <3>3 DEF OpsOK, SoundOp
  <2>9. QED
    BY <1>2, <2>4, <2>5, <2>6, <2>8, TypeParts, PTL DEF Base
<1>7. QED
  BY <1>4, <1>5, <1>6

LEMMA BaseRespond ==
  ASSUME Base, HandleRespond
  PROVE  Base'
<1>1. TypeOK /\ OpsOK /\ GrantTypes /\ DialogTypes /\ InboxTypes /\ SaidAt /\ Done /\ Tops
  BY TypeParts DEF Base
<1>2. PICK d \in Dialogs, allow \in BOOLEAN :
         /\ inbox # << >> /\ Head(inbox) = Answer(d, allow) /\ Clicking(d)
         /\ inbox' = Tail(inbox) /\ said' = Append(said, Answer(d, allow))
         /\ pending' = [pending EXCEPT ![d] = Null] /\ screen' = screen \ {d}
         /\ UNCHANGED <<nextDialog, asked, askedAt, run, sent>>
         /\ \/ /\ pending[d] # Null /\ allow = TRUE
               /\ \E done \in Outcomes(pending[d]) :
                    /\ Record(pending[d], d)
                    /\ Retree(pending[d], done)
                    /\ Grant(pending[d].actor, Opened(pending[d], done))
            \/ /\ pending[d] = Null \/ allow = FALSE
               /\ UNCHANGED <<mounted, grantVars, effects>>
  BY <1>1, RespondFacts
<1>3. InboxTypes' /\ DialogTypes'
  BY <1>1, <1>2, HeadFacts DEF InboxTypes, DialogTypes
<1>4. Answer(d, allow) \in UserEvents
  BY DEF Answer, UserEvents
<1>5. SaidAt' /\ (UNCHANGED effects => Done') /\ Len(said') \in Nat /\ Len(said') >= Len(said)
  BY <1>1, <1>2, <1>4, Spoken, SpokenDone
<1>6. \A e \in Dialogs : pending'[e] = pending[e] \/ pending'[e] = Null
  BY <1>1, <1>2 DEF DialogTypes
<1>7. CASE UNCHANGED <<mounted, grantVars, effects>>
  <2>1. GrantTypes' /\ Tops'
    BY <1>1, <1>2, <1>7 DEF GrantTypes, Tops, grantVars
  <2>2. OpsOK'
    BY <1>2, <1>6, <1>7, OpsKept
  <2>3. Done'
    BY <1>5, <1>7
  <2>4. QED
    BY <1>3, <1>5, <2>1, <2>2, <2>3, TypeParts, PTL DEF Base
<1>8. ASSUME pending[d] # Null, NEW done \in Outcomes(pending[d]), Record(pending[d], d),
             Retree(pending[d], done), Grant(pending[d].actor, Opened(pending[d], done))
      PROVE  Base'
  <2>1. SoundOp(pending[d]) /\ Mounted(pending[d])
    BY <1>1, <1>8 DEF OpsOK
  <2>2. /\ mounted' \in [FsIds -> FsObjects \cup {Null}]
        /\ \A id \in FsIds : mounted[id] # Null => mounted'[id] # Null
    BY <1>1, <1>8, <2>1, RetreeTypes
  <2>3. OpsOK'
    BY <1>2, <1>6, <2>2, OpsKept
  <2>4. Done'
    BY <1>1, <1>5, <1>8, <2>1, RecordTypes DEF Done
  <2>5. pending[d].actor \in Holders /\ Opened(pending[d], done) \subseteq Paths
    BY <2>1, OpFacts, OpenedFacts DEF Holders
  <2>6. GrantTypes'
    BY <1>1, <1>2, <1>8, <2>5 DEF GrantTypes, Grant
  <2>7. Tops'
    BY <2>2 DEF Tops
  <2>8. QED
    BY <1>3, <1>5, <2>3, <2>4, <2>6, <2>7, TypeParts, PTL DEF Base
<1>9. QED
  BY <1>2, <1>7, <1>8

LEMMA BaseOther ==
  ASSUME Base, Sends \/ Tells \/ HandleAdd \/ HandleRemove \/ Restart \/ UNCHANGED vars
  PROVE  Base'
<1>1. TypeOK /\ OpsOK /\ GrantTypes /\ DialogTypes /\ InboxTypes /\ SaidAt /\ Done /\ Tops
  BY TypeParts DEF Base
<1> DEFINE S == UserEvents \cup {Request(c) : c \in Calls}
<1>2. CASE Sends \/ Tells
  <2>1. PICK e \in S : inbox' = Append(inbox, e)
    BY <1>2 DEF Sends, Tells
  <2>2. inbox \in Seq(S)
    BY <1>1 DEF InboxTypes
  <2> HIDE DEF S
  <2>3. inbox' \in Seq(S)
    BY <2>1, <2>2
  <2>4. sent' \in 0 .. MaxCalls /\ UNCHANGED <<mounted, dialogVars, grantVars, run, said, effects>>
    BY <1>1, <1>2 DEF Sends, Tells, InboxTypes
  <2>5. OpsOK' /\ SaidAt' /\ Done'
    BY <1>1, <2>4, OpsKept, QuietDone DEF dialogVars
  <2>6. InboxTypes'
    BY <2>3, <2>4 DEF InboxTypes, S
  <2>7. GrantTypes' /\ DialogTypes' /\ Tops'
    BY <1>1, <2>4 DEF GrantTypes, DialogTypes, Tops, dialogVars, grantVars
  <2>8. QED
    BY <2>5, <2>6, <2>7, TypeParts, PTL DEF Base
<1>3. CASE HandleAdd \/ HandleRemove
  <2>1. /\ inbox # << >> /\ Head(inbox).kind \in {"add", "remove"} /\ inbox' = Tail(inbox)
        /\ said' = Append(said, Head(inbox))
        /\ UNCHANGED <<mounted, dialogVars, run, sent, effects>>
    BY <1>3 DEF HandleAdd, HandleRemove, Take, Hear
  <2>2. Head(inbox) \in UserEvents /\ Head(inbox).path \in Paths
    BY <1>1, <2>1, HeadFacts, EventFacts
  <2>3. InboxTypes'
    BY <1>1, <2>1, HeadFacts DEF InboxTypes
  <2>4. SaidAt' /\ Done' /\ OpsOK'
    BY <1>1, <2>1, <2>2, SpokenDone, OpsKept DEF dialogVars
  <2>5. DialogTypes' /\ Tops'
    BY <1>1, <2>1 DEF DialogTypes, Tops, dialogVars
  <2>6. Owner(run) \in Holders
    BY <1>1 DEF GrantTypes, Holders
  <2>7. GrantTypes'
    BY <1>1, <1>3, <2>1, <2>2, <2>6 DEF GrantTypes, HandleAdd, HandleRemove
  <2>8. QED
    BY <2>3, <2>4, <2>5, <2>7, TypeParts, PTL DEF Base
<1>4. CASE Restart
  <2>1. /\ run' = run + 1 /\ run < MaxRuns /\ said' = Append(said, Restarted) /\ inbox' = << >>
        /\ screen' = {} /\ pending' = [d \in Dialogs |-> Null]
        /\ mounted' = [id \in FsIds |-> IF mounted[id] # Null /\ mounted[id].destroyed
                                        THEN Null ELSE mounted[id]]
        /\ UNCHANGED <<nextDialog, asked, askedAt, sent, saved, effects>>
        /\ session' = saved /\ persistent' = saved
        /\ server' = server \cup ({Owner(run')} \X saved)
    BY <1>4 DEF Restart, NextRun, Hear
  <2>2. InboxTypes' /\ DialogTypes' /\ SaidAt' /\ Done'
    BY <1>1, <2>1, SpokenDone DEF InboxTypes, DialogTypes
  <2>3. Tops'
    BY <1>1, <2>1 DEF Tops
  <2>4. run' \in Runs
    BY <1>1, <2>1, PathAssumption DEF Runs, GrantTypes
  <2>5. GrantTypes'
    BY <1>1, <2>1, <2>4 DEF GrantTypes, Holders
  <2>6. OpsOK'
    <3>1. \A d \in Dialogs : pending'[d] = Null /\ asked'[d] = asked[d]
      BY <2>1
    <3>2. QED
      BY <1>1, <3>1 DEF OpsOK, SoundOp
  <2>7. QED
    BY <2>2, <2>3, <2>5, <2>6, TypeParts, PTL DEF Base
<1>5. CASE UNCHANGED vars
  <2>1. UNCHANGED <<inbox, mounted, dialogVars, grantVars, run, sent, said, effects>>
    BY <1>5 DEF vars
  <2>2. OpsOK' /\ SaidAt' /\ Done'
    BY <1>1, <2>1, OpsKept, QuietDone DEF dialogVars
  <2>3. GrantTypes' /\ DialogTypes' /\ Tops' /\ InboxTypes'
    BY <1>1, <2>1 DEF GrantTypes, DialogTypes, Tops, InboxTypes, dialogVars, grantVars
  <2>4. QED
    BY <2>2, <2>3, TypeParts, PTL DEF Base
<1>6. QED
  BY <1>2, <1>3, <1>4, <1>5

LEMMA BaseStep == Base /\ [Next]_vars => Base'
<1> SUFFICES ASSUME Base, [Next]_vars PROVE Base'
  OBVIOUS
<1>1. TypeOK
  BY DEF Base
<1>2. \/ Sends \/ Tells \/ Refuses \/ Carries \/ Asks
      \/ HandleRespond \/ HandleAdd \/ HandleRemove \/ Restart
      \/ UNCHANGED vars
  BY <1>1, StepKinds
<1>3. CASE Refuses \/ Carries \/ Asks
  <2>1. Serving /\ (Refuse \/ Carries \/ Asks)
    BY <1>3 DEF Refuses, Carries, Asks
  <2>2. QED
    BY <2>1, BaseCall
<1>4. QED
  BY <1>2, <1>3, BaseRespond, BaseOther

-----------------------------------------------------------------------------
(* Open directories and the server.                                          *)

Reaching ==
  /\ \A dir \in session : \E a \in Holders : <<a, dir>> \in server
  /\ \A dir \in persistent : <<Owner(run), dir>> \in server

LEMMA ReachingStep == Base /\ Reaching /\ [Next]_vars => Reaching'
<1> SUFFICES ASSUME Base, Reaching, [Next]_vars PROVE Reaching'
  OBVIOUS
<1>1. TypeOK /\ Owner(run) \in Holders
  BY DEF Base, TypeOK, Holders
<1>2. \/ Sends \/ Tells \/ Refuses \/ Carries \/ Asks
      \/ HandleRespond \/ HandleAdd \/ HandleRemove \/ Restart
      \/ UNCHANGED vars
  BY <1>1, StepKinds
<1>3. CASE UNCHANGED <<session, persistent, server, run>>
  BY <1>3 DEF Reaching
<1>4. ASSUME NEW d \in Dialogs, NEW done \in Outcomes(pending[d]), pending[d] # Null,
             Grant(pending[d].actor, Opened(pending[d], done)), run' = run
      PROVE  Reaching'
  <2>1. pending[d].actor \in Holders
    BY <1>1, <1>4, OpFacts DEF Base, OpsOK, Holders
  <2>2. QED
    BY <1>4, <2>1 DEF Reaching, Grant
<1>5. CASE HandleRespond
  <2>1. \/ \E d \in Dialogs : \E done \in Outcomes(pending[d]) :
             pending[d] # Null /\ Grant(pending[d].actor, Opened(pending[d], done)) /\ run' = run
        \/ UNCHANGED grantVars /\ run' = run
    BY <1>1, <1>5, RespondFacts
  <2>2. QED
    BY <1>3, <1>4, <2>1 DEF grantVars
<1>6. CASE HandleAdd
  BY <1>1, <1>6 DEF HandleAdd, Reaching
<1>7. CASE HandleRemove
  <2>1. \A dir : <<Owner(run), dir>> \notin server' => <<Owner(run), dir>> \notin server \/ dir = Head(inbox).path
    BY <1>7 DEF HandleRemove
  <2>2. \A a \in Holders : \A dir : dir # Head(inbox).path /\ <<a, dir>> \in server => <<a, dir>> \in server'
    BY <1>7 DEF HandleRemove
  <2>3. /\ \A dir \in session' : dir \in session /\ dir # Head(inbox).path
        /\ \A dir \in persistent' : dir \in persistent /\ dir # Head(inbox).path
        /\ run' = run
    BY <1>7 DEF HandleRemove
  <2>4. QED
    BY <1>1, <2>2, <2>3 DEF Reaching
<1>8. CASE Restart
  <2>1. session' = saved /\ persistent' = saved /\ server' = server \cup ({Owner(run')} \X saved)
    BY <1>8 DEF Restart
  <2>2. Owner(run') \in Holders
    <3>1. run' \in Runs
      BY <1>1, <1>8, PathAssumption DEF Restart, NextRun, TypeOK, Runs
    <3>2. QED
      BY <3>1 DEF Holders
  <2>3. QED
    BY <2>1, <2>2 DEF Reaching
<1>9. QED
  BY <1>2, <1>3, <1>5, <1>6, <1>7, <1>8
     DEF Sends, Tells, Refuses, Carries, Asks, Serving, grantVars, vars

(* Every directory open in the shell is open at the server, whoever asked    *)
(* for it and however often the shell restarts (granted_dirs.rs, main.rs).   *)
THEOREM GrantsCorrect == Spec => []GrantsReachServer
<1>1. Init => Base /\ Reaching
  BY InitBase DEF Init, Reaching
<1>2. Base /\ Reaching /\ [Next]_vars => (Base /\ Reaching)'
  BY BaseStep, ReachingStep, PTL
<1>3. Base /\ Reaching => GrantsReachServer
  BY DEF Base, Reaching, GrantsReachServer
<1>4. QED
  BY <1>1, <1>2, <1>3, PTL DEF Spec

-----------------------------------------------------------------------------
(* Workspaces.                                                               *)

(* The user has added a directory and not removed it since.                  *)
Standing(dir) ==
  \E i \in DOMAIN said : /\ said[i] = AddWs(dir)
                         /\ \A j \in i + 1 .. Len(said) : said[j] # RemoveWs(dir)

SavedOK ==
  /\ persistent = saved /\ persistent \subseteq session
  /\ \A dir \in saved : LastWord(AddWs(dir), dir)
  /\ \A dir \in Paths : Standing(dir) => dir \in saved

LEMMA WordsDiffer ==
  ASSUME NEW dir, NEW dir2, NEW d, NEW allow
  PROVE  /\ AddWs(dir) # RemoveWs(dir2) /\ AddWs(dir) # Restarted /\ RemoveWs(dir) # Restarted
         /\ AddWs(dir) = AddWs(dir2) => dir = dir2
         /\ RemoveWs(dir) = RemoveWs(dir2) => dir = dir2
         /\ Answer(d, allow) # AddWs(dir) /\ Answer(d, allow) # RemoveWs(dir)
         /\ Answer(d, allow) # Restarted
<1>1. /\ AddWs(dir).kind = "add" /\ AddWs(dir).path = dir
      /\ AddWs(dir2).kind = "add" /\ AddWs(dir2).path = dir2
      /\ RemoveWs(dir).kind = "remove" /\ RemoveWs(dir).path = dir
      /\ RemoveWs(dir2).kind = "remove" /\ RemoveWs(dir2).path = dir2
      /\ Answer(d, allow).kind = "answer" /\ Restarted.kind = "restart"
  BY DEF AddWs, RemoveWs, Answer, Restarted
<1>2. QED
  BY <1>1

(* What one more word does to the last word and to what stands.              *)
LEMMA NextWord ==
  ASSUME TypeOK, NEW e \in UserEvents \cup {Restarted}, said' = Append(said, e), NEW dir
  PROVE  /\ (LastWord(AddWs(dir), dir) /\ e # RemoveWs(dir)) \/ e = AddWs(dir)
              => LastWord(AddWs(dir), dir)'
         /\ Standing(dir)' => e = AddWs(dir) \/ (Standing(dir) /\ e # RemoveWs(dir))
<1>1. /\ Len(said) \in Nat /\ Len(said') = Len(said) + 1
      /\ DOMAIN said = 1 .. Len(said) /\ DOMAIN said' = 1 .. Len(said) + 1
      /\ said'[Len(said) + 1] = e
      /\ \A i \in 1 .. Len(said) : said'[i] = said[i]
  BY Spoken
<1>2. ASSUME LastWord(AddWs(dir), dir), e # RemoveWs(dir), e # AddWs(dir)
      PROVE  LastWord(AddWs(dir), dir)'
  <2>1. PICK i \in DOMAIN said : /\ said[i] = AddWs(dir)
                                 /\ \A j \in i + 1 .. Len(said) : said[j] \notin {AddWs(dir), RemoveWs(dir)}
    BY <1>2 DEF LastWord
  <2>2. \A j \in i + 1 .. Len(said') : said'[j] \notin {AddWs(dir), RemoveWs(dir)}
    <3>1. SUFFICES ASSUME NEW j \in i + 1 .. Len(said')
                   PROVE  said'[j] \notin {AddWs(dir), RemoveWs(dir)}
      OBVIOUS
    <3>2. CASE j = Len(said) + 1
      BY <1>1, <1>2, <3>2
    <3>3. CASE j # Len(said) + 1
      <4>1. j \in i + 1 .. Len(said) /\ j \in 1 .. Len(said)
        BY <1>1, <2>1, <3>3
      <4>2. QED
        BY <1>1, <2>1, <4>1
    <3>4. QED
      BY <3>2, <3>3
  <2>3. i \in DOMAIN said' /\ said'[i] = AddWs(dir)
    BY <1>1, <2>1
  <2>4. QED
    BY <2>2, <2>3 DEF LastWord, AddWs, RemoveWs
<1>3. ASSUME e = AddWs(dir) PROVE LastWord(AddWs(dir), dir)'
  <2>1. Len(said) + 1 \in DOMAIN said' /\ said'[Len(said) + 1] = AddWs(dir)
    BY <1>1, <1>3
  <2>2. \A j \in (Len(said) + 1) + 1 .. Len(said') : FALSE
    BY <1>1
  <2>3. QED
    BY <2>1, <2>2 DEF LastWord, AddWs, RemoveWs
<1>4. ASSUME Standing(dir)', e # AddWs(dir) PROVE Standing(dir) /\ e # RemoveWs(dir)
  <2>1. PICK i \in DOMAIN said' : /\ said'[i] = AddWs(dir)
                                  /\ \A j \in i + 1 .. Len(said') : said'[j] # RemoveWs(dir)
    BY <1>4 DEF Standing, AddWs, RemoveWs
  <2>2. i # Len(said) + 1
    BY <1>1, <1>4, <2>1
  <2>3. i \in DOMAIN said /\ said[i] = AddWs(dir)
    BY <1>1, <2>1, <2>2
  <2>4. Len(said) + 1 \in i + 1 .. Len(said')
    BY <1>1, <2>3
  <2>5. \A j \in i + 1 .. Len(said) : j \in i + 1 .. Len(said') /\ said'[j] = said[j]
    BY <1>1, <2>3
  <2>6. QED
    BY <1>1, <2>1, <2>3, <2>4, <2>5 DEF Standing
<1>5. QED
  BY <1>2, <1>3, <1>4

LEMMA SavedSame ==
  ASSUME SavedOK, UNCHANGED <<said, persistent, saved>>, session \subseteq session'
  PROVE  SavedOK'
BY DEF SavedOK, Standing, LastWord, AddWs, RemoveWs

LEMMA SavedStep == Base /\ SavedOK /\ [Next]_vars => SavedOK'
<1> SUFFICES ASSUME Base, SavedOK, [Next]_vars PROVE SavedOK'
  OBVIOUS
<1>1. TypeOK /\ saved \subseteq Paths
  BY DEF Base, TypeOK
<1>2. \/ Sends \/ Tells \/ Refuses \/ Carries \/ Asks
      \/ HandleRespond \/ HandleAdd \/ HandleRemove \/ Restart
      \/ UNCHANGED vars
  BY <1>1, StepKinds
<1>3. CASE UNCHANGED <<said, grantVars>>
  BY <1>3, SavedSame DEF grantVars
<1>4. CASE HandleRespond
  <2>1. PICK d \in Dialogs, allow \in BOOLEAN : said' = Append(said, Answer(d, allow))
    BY <1>1, <1>4, RespondFacts
  <2>2. UNCHANGED <<persistent, saved>> /\ session \subseteq session'
    BY <1>4 DEF HandleRespond, Grant, grantVars
  <2>3. Answer(d, allow) \in UserEvents
    BY DEF Answer, UserEvents
  <2>4. ASSUME NEW dir
        PROVE  /\ LastWord(AddWs(dir), dir) => LastWord(AddWs(dir), dir)'
               /\ Standing(dir)' => Standing(dir)
    BY <1>1, <2>1, <2>3, NextWord, WordsDiffer
  <2>5. QED
    BY <2>2, <2>4 DEF SavedOK, AddWs
<1>5. CASE HandleAdd
  <2> DEFINE dir0 == Head(inbox).path
  <2>1. inbox # << >> /\ Head(inbox).kind = "add" /\ said' = Append(said, Head(inbox))
    BY <1>5 DEF HandleAdd, Take, Hear
  <2>2. Head(inbox) \in UserEvents /\ Head(inbox) = AddWs(dir0) /\ dir0 \in Paths
    BY <1>1, <2>1, HeadFacts, EventFacts
  <2>3. session' = session \cup {dir0} /\ persistent' = persistent \cup {dir0} /\ saved' = persistent'
    BY <1>5 DEF HandleAdd
  <2> HIDE DEF dir0
  <2>4. ASSUME NEW dir
        PROVE  /\ LastWord(AddWs(dir), dir) \/ dir = dir0 => LastWord(AddWs(dir), dir)'
               /\ Standing(dir)' => Standing(dir) \/ dir = dir0
    BY <1>1, <2>1, <2>2, NextWord, WordsDiffer
  <2>5. QED
    BY <2>3, <2>4 DEF SavedOK, AddWs
<1>6. CASE HandleRemove
  <2> DEFINE dir0 == Head(inbox).path
  <2>1. inbox # << >> /\ Head(inbox).kind = "remove" /\ said' = Append(said, Head(inbox))
    BY <1>6 DEF HandleRemove, Take, Hear
  <2>2. Head(inbox) \in UserEvents /\ Head(inbox) = RemoveWs(dir0) /\ dir0 \in Paths
    BY <1>1, <2>1, HeadFacts, EventFacts
  <2>3. session' = session \ {dir0} /\ persistent' = persistent \ {dir0}
        /\ saved' = IF dir0 \in persistent THEN persistent' ELSE saved
    BY <1>6 DEF HandleRemove
  <2> HIDE DEF dir0
  <2>4. ASSUME NEW dir
        PROVE  /\ LastWord(AddWs(dir), dir) /\ dir # dir0 => LastWord(AddWs(dir), dir)'
               /\ Standing(dir)' => Standing(dir) /\ dir # dir0
    BY <1>1, <2>1, <2>2, NextWord, WordsDiffer
  <2>5. saved' = saved \ {dir0} /\ persistent' = saved' /\ persistent' \subseteq session'
    BY <2>3 DEF SavedOK
  <2>6. QED
    BY <2>4, <2>5 DEF SavedOK, AddWs
<1>7. CASE Restart
  <2>1. said' = Append(said, Restarted) /\ session' = saved /\ persistent' = saved /\ saved' = saved
    BY <1>7 DEF Restart, NextRun, Hear
  <2>2. ASSUME NEW dir
        PROVE  /\ LastWord(AddWs(dir), dir) => LastWord(AddWs(dir), dir)'
               /\ Standing(dir)' => Standing(dir)
    BY <1>1, <2>1, NextWord, WordsDiffer
  <2>3. QED
    BY <2>1, <2>2 DEF SavedOK, AddWs
<1>8. QED
  BY <1>2, <1>3, <1>4, <1>5, <1>6, <1>7
     DEF Sends, Tells, Refuses, Carries, Asks, Serving, vars

LEMMA LastWordStands ==
  ASSUME TypeOK, NEW dir, LastWord(AddWs(dir), dir)
  PROVE  Standing(dir)
BY DEF LastWord, Standing

(* The saved file, the sets in memory and the user's commands agree through  *)
(* every restart (granted_dirs.rs).                                          *)
THEOREM WorkspacesCorrect == Spec => []WorkspacesSurvive
<1>1. Init => Base /\ SavedOK
  BY InitBase DEF Init, SavedOK, Standing
<1>2. Base /\ SavedOK /\ [Next]_vars => (Base /\ SavedOK)'
  BY BaseStep, SavedStep, PTL
<1>3. Base /\ SavedOK => WorkspacesSurvive
  <2> SUFFICES ASSUME Base, SavedOK, NEW dir \in Workspaces \cup saved \cup persistent
               PROVE  /\ dir \in saved <=> LastWord(AddWs(dir), dir)
                      /\ dir \in persistent <=> dir \in saved
                      /\ dir \in persistent => dir \in session
    BY DEF WorkspacesSurvive
  <2>1. dir \in Paths /\ TypeOK
    BY PathAssumption DEF Base, TypeOK
  <2>2. QED
    BY <2>1, LastWordStands DEF SavedOK
<1>4. QED
  BY <1>1, <1>2, <1>3, PTL DEF Spec

-----------------------------------------------------------------------------
(* Dialogs and their answers.                                                *)

LEMMA HeardNext ==
  ASSUME TypeOK, NEW e \in UserEvents \cup {Restarted}, said' = Append(said, e), NEW d
  PROVE  Heard(d)' <=> Heard(d) \/ (e.kind = "answer" /\ e.dialog = d)
<1>1. /\ Len(said) \in Nat
      /\ DOMAIN said = 1 .. Len(said) /\ DOMAIN said' = 1 .. Len(said) + 1
      /\ said'[Len(said) + 1] = e
      /\ \A i \in 1 .. Len(said) : said'[i] = said[i]
  BY Spoken
<1>2. /\ Len(said) + 1 \in DOMAIN said'
      /\ \A i \in DOMAIN said : i \in DOMAIN said' /\ said'[i] = said[i]
      /\ \A i \in DOMAIN said' : i = Len(said) + 1 \/ i \in DOMAIN said
  BY <1>1
<1>3. QED
  BY <1>1, <1>2 DEF Heard

LEMMA ClickingNext ==
  ASSUME TypeOK, NEW d
  PROVE  /\ inbox # << >> /\ inbox' = Tail(inbox) /\ Clicking(d)' => Clicking(d)
         /\ \A e \in UserEvents \cup {Request(c) : c \in Calls} :
              inbox' = Append(inbox, e) /\ Clicking(d)'
                => Clicking(d) \/ (e.kind = "answer" /\ e.dialog = d)
<1>1. ASSUME inbox # << >>, inbox' = Tail(inbox), Clicking(d)' PROVE Clicking(d)
  <2>1. PICK j \in DOMAIN inbox' : inbox'[j].kind = "answer" /\ inbox'[j].dialog = d
    BY <1>1 DEF Clicking
  <2>2. j + 1 \in DOMAIN inbox /\ inbox'[j] = inbox[j + 1]
    BY <1>1, <2>1, HeadFacts
  <2>3. QED
    BY <2>1, <2>2 DEF Clicking
<1> DEFINE S == UserEvents \cup {Request(c) : c \in Calls}
<1>2. ASSUME NEW e \in S, inbox' = Append(inbox, e), Clicking(d)'
      PROVE  Clicking(d) \/ (e.kind = "answer" /\ e.dialog = d)
  <2>1. inbox \in Seq(S)
    BY DEF TypeOK
  <2> HIDE DEF S
  <2>2. /\ Append(inbox, e)[Len(inbox) + 1] = e
        /\ \A i \in DOMAIN inbox : Append(inbox, e)[i] = inbox[i]
        /\ \A i \in DOMAIN Append(inbox, e) : i = Len(inbox) + 1 \/ i \in DOMAIN inbox
    BY <2>1, AppendFacts
  <2>3. QED
    BY <1>2, <2>2 DEF Clicking
<1>3. QED
  BY <1>1, <1>2

LEMMA QuietDialogs ==
  ASSUME TypeOK, DialogsOK, UNCHANGED <<said, asked, pending, nextDialog>>,
         \A d \in Dialogs : Clicking(d)' \/ d \in screen' => Clicking(d) \/ d \in screen
  PROVE  DialogsOK'
BY DEF DialogsOK, Heard

LEMMA DialogsStep == Base /\ DialogsOK /\ [Next]_vars => DialogsOK'
<1> SUFFICES ASSUME Base, DialogsOK, [Next]_vars PROVE DialogsOK'
  OBVIOUS
<1>1. TypeOK /\ GrantTypes /\ DialogTypes /\ InboxTypes /\ SaidAt
  BY TypeParts DEF Base
<1>2. \/ Sends \/ Tells \/ Refuses \/ Carries \/ Asks
      \/ HandleRespond \/ HandleAdd \/ HandleRemove \/ Restart
      \/ UNCHANGED vars
  BY <1>1, StepKinds
<1>3. CASE UNCHANGED <<said, dialogVars>> /\ inbox # << >> /\ inbox' = Tail(inbox)
  BY <1>1, <1>3, ClickingNext, QuietDialogs DEF dialogVars
<1>4. CASE UNCHANGED <<said, dialogVars>> /\ UNCHANGED inbox
  <2>1. \A d : Clicking(d)' <=> Clicking(d)
    BY <1>4 DEF Clicking
  <2>2. QED
    BY <1>1, <1>4, <2>1, QuietDialogs DEF dialogVars
<1>5. CASE Sends
  <2>1. PICK c \in Calls : inbox' = Append(inbox, Request(c))
    BY <1>5 DEF Sends
  <2>2. Request(c).kind # "answer"
    BY DEF Request
  <2>3. \A d \in Dialogs : Clicking(d)' => Clicking(d)
    BY <1>1, <2>1, <2>2, ClickingNext
  <2>4. UNCHANGED <<said, dialogVars>>
    BY <1>5 DEF Sends
  <2>5. QED
    BY <1>1, <2>3, <2>4, QuietDialogs DEF dialogVars
<1>6. CASE Tells
  <2>1. PICK e \in UserEvents : /\ e.kind = "answer" => e.dialog \in screen
                                /\ inbox' = Append(inbox, e)
                                /\ UNCHANGED <<said, dialogVars>>
    BY <1>6 DEF Tells
  <2>2. \A d \in Dialogs : Clicking(d)' => Clicking(d) \/ d \in screen
    BY <1>1, <2>1, ClickingNext
  <2>3. QED
    BY <1>1, <2>1, <2>2, QuietDialogs DEF dialogVars
<1>7. CASE Refuses \/ Carries
  BY <1>3, <1>7 DEF Refuses, Carries, Refuse, CarryOut, Serving
<1>8. CASE Asks
  <2>1. PICK op : SoundOp(op) /\ Ask(op)
    BY <1>8 DEF Asks
  <2>2. inbox # << >> /\ inbox' = Tail(inbox) /\ said' = said
    BY <1>8 DEF Asks, Serving
  <2>3. \A d \in Dialogs : (Clicking(d)' => Clicking(d)) /\ (Heard(d)' <=> Heard(d))
    BY <1>1, <2>2, ClickingNext DEF Heard
  <2>4. op # Null
    BY <2>1, OpFacts
  <2>5. /\ nextDialog \in Dialogs /\ nextDialog \in Nat /\ nextDialog' = nextDialog + 1
        /\ screen' = screen \cup {nextDialog}
        /\ \A d \in Dialogs : /\ asked'[d] = (IF d = nextDialog THEN op ELSE asked[d])
                              /\ pending'[d] = (IF d = nextDialog THEN op ELSE pending[d])
    BY <1>1, <2>1 DEF Ask, DialogTypes
  <2>6. \A d \in Dialogs : d \in Nat /\ (d < nextDialog => d < nextDialog' /\ d # nextDialog)
                           /\ (d >= nextDialog' => d >= nextDialog /\ d # nextDialog)
    BY <2>5 DEF Dialogs
  <2>7. nextDialog < nextDialog' /\ ~Heard(nextDialog)
    BY <2>5 DEF DialogsOK
  <2>8. \A d \in Dialogs : d >= nextDialog' => asked'[d] = Null /\ pending'[d] = Null
    BY <2>5, <2>6 DEF DialogsOK
  <2>9. \A d \in Dialogs : pending'[d] # Null => ~Heard(d)'
    BY <2>3, <2>5, <2>7 DEF DialogsOK
  <2>10. \A d \in Dialogs : Heard(d)' => d < nextDialog'
    BY <2>3, <2>6 DEF DialogsOK
  <2>11. \A d \in Dialogs : Clicking(d)' \/ d \in screen' => d < nextDialog' /\ (Heard(d)' \/ pending'[d] # Null)
    BY <2>3, <2>4, <2>5, <2>6, <2>7 DEF DialogsOK
  <2>12. QED
    BY <2>8, <2>9, <2>10, <2>11 DEF DialogsOK
<1>9. CASE HandleRespond
  <2>1. PICK d0 \in Dialogs, allow \in BOOLEAN :
         /\ inbox # << >> /\ Clicking(d0)
         /\ inbox' = Tail(inbox) /\ said' = Append(said, Answer(d0, allow))
         /\ pending' = [pending EXCEPT ![d0] = Null] /\ screen' = screen \ {d0}
         /\ UNCHANGED <<nextDialog, asked>>
    BY <1>1, <1>9, RespondFacts
  <2>2. /\ Answer(d0, allow) \in UserEvents /\ Answer(d0, allow).kind = "answer"
        /\ Answer(d0, allow).dialog = d0
    BY DEF Answer, UserEvents
  <2>3. \A d \in Dialogs : /\ Clicking(d)' => Clicking(d)
                           /\ Heard(d)' <=> Heard(d) \/ d = d0
    BY <1>1, <2>1, <2>2, ClickingNext, HeardNext
  <2>4. \A d \in Dialogs : pending'[d] = IF d = d0 THEN Null ELSE pending[d]
    BY <1>1, <2>1 DEF DialogTypes
  <2>5. d0 < nextDialog
    BY <2>1 DEF DialogsOK
  <2>6. QED
    BY <2>1, <2>3, <2>4, <2>5 DEF DialogsOK
<1>10. CASE HandleAdd \/ HandleRemove
  <2>1. /\ inbox # << >> /\ Head(inbox).kind \in {"add", "remove"} /\ inbox' = Tail(inbox)
        /\ said' = Append(said, Head(inbox)) /\ UNCHANGED dialogVars
    BY <1>10 DEF HandleAdd, HandleRemove, Take, Hear
  <2>2. Head(inbox) \in UserEvents
    BY <1>1, <2>1, HeadFacts
  <2>3. \A d \in Dialogs : (Clicking(d)' => Clicking(d)) /\ (Heard(d)' <=> Heard(d))
    BY <1>1, <2>1, <2>2, ClickingNext, HeardNext
  <2>4. UNCHANGED <<nextDialog, asked, pending, screen>>
    BY <2>1 DEF dialogVars
  <2>5. QED
    BY <2>3, <2>4 DEF DialogsOK
<1>11. CASE Restart
  <2>1. /\ said' = Append(said, Restarted) /\ inbox' = << >> /\ screen' = {}
        /\ pending' = [d \in Dialogs |-> Null] /\ UNCHANGED <<nextDialog, asked>>
    BY <1>11 DEF Restart, NextRun, Hear
  <2>2. Restarted.kind # "answer"
    BY DEF Restarted
  <2>3. \A d \in Dialogs : ~Clicking(d)' /\ (Heard(d)' <=> Heard(d))
    BY <1>1, <2>1, <2>2, HeardNext DEF Clicking
  <2>4. QED
    BY <2>1, <2>3 DEF DialogsOK
<1>12. CASE UNCHANGED vars
  BY <1>4, <1>12 DEF vars
<1>13. QED
  BY <1>2, <1>5, <1>6, <1>7, <1>8, <1>9, <1>10, <1>11, <1>12

-----------------------------------------------------------------------------
(* What the user has said only grows, so what it shows does not change.      *)

Extends ==
  /\ Len(said) \in Nat /\ Len(said') \in Nat /\ Len(said) <= Len(said')
  /\ \A i \in 1 .. Len(said) : said'[i] = said[i]
  /\ \A d \in Dialogs : Heard(d) => asked'[d] = asked[d]

(* What a Dialog asked, and when, is settled once it is up.                  *)
Settled ==
  \A d \in Dialogs : asked[d] # Null => asked'[d] = asked[d] /\ askedAt'[d] = askedAt[d]

LEMMA ExtendsStep ==
  ASSUME Base, DialogsOK, [Next]_vars
  PROVE  Extends /\ Settled
<1>1. TypeOK /\ DialogTypes
  BY TypeParts DEF Base
<1>2. \/ Sends \/ Tells \/ Refuses \/ Carries \/ Asks
      \/ HandleRespond \/ HandleAdd \/ HandleRemove \/ Restart
      \/ UNCHANGED vars
  BY <1>1, StepKinds
<1>3. /\ Len(said) \in Nat /\ Len(said') \in Nat /\ Len(said) <= Len(said')
      /\ \A i \in 1 .. Len(said) : said'[i] = said[i]
  <2>1. CASE said' = said
    BY <1>1, <2>1, SaidTypes
  <2>2. ASSUME NEW e \in UserEvents \cup {Restarted}, said' = Append(said, e)
        PROVE  /\ Len(said) \in Nat /\ Len(said') \in Nat /\ Len(said) <= Len(said')
               /\ \A i \in 1 .. Len(said) : said'[i] = said[i]
    BY <1>1, <2>2, Spoken
  <2>3. HandleRespond \/ HandleAdd \/ HandleRemove => Head(inbox) \in UserEvents
    BY <1>1, HeadFacts DEF HandleRespond, HandleAdd, HandleRemove, Take
  <2>4. \/ said' = said
        \/ \E e \in UserEvents \cup {Restarted} : said' = Append(said, e)
    BY <1>2, <2>3 DEF Sends, Tells, Refuses, Carries, Asks, Serving, vars,
       HandleRespond, HandleAdd, HandleRemove, Restart, NextRun, Hear
  <2>5. QED
    BY <2>1, <2>2, <2>4
<1>4. \A d \in Dialogs : d # nextDialog => asked'[d] = asked[d] /\ askedAt'[d] = askedAt[d]
  <2>1. CASE Asks
    BY <1>1, <2>1 DEF Asks, Ask, DialogTypes
  <2>2. CASE UNCHANGED <<asked, askedAt>>
    BY <2>2
  <2>3. QED
    BY <1>2, <2>1, <2>2 DEF Sends, Tells, Refuses, Refuse, Carries, CarryOut, vars, dialogVars,
       HandleRespond, HandleAdd, HandleRemove, Restart, NextRun
<1>5. nextDialog \in Nat /\ (nextDialog \in Dialogs => asked[nextDialog] = Null /\ ~Heard(nextDialog))
  BY <1>1 DEF DialogTypes, DialogsOK
<1>6. QED
  BY <1>3, <1>4, <1>5 DEF Extends, Settled

(* Nothing has undone or outlived the i-th word by the n-th.                 *)
Lasts(i, dir, n) ==
  \A j \in i + 1 .. n : /\ said[j] # RemoveWs(dir)
                        /\ said[j] = Restarted => said[i].kind = "add"

(* Opens, a directory at a time.                                             *)
Speaks(ops, i, dir) ==
  \/ said[i].kind = "add" /\ said[i].path = dir
  \/ \E d \in Dialogs : /\ Allows(i, d)
                        /\ asked[d].method \in ops
                        /\ dir \in Places(asked[d])

Backed(ops, dir, n) == \E i \in 1 .. n : Speaks(ops, i, dir) /\ Lasts(i, dir, n)

LEMMA TrustedBacked ==
  ASSUME NEW ops, NEW p, NEW n
  PROVE  Trusted(ops, p, n) <=> \E dir : Below(p, dir) /\ Backed(ops, dir, n)
<1>1. \A i, dir : dir \in Opens(ops, i) <=> Speaks(ops, i, dir)
  BY DEF Opens, Speaks
<1>2. QED
  BY <1>1 DEF Trusted, Backed, Lasts

LEMMA AllowsHeard ==
  ASSUME TypeOK, NEW i \in 1 .. Len(said), NEW d, Allows(i, d)
  PROVE  Heard(d)
<1>1. i \in DOMAIN said
  BY SaidTypes
<1>2. said[i].kind = "answer" /\ said[i].dialog = d
  BY DEF Allows, Answer
<1>3. QED
  BY <1>1, <1>2 DEF Heard

LEMMA AllowsStable ==
  ASSUME Extends, NEW i \in 1 .. Len(said), NEW d
  PROVE  Allows(i, d)' <=> Allows(i, d)
<1>1. \A j \in 1 .. i - 1 : j \in 1 .. Len(said) /\ said'[j] = said[j]
  BY DEF Extends
<1>2. said'[i] = said[i]
  BY DEF Extends
<1>3. QED
  BY <1>1, <1>2 DEF Allows, Answer

LEMMA SpeaksStable ==
  ASSUME TypeOK, Extends, NEW ops, NEW i \in 1 .. Len(said), NEW dir
  PROVE  Speaks(ops, i, dir)' <=> Speaks(ops, i, dir)
<1>1. said'[i] = said[i]
  BY DEF Extends
<1>2. \A d \in Dialogs : /\ Allows(i, d)' <=> Allows(i, d)
                         /\ Allows(i, d) => asked'[d] = asked[d]
  BY AllowsStable, AllowsHeard DEF Extends
<1>3. QED
  BY <1>1, <1>2 DEF Speaks, Places, ParentOf, Touched, Target, Join

LEMMA LastsStable ==
  ASSUME TypeOK, Extends, NEW n \in Nat, n <= Len(said), NEW i \in 1 .. n, NEW dir
  PROVE  Lasts(i, dir, n)' <=> Lasts(i, dir, n)
<1>1. \A j \in i .. n : said'[j] = said[j]
  BY DEF Extends
<1>2. said'[i] = said[i] /\ \A j \in i + 1 .. n : said'[j] = said[j]
  BY <1>1
<1>3. QED
  BY <1>2 DEF Lasts, RemoveWs, Restarted

LEMMA BackedStable ==
  ASSUME TypeOK, Extends, NEW ops, NEW n \in Nat, n <= Len(said), NEW dir
  PROVE  Backed(ops, dir, n)' <=> Backed(ops, dir, n)
<1>1. \A i \in 1 .. n : i \in 1 .. Len(said)
  BY DEF Extends
<1>2. \A i \in 1 .. n : /\ Speaks(ops, i, dir)' <=> Speaks(ops, i, dir)
                        /\ Lasts(i, dir, n)' <=> Lasts(i, dir, n)
  BY <1>1, SpeaksStable, LastsStable
<1>3. QED
  BY <1>2 DEF Backed

LEMMA TrustedStable ==
  ASSUME TypeOK, Extends, NEW ops, NEW n \in Nat, n <= Len(said), NEW p
  PROVE  Trusted(ops, p, n)' <=> Trusted(ops, p, n)
<1>1. \A dir : Backed(ops, dir, n)' <=> Backed(ops, dir, n)
  BY BackedStable
<1>2. Trusted(ops, p, n)' <=> \E dir : Below(p, dir) /\ Backed(ops, dir, n)'
  <2>1. \A i, dir : (dir \in Opens(ops, i))' <=> Speaks(ops, i, dir)'
    BY DEF Opens, Speaks
  <2>2. QED
    BY <2>1 DEF Trusted, Backed, Lasts
<1>3. QED
  BY <1>1, <1>2, TrustedBacked

(* One more word.                                                            *)
LEMMA BackedNext ==
  ASSUME TypeOK, Extends, NEW e \in UserEvents \cup {Restarted}, said' = Append(said, e),
         NEW ops, NEW dir, NEW n \in Nat, n = Len(said)
  PROVE  Backed(ops, dir, n + 1)' <=>
           \/ Speaks(ops, n + 1, dir)'
           \/ \E i \in 1 .. n : /\ Speaks(ops, i, dir) /\ Lasts(i, dir, n)
                                /\ e # RemoveWs(dir)
                                /\ e = Restarted => said[i].kind = "add"
<1>1. said'[n + 1] = e /\ \A i \in 1 .. n : said'[i] = said[i]
  BY Spoken
<1>2. \A i \in 1 .. n : /\ Speaks(ops, i, dir)' <=> Speaks(ops, i, dir)
                        /\ Lasts(i, dir, n)' <=> Lasts(i, dir, n)
  BY SpeaksStable, LastsStable
<1>3. \A i \in 1 .. n : Lasts(i, dir, n + 1)' <=>
         /\ Lasts(i, dir, n)' /\ e # RemoveWs(dir) /\ (e = Restarted => said[i].kind = "add")
  <2> SUFFICES ASSUME NEW i \in 1 .. n
               PROVE  Lasts(i, dir, n + 1)' <=>
                        /\ Lasts(i, dir, n)' /\ e # RemoveWs(dir)
                        /\ (e = Restarted => said[i].kind = "add")
    OBVIOUS
  <2>1. i + 1 .. n + 1 = (i + 1 .. n) \cup {n + 1}
    OBVIOUS
  <2>2. said'[i] = said[i]
    BY <1>1
  <2>3. Lasts(i, dir, n + 1)' <=>
          \A j \in (i + 1 .. n) \cup {n + 1} :
             said'[j] # RemoveWs(dir) /\ (said'[j] = Restarted => said[i].kind = "add")
    BY <2>1, <2>2 DEF Lasts, RemoveWs, Restarted
  <2>4. Lasts(i, dir, n)' <=>
          \A j \in i + 1 .. n :
             said'[j] # RemoveWs(dir) /\ (said'[j] = Restarted => said[i].kind = "add")
    BY <2>2 DEF Lasts, RemoveWs, Restarted
  <2>5. QED
    BY <1>1, <2>3, <2>4
<1>4. Lasts(n + 1, dir, n + 1)'
  BY DEF Lasts
<1>5. \A i \in 1 .. n + 1 : i = n + 1 \/ i \in 1 .. n
  OBVIOUS
<1>6. \A i \in 1 .. n : i \in 1 .. n + 1
  OBVIOUS
<1>7. n + 1 \in 1 .. n + 1
  OBVIOUS
<1>8. QED
  BY <1>2, <1>3, <1>4, <1>5, <1>6, <1>7 DEF Backed

(* What the word just heard says by itself.                                  *)
LEMMA AddSpeaks ==
  ASSUME TypeOK, NEW e \in UserEvents \cup {Restarted}, said' = Append(said, e),
         NEW ops, NEW dir, NEW n \in Nat, n = Len(said), e.kind # "answer"
  PROVE  Speaks(ops, n + 1, dir)' <=> e = AddWs(dir)
<1>1. said'[n + 1] = e
  BY Spoken
<1>2. \A d : ~Allows(n + 1, d)'
  BY <1>1 DEF Allows, Answer
<1>3. e.kind = "add" /\ e.path = dir <=> e = AddWs(dir)
  <2>1. AddWs(dir).kind = "add" /\ AddWs(dir).path = dir /\ Restarted.kind = "restart"
    BY DEF AddWs, Restarted
  <2>2. QED
    BY <2>1, EventFacts
<1>4. QED
  BY <1>1, <1>2, <1>3 DEF Speaks

(* An answer speaks for the directories of its Dialog if it is the first and *)
(* allows the operation.                                                     *)
Says(d, allow, ops, dir) ==
  /\ allow = TRUE /\ ~Heard(d) /\ asked[d].method \in ops
  /\ dir \in Places(asked[d])

LEMMA AnswerSpeaks ==
  ASSUME TypeOK, NEW d0 \in Dialogs, NEW allow \in BOOLEAN,
         said' = Append(said, Answer(d0, allow)), UNCHANGED asked,
         NEW ops, NEW dir, NEW n \in Nat, n = Len(said)
  PROVE  /\ allow = TRUE /\ ~Heard(d0) => Allows(n + 1, d0)'
         /\ Speaks(ops, n + 1, dir)' <=> Says(d0, allow, ops, dir)
<1>1. Answer(d0, allow) \in UserEvents
  BY DEF Answer, UserEvents
<1>2. /\ DOMAIN said = 1 .. n /\ said'[n + 1] = Answer(d0, allow)
      /\ \A i \in 1 .. n : said'[i] = said[i]
  BY <1>1, Spoken
<1>3. (n + 1) - 1 = n
  OBVIOUS
<1>4. \A d : Allows(n + 1, d)' <=>
        /\ said'[n + 1] = Answer(d, TRUE)
        /\ \A j \in 1 .. n : said'[j].kind = "answer" => said'[j].dialog # d
  BY <1>3 DEF Allows, Answer
<1>5. \A d : Heard(d) <=> \E j \in 1 .. n : said'[j].kind = "answer" /\ said'[j].dialog = d
  BY <1>2 DEF Heard
<1>6. \A d : Answer(d0, allow) = Answer(d, TRUE) <=> d = d0 /\ allow = TRUE
  <2>1. ASSUME NEW d, Answer(d0, allow) = Answer(d, TRUE) PROVE d = d0 /\ allow = TRUE
    <3>1. /\ Answer(d0, allow).dialog = d0 /\ Answer(d, TRUE).dialog = d
      BY DEF Answer
    <3>2. /\ Answer(d0, allow).allow = allow /\ Answer(d, TRUE).allow = TRUE
      BY Zenon DEF Answer
    <3>3. d = d0
      BY <2>1, <3>1
    <3>4. allow = TRUE
      BY <2>1, <3>2, Zenon
    <3>5. QED
      BY <3>3, <3>4
  <2>2. QED
    BY <2>1, Zenon
<1>7. \A d : Allows(n + 1, d)' <=> d = d0 /\ allow = TRUE /\ ~Heard(d0)
  <2>1. \A d : Allows(n + 1, d)' <=>
          /\ d = d0 /\ allow = TRUE
          /\ \A j \in 1 .. n : said'[j].kind = "answer" => said'[j].dialog # d
    <3> SUFFICES ASSUME NEW d
                 PROVE  said'[n + 1] = Answer(d, TRUE) <=> d = d0 /\ allow = TRUE
      BY <1>4, Zenon
    <3>1. said'[n + 1] = Answer(d0, allow)
      BY <1>2
    <3>2. QED
      BY <1>6, <3>1, Zenon
  <2>2. QED
    BY <1>5, <2>1, Zenon
<1>8. said'[n + 1].kind # "add"
  BY <1>2 DEF Answer
<1>9. Speaks(ops, n + 1, dir)' <=>
        \E d \in Dialogs : /\ Allows(n + 1, d)' /\ asked[d].method \in ops
                           /\ dir \in Places(asked[d])
  BY <1>8 DEF Speaks, Places, ParentOf, Touched, Target, Join
<1>10. allow = TRUE /\ ~Heard(d0) => Allows(n + 1, d0)'
  BY <1>7
<1>11. QED
  BY <1>7, <1>9, <1>10 DEF Says

-----------------------------------------------------------------------------
(* The session's directories are those the user's words back.                *)

SessionOK ==
  /\ \A dir \in session : Backed(Opening, dir, Len(said))
  /\ \A dir : Backed(Creates \cup Externals, dir, Len(said)) => dir \in session

LEMMA SessionSame ==
  ASSUME TypeOK, Extends, SessionOK, UNCHANGED <<said, session>>
  PROVE  SessionOK'
<1>1. PICK n \in Nat : n = Len(said)
  BY SaidTypes
<1>2. \A ops, dir : Backed(ops, dir, n)' <=> Backed(ops, dir, n)
  BY <1>1, BackedStable
<1>3. n = Len(said')
  BY <1>1
<1>4. /\ \A dir \in session' : Backed(Opening, dir, n)'
      /\ \A dir : Backed(Creates \cup Externals, dir, n)' => dir \in session'
  BY <1>1, <1>2 DEF SessionOK
<1>5. SessionOK' <=>
        /\ \A dir \in session' : Backed(Opening, dir, n)'
        /\ \A dir : Backed(Creates \cup Externals, dir, n)' => dir \in session'
  BY <1>3 DEF SessionOK, Backed, Lasts
<1>6. QED
  BY <1>4, <1>5

LEMMA SessionNext ==
  ASSUME NEW m \in Nat, m = Len(said'),
         \A dir \in session' : Backed(Opening, dir, m)',
         \A dir : Backed(Creates \cup Externals, dir, m)' => dir \in session'
  PROVE  SessionOK'
BY DEF SessionOK, Backed, Lasts

(* A word other than a restart.                                              *)
LEMMA BackedWord ==
  ASSUME TypeOK, Extends, NEW e \in UserEvents, said' = Append(said, e),
         NEW ops, NEW dir, NEW n \in Nat, n = Len(said)
  PROVE  Backed(ops, dir, n + 1)' <=>
           Speaks(ops, n + 1, dir)' \/ (Backed(ops, dir, n) /\ e # RemoveWs(dir))
<1>1. e # Restarted
  <2>1. e.kind # "restart" /\ Restarted.kind = "restart"
    BY EventFacts DEF Restarted
  <2>2. QED
    BY <2>1
<1>2. Backed(ops, dir, n + 1)' <=>
           \/ Speaks(ops, n + 1, dir)'
           \/ \E i \in 1 .. n : /\ Speaks(ops, i, dir) /\ Lasts(i, dir, n)
                                /\ e # RemoveWs(dir)
                                /\ e = Restarted => said[i].kind = "add"
  BY BackedNext
<1>3. QED
  BY <1>1, <1>2 DEF Backed

LEMMA SessionAdd ==
  ASSUME TypeOK, Extends, SessionOK, HandleAdd
  PROVE  SessionOK'
<1> DEFINE dir0 == Head(inbox).path
<1>1. inbox # << >> /\ Head(inbox).kind = "add" /\ said' = Append(said, Head(inbox))
  BY DEF HandleAdd, Take, Hear
<1>2. Head(inbox) \in UserEvents /\ Head(inbox) = AddWs(dir0)
  BY <1>1, HeadFacts, EventFacts
<1>3. session' = session \cup {dir0}
  BY DEF HandleAdd
<1> HIDE DEF dir0
<1>4. PICK n \in Nat : n = Len(said)
  BY SaidTypes
<1>5. n + 1 = Len(said')
  BY <1>1, <1>2, <1>4, Spoken
<1>6. ASSUME NEW ops, NEW dir
      PROVE  Backed(ops, dir, n + 1)' <=> dir = dir0 \/ Backed(ops, dir, n)
  <2>1. Backed(ops, dir, n + 1)' <=>
          Speaks(ops, n + 1, dir)' \/ (Backed(ops, dir, n) /\ Head(inbox) # RemoveWs(dir))
    BY <1>1, <1>2, <1>4, BackedWord
  <2>2. Speaks(ops, n + 1, dir)' <=> Head(inbox) = AddWs(dir)
    BY <1>1, <1>2, <1>4, AddSpeaks
  <2>3. QED
    BY <1>2, <2>1, <2>2, WordsDiffer
<1>7. QED
  BY <1>3, <1>4, <1>5, <1>6, SessionNext DEF SessionOK

LEMMA SessionRemove ==
  ASSUME TypeOK, Extends, SessionOK, HandleRemove
  PROVE  SessionOK'
<1> DEFINE dir0 == Head(inbox).path
<1>1. inbox # << >> /\ Head(inbox).kind = "remove" /\ said' = Append(said, Head(inbox))
  BY DEF HandleRemove, Take, Hear
<1>2. Head(inbox) \in UserEvents /\ Head(inbox) = RemoveWs(dir0)
  BY <1>1, HeadFacts, EventFacts
<1>3. session' = session \ {dir0}
  BY DEF HandleRemove
<1> HIDE DEF dir0
<1>4. PICK n \in Nat : n = Len(said)
  BY SaidTypes
<1>5. n + 1 = Len(said')
  BY <1>1, <1>2, <1>4, Spoken
<1>6. ASSUME NEW ops, NEW dir
      PROVE  Backed(ops, dir, n + 1)' <=> dir # dir0 /\ Backed(ops, dir, n)
  <2>1. Backed(ops, dir, n + 1)' <=>
          Speaks(ops, n + 1, dir)' \/ (Backed(ops, dir, n) /\ Head(inbox) # RemoveWs(dir))
    BY <1>1, <1>2, <1>4, BackedWord
  <2>2. Speaks(ops, n + 1, dir)' <=> Head(inbox) = AddWs(dir)
    BY <1>1, <1>2, <1>4, AddSpeaks
  <2>3. QED
    BY <1>2, <2>1, <2>2, WordsDiffer
<1>7. QED
  BY <1>3, <1>4, <1>5, <1>6, SessionNext DEF SessionOK

(* Of the session only the workspaces outlive the shell.                     *)
LEMMA SessionRestart ==
  ASSUME Base, Extends, SavedOK, Restart
  PROVE  SessionOK'
<1>1. said' = Append(said, Restarted) /\ session' = saved
  BY DEF Restart, NextRun, Hear
<1>2. TypeOK /\ Restarted.kind = "restart"
  BY DEF Base, Restarted
<1>3. PICK n \in Nat : n = Len(said)
  BY <1>2, SaidTypes
<1>4. n + 1 = Len(said') /\ DOMAIN said = 1 .. n
  BY <1>1, <1>2, <1>3, Spoken
<1>5. ASSUME NEW ops, NEW dir
      PROVE  Backed(ops, dir, n + 1)' <=>
               \E i \in 1 .. n : Speaks(ops, i, dir) /\ Lasts(i, dir, n) /\ said[i].kind = "add"
  <2>1. Backed(ops, dir, n + 1)' <=>
           \/ Speaks(ops, n + 1, dir)'
           \/ \E i \in 1 .. n : /\ Speaks(ops, i, dir) /\ Lasts(i, dir, n)
                                /\ Restarted # RemoveWs(dir)
                                /\ said[i].kind = "add"
    <3>1. PICK e \in UserEvents \cup {Restarted} : e = Restarted
      OBVIOUS
    <3>2. said' = Append(said, e)
      BY <1>1, <3>1
    <3>3. Backed(ops, dir, n + 1)' <=>
            \/ Speaks(ops, n + 1, dir)'
            \/ \E i \in 1 .. n : /\ Speaks(ops, i, dir) /\ Lasts(i, dir, n)
                                 /\ e # RemoveWs(dir)
                                 /\ e = Restarted => said[i].kind = "add"
      BY <1>2, <1>3, <3>1, <3>2, BackedNext
    <3>4. QED
      BY <3>1, <3>3
  <2>2. Speaks(ops, n + 1, dir)' <=> Restarted = AddWs(dir)
    BY <1>1, <1>2, <1>3, AddSpeaks
  <2>3. QED
    BY <2>1, <2>2, WordsDiffer
<1>6. ASSUME NEW dir, Standing(dir) PROVE Backed(Opening, dir, n + 1)'
  <2>1. PICK i \in 1 .. n : said[i] = AddWs(dir) /\ \A j \in i + 1 .. n : said[j] # RemoveWs(dir)
    BY <1>3, <1>4, <1>6 DEF Standing
  <2>2. said[i].kind = "add" /\ said[i].path = dir
    BY <2>1 DEF AddWs
  <2>3. Speaks(Opening, i, dir) /\ Lasts(i, dir, n)
    BY <2>1, <2>2 DEF Speaks, Lasts
  <2>4. QED
    BY <1>5, <2>2, <2>3
<1>7. ASSUME NEW ops, NEW dir, Backed(ops, dir, n + 1)' PROVE dir \in Paths /\ Standing(dir)
  <2>1. PICK i \in 1 .. n : Speaks(ops, i, dir) /\ Lasts(i, dir, n) /\ said[i].kind = "add"
    BY <1>5, <1>7
  <2>2. \A d : ~Allows(i, d)
    BY <2>1 DEF Allows, Answer
  <2>3. said[i] = AddWs(dir) /\ dir \in Paths
    <3>1. said[i].path = dir
      BY <2>1, <2>2 DEF Speaks
    <3>2. said[i] \in UserEvents
      <4>1. said[i] \in UserEvents \cup {Restarted}
        BY <1>2, <1>3, SaidTypes
      <4>2. QED
        BY <1>2, <2>1, <4>1
    <3>3. QED
      BY <2>1, <3>1, <3>2, EventFacts
  <2>4. QED
    BY <1>3, <1>4, <2>1, <2>3 DEF Standing, Lasts
<1>8. \A dir \in session' : Backed(Opening, dir, n + 1)'
  BY <1>1, <1>2, <1>6, LastWordStands DEF SavedOK
<1>9. \A dir : Backed(Creates \cup Externals, dir, n + 1)' => dir \in session'
  BY <1>1, <1>7 DEF SavedOK
<1>10. n + 1 \in Nat
  OBVIOUS
<1>11. QED
  BY <1>4, <1>8, <1>9, <1>10, SessionNext

LEMMA SessionRespond ==
  ASSUME Base, DialogsOK, Extends, SessionOK, HandleRespond
  PROVE  SessionOK'
<1>1. TypeOK
  BY DEF Base
<1>2. PICK d \in Dialogs, allow \in BOOLEAN :
         /\ Clicking(d) /\ said' = Append(said, Answer(d, allow)) /\ UNCHANGED asked
         /\ \/ /\ pending[d] # Null /\ allow = TRUE
               /\ \E done \in Outcomes(pending[d]) : Grant(pending[d].actor, Opened(pending[d], done))
            \/ (pending[d] = Null \/ allow = FALSE) /\ UNCHANGED grantVars
  BY <1>1, RespondFacts
<1>3. Answer(d, allow) \in UserEvents
  BY DEF Answer, UserEvents
<1>4. PICK n \in Nat : n = Len(said)
  BY <1>1, SaidTypes
<1>5. n + 1 = Len(said') /\ n + 1 \in Nat
  BY <1>1, <1>2, <1>3, <1>4, Spoken
<1>6. ASSUME NEW ops, NEW dir
      PROVE  Backed(ops, dir, n + 1)' <=> Says(d, allow, ops, dir) \/ Backed(ops, dir, n)
  <2>1. Backed(ops, dir, n + 1)' <=>
          Speaks(ops, n + 1, dir)' \/ (Backed(ops, dir, n) /\ Answer(d, allow) # RemoveWs(dir))
    BY <1>1, <1>2, <1>3, <1>4, BackedWord
  <2>2. Speaks(ops, n + 1, dir)' <=> Says(d, allow, ops, dir)
    <3>1. /\ said' = Append(said, Answer(d, allow)) /\ UNCHANGED asked
          /\ d \in Dialogs /\ allow \in BOOLEAN
      BY <1>2
    <3>2. QED
      BY <1>1, <1>4, <3>1, AnswerSpeaks
  <2>3. QED
    BY <2>1, <2>2, WordsDiffer
<1>7. pending[d] # Null <=> ~Heard(d)
  BY <1>2 DEF DialogsOK
<1>8. CASE pending[d] # Null /\ allow = TRUE
  <2>1. asked[d] = pending[d] /\ SoundOp(pending[d])
    BY <1>8 DEF Base, OpsOK
  <2>2. PICK done \in Outcomes(pending[d]) : Grant(pending[d].actor, Opened(pending[d], done))
    BY <1>2, <1>8
  <2>3. session' = session \cup Opened(pending[d], done)
    BY <2>2 DEF Grant
  <2>4. /\ \A dir \in Opened(pending[d], done) : Says(d, allow, Opening, dir)
        /\ \A dir : Says(d, allow, Creates \cup Externals, dir) => dir \in Opened(pending[d], done)
    BY <1>7, <1>8, <2>1, OpenedFacts DEF Says
  <2>5. QED
    BY <1>4, <1>5, <1>6, <2>3, <2>4, SessionNext DEF SessionOK
<1>9. CASE (pending[d] = Null \/ allow = FALSE) /\ UNCHANGED grantVars
  <2>1. \A ops, dir : ~Says(d, allow, ops, dir)
    BY <1>7, <1>9 DEF Says
  <2>2. session' = session
    BY <1>9 DEF grantVars
  <2>3. QED
    BY <1>4, <1>5, <1>6, <2>1, <2>2, SessionNext DEF SessionOK
<1>10. QED
  BY <1>2, <1>8, <1>9

LEMMA SessionStep ==
  Base /\ SavedOK /\ DialogsOK /\ SessionOK /\ [Next]_vars => SessionOK'
<1> SUFFICES ASSUME Base, SavedOK, DialogsOK, SessionOK, [Next]_vars PROVE SessionOK'
  OBVIOUS
<1>1. TypeOK /\ Extends
  BY ExtendsStep DEF Base
<1>2. \/ Sends \/ Tells \/ Refuses \/ Carries \/ Asks
      \/ HandleRespond \/ HandleAdd \/ HandleRemove \/ Restart
      \/ UNCHANGED vars
  BY <1>1, StepKinds
<1>3. CASE UNCHANGED <<said, session>>
  BY <1>1, <1>3, SessionSame
<1>4. QED
  BY <1>1, <1>2, <1>3, SessionRespond, SessionAdd, SessionRemove, SessionRestart
     DEF Sends, Tells, Refuses, Carries, Asks, Serving, grantVars, vars

-----------------------------------------------------------------------------
(* Trust and the granted directories.                                        *)

LEMMA OpenTrusted ==
  ASSUME SessionOK, NEW p, InGrantedDir(p)
  PROVE  Trusted(Opening, p, Len(said))
<1>1. PICK dir \in session : Below(p, dir)
  BY DEF InGrantedDir
<1>2. Backed(Opening, dir, Len(said))
  BY DEF SessionOK
<1>3. QED
  BY <1>1, <1>2, TrustedBacked

LEMMA TrustedOpen ==
  ASSUME SessionOK, NEW p, Trusted(Creates \cup Externals, p, Len(said))
  PROVE  InGrantedDir(p)
<1>1. PICK dir : Below(p, dir) /\ Backed(Creates \cup Externals, dir, Len(said))
  BY TrustedBacked
<1>2. dir \in session
  BY <1>1 DEF SessionOK
<1>3. QED
  BY <1>1, <1>2 DEF InGrantedDir

LEMMA BelowOpen ==
  ASSUME TypeOK, NEW p \in Seq(Component), NEW x \in Names, InGrantedDir(p)
  PROVE  InGrantedDir(Append(p, x))
<1>1. PICK dir \in session : Below(p, dir)
  BY DEF InGrantedDir
<1>2. dir \in Seq(Component)
  BY DEF TypeOK, Paths
<1>3. QED
  BY <1>1, <1>2, BelowChild DEF InGrantedDir

(* What is asked of a granted operation lies in granted directories.         *)
LEMMA GrantedOpens ==
  ASSUME TypeOK, NEW op, SoundOp(op), Granted(op)
  PROVE  op.method \in Opening /\ \A p \in Vetted(op) : InGrantedDir(p)
<1>1. op.method \in Methods
  BY OpFacts
<1>2. op.method \in Opening
  BY <1>1 DEF Granted, Judged, Opening, Methods, Commands, Creates, Externals
<1>3. CASE op.method \in {"save", "rename"}
  <2>1. Judged(op) = ParentOf(op.path) /\ ParentOf(op.path) \subseteq {Front(op.path)}
    BY <1>3 DEF Judged, Creates, Externals, ParentOf
  <2>2. InGrantedDir(Front(op.path))
    BY <2>1 DEF Granted
  <2>3. op.path \in FilePaths
    BY <1>3 DEF SoundOp
  <2>4. Front(op.path) \in Seq(Component) /\ InGrantedDir(op.path)
    BY <2>2, <2>3, FileFacts, BelowOpen
  <2>5. CASE op.method = "save"
    <3>1. op.to = Null /\ op.name = Null
      BY <2>5 DEF SoundOp, Creates
    <3>2. Vetted(op) \subseteq {op.path}
      BY <2>5, <3>1 DEF Vetted, Touched, Creates
    <3>3. QED
      BY <1>2, <2>4, <3>2
  <2>6. CASE op.method = "rename"
    <3>1. op.name \in FileNames /\ op.name # Null
      BY <2>6, TargetPath, Distinct
    <3>2. Target(op) = Join(Front(op.path), op.name)
      BY <2>6 DEF Target, Creates
    <3>3. Leaf(op.name) => InGrantedDir(Target(op))
      BY <2>2, <2>4, <3>1, <3>2, JoinFacts, BelowOpen
    <3>4. Vetted(op) = IF Leaf(op.name) THEN {op.path, Target(op)} ELSE {op.path}
      BY <2>6, <3>1 DEF Vetted, Touched, Creates
    <3>5. QED
      BY <1>2, <2>4, <3>3, <3>4
  <2>7. QED
    BY <1>3, <2>5, <2>6
<1>4. CASE op.method \in Creates
  <2>1. Judged(op) = {op.path}
    BY <1>4 DEF Judged, Creates, Externals
  <2>2. InGrantedDir(op.path)
    BY <2>1 DEF Granted
  <2>3. op.path \in Seq(Component)
    BY <1>4, FileFacts, PathFacts DEF SoundOp
  <2>4. op.name \in FileNames /\ op.name # Null
    BY <1>4, TargetPath, Distinct
  <2>5. Target(op) = Join(op.path, op.name)
    BY <1>4 DEF Target
  <2>6. Leaf(op.name) => InGrantedDir(Target(op))
    BY <2>2, <2>3, <2>4, <2>5, JoinFacts, BelowOpen
  <2>7. Vetted(op) = IF Leaf(op.name) THEN {Target(op)} ELSE {op.path}
    <3>1. Touched(op) = {Target(op)}
      BY <1>4 DEF Touched, Creates
    <3>2. QED
      BY <2>4, <3>1 DEF Vetted
  <2>8. QED
    BY <1>2, <2>2, <2>6, <2>7
<1>5. CASE op.method \in Externals
  <2>1. op.name = Null
    BY <1>5 DEF SoundOp, Creates, Externals
  <2>2. Vetted(op) = Judged(op)
    BY <1>5, <2>1 DEF Vetted, Touched, Judged, Creates, Externals
  <2>3. QED
    BY <1>2, <2>2 DEF Granted
<1>6. QED
  BY <1>2, <1>3, <1>4, <1>5 DEF Opening

-----------------------------------------------------------------------------
(* Consent.                                                                  *)

Evidence(e) ==
  e.op.actor \in Ais =>
    IF e.dialog # Null
    THEN e.at >= 1 /\ Allows(e.at, e.dialog) /\ asked[e.dialog] = e.op
    ELSE e.op.method \in Opening /\ \A p \in Vetted(e.op) : Trusted(Opening, p, e.at)

Consented == \A e \in effects : Evidence(e)

LEMMA EvidenceStable ==
  ASSUME TypeOK, Extends, Settled, NEW e \in effects, Evidence(e)
  PROVE  Evidence(e)'
<1>1. e \in Effects /\ e.at \in Nat /\ e.at <= Len(said) /\ e.op \in Operations
      /\ e.dialog \in Dialogs \cup {Null} /\ Len(said) \in Nat
  BY SaidTypes DEF TypeOK, Effects
<1>2. PICK n \in Nat : n = e.at
  BY <1>1
<1>3. ASSUME e.op.actor \in Ais, e.dialog # Null
      PROVE  e.at >= 1 /\ Allows(e.at, e.dialog)' /\ asked'[e.dialog] = e.op
  <2>1. n \in 1 .. Len(said) /\ Allows(n, e.dialog) /\ asked[e.dialog] = e.op
    BY <1>1, <1>2, <1>3 DEF Evidence
  <2>2. Allows(n, e.dialog)'
    BY <2>1, AllowsStable
  <2>3. asked'[e.dialog] = e.op
    BY <1>1, <1>3, <2>1, Distinct DEF Settled
  <2>4. QED
    BY <1>2, <2>1, <2>2, <2>3
<1>4. ASSUME e.op.actor \in Ais, e.dialog = Null
      PROVE  e.op.method \in Opening /\ \A p \in Vetted(e.op) : Trusted(Opening, p, e.at)'
  <2>1. e.op.method \in Opening /\ \A p \in Vetted(e.op) : Trusted(Opening, p, n)
    BY <1>2, <1>4 DEF Evidence
  <2>2. \A p \in Vetted(e.op) : Trusted(Opening, p, n)'
    BY <1>1, <1>2, <2>1, TrustedStable
  <2>3. QED
    BY <1>2, <2>1, <2>2
<1>5. QED
  BY <1>3, <1>4 DEF Evidence, Vetted, Leaf, Touched, Target, Join, Opening

LEMMA CarryEvidence ==
  ASSUME TypeOK, Extends, SessionOK, NEW op, SoundOp(op), Allowed(op), UNCHANGED said,
         NEW e, e = [op |-> op, dialog |-> Null, at |-> Len(said)]
  PROVE  Evidence(e)'
<1>1. e.op = op /\ e.dialog = Null /\ e.at = Len(said) /\ Len(said) \in Nat
  BY SaidTypes
<1>2. ASSUME op.actor \in Ais
      PROVE  op.method \in Opening /\ \A p \in Vetted(op) : Trusted(Opening, p, Len(said))
  <2>1. Granted(op)
    BY <1>2, Distinct DEF Allowed
  <2>2. QED
    BY <2>1, GrantedOpens, OpenTrusted
<1>3. PICK n \in Nat : n = Len(said)
  BY <1>1
<1>4. op.actor \in Ais => op.method \in Opening /\ \A p \in Vetted(op) : Trusted(Opening, p, n)'
  BY <1>1, <1>2, <1>3, TrustedStable
<1>5. QED
  BY <1>1, <1>3, <1>4 DEF Evidence, Vetted, Leaf, Touched, Target, Join, Opening

LEMMA AnswerEvidence ==
  ASSUME TypeOK, DialogsOK, NEW d \in Dialogs, pending[d] # Null, asked[d] = pending[d],
         said' = Append(said, Answer(d, TRUE)), UNCHANGED asked,
         NEW e, e = [op |-> pending[d], dialog |-> d, at |-> Len(said')]
  PROVE  Evidence(e)'
<1>1. PICK n \in Nat : n = Len(said)
  BY SaidTypes
<1>2. Answer(d, TRUE) \in UserEvents
  BY DEF Answer, UserEvents
<1>3. e.op = pending[d] /\ e.dialog = d /\ e.at = n + 1 /\ d # Null
  BY <1>1, <1>2, Spoken, Distinct
<1>4. PICK allow \in BOOLEAN : allow = TRUE
  OBVIOUS
<1>5. said' = Append(said, Answer(d, allow))
  BY <1>4
<1>6. ~Heard(d)
  BY DEF DialogsOK
<1>7. Allows(n + 1, d)'
  BY <1>1, <1>4, <1>5, <1>6, AnswerSpeaks
<1>8. PICK m \in Nat : m = n + 1
  BY <1>1
<1>9. Allows(m, d)' /\ e.at = m /\ m >= 1
  BY <1>3, <1>7, <1>8
<1>10. QED
  BY <1>3, <1>9 DEF Evidence

LEMMA ConsentedStep ==
  Base /\ DialogsOK /\ SessionOK /\ Consented /\ [Next]_vars => Consented'
<1> SUFFICES ASSUME Base, DialogsOK, SessionOK, Consented, [Next]_vars PROVE Consented'
  OBVIOUS
<1>1. TypeOK /\ Extends /\ Settled
  BY ExtendsStep DEF Base
<1>2. \/ Sends \/ Tells \/ Refuses \/ Carries \/ Asks
      \/ HandleRespond \/ HandleAdd \/ HandleRemove \/ Restart
      \/ UNCHANGED vars
  BY <1>1, StepKinds
<1>3. \A e \in effects : Evidence(e)'
  BY <1>1, EvidenceStable DEF Consented
<1>4. CASE UNCHANGED effects
  BY <1>3, <1>4 DEF Consented
<1>5. CASE Carries
  <2>1. PICK op : SoundOp(op) /\ Allowed(op) /\ CarryOut(op)
    BY <1>5 DEF Carries
  <2>2. UNCHANGED said
    BY <1>5 DEF Carries, Serving
  <2>3. effects' = effects \cup {[op |-> op, dialog |-> Null, at |-> Len(said)]}
    BY <2>1, <2>2 DEF CarryOut, Record
  <2>4. \A e : e = [op |-> op, dialog |-> Null, at |-> Len(said)] => Evidence(e)'
    BY <1>1, <2>1, <2>2, CarryEvidence
  <2>5. \A e \in effects' : Evidence(e)'
    BY <1>3, <2>3, <2>4
  <2>6. QED
    BY <2>5 DEF Consented
<1>6. CASE HandleRespond
  <2>1. PICK d \in Dialogs, allow \in BOOLEAN :
         /\ said' = Append(said, Answer(d, allow)) /\ UNCHANGED asked
         /\ \/ pending[d] # Null /\ allow = TRUE /\ Record(pending[d], d)
            \/ UNCHANGED effects
    BY <1>1, <1>6, RespondFacts
  <2>2. CASE pending[d] # Null /\ allow = TRUE /\ Record(pending[d], d)
    <3>1. asked[d] = pending[d]
      BY <2>2 DEF Base, OpsOK
    <3>2. said' = Append(said, Answer(d, TRUE))
      BY <2>1, <2>2
    <3>3. effects' = effects \cup {[op |-> pending[d], dialog |-> d, at |-> Len(said')]}
      BY <2>2 DEF Record
    <3>4. \A e : e = [op |-> pending[d], dialog |-> d, at |-> Len(said')] => Evidence(e)'
      BY <1>1, <2>1, <2>2, <3>1, <3>2, AnswerEvidence
    <3>5. \A e \in effects' : Evidence(e)'
      BY <1>3, <3>3, <3>4
    <3>6. QED
      BY <3>5 DEF Consented
  <2>3. QED
    BY <1>4, <2>1, <2>2
<1>7. QED
  BY <1>2, <1>4, <1>5, <1>6
     DEF Sends, Tells, Refuses, Refuse, Asks, Ask, HandleAdd, HandleRemove, Restart, NextRun, vars

(* The invariant behind both.                                                *)
ConsentInv == Base /\ SavedOK /\ DialogsOK /\ SessionOK

LEMMA ConsentInvInit == Init => ConsentInv
<1> SUFFICES ASSUME Init PROVE ConsentInv
  OBVIOUS
<1>1. SavedOK
  BY DEF Init, SavedOK, Standing
<1>2. DialogsOK
  BY DEF Init, DialogsOK, Heard, Clicking
<1>3. Len(said) = 0 /\ session = {}
  BY DEF Init
<1>4. \A ops, dir : ~Backed(ops, dir, Len(said))
  BY <1>3 DEF Backed
<1>5. QED
  BY <1>1, <1>2, <1>3, <1>4, InitBase DEF ConsentInv, SessionOK

LEMMA ConsentInvStep == ConsentInv /\ [Next]_vars => ConsentInv'
<1>1. ConsentInv => Base /\ SavedOK /\ DialogsOK /\ SessionOK
  BY DEF ConsentInv
<1>2. ConsentInv /\ [Next]_vars => Base' /\ SavedOK' /\ DialogsOK' /\ SessionOK'
  BY <1>1, BaseStep, SavedStep, DialogsStep, SessionStep
<1>3. QED
  BY <1>2 DEF ConsentInv

(* An operation of an AI is carried out because the user's first answer to   *)
(* the Dialog that asked for exactly this operation allowed it, or because   *)
(* every path it touches lies, once ".." is resolved, in a directory the     *)
(* user trusted at that moment (dialog_methods.rs, granted_dirs.rs).  Where  *)
(* a name is more than one component below its folder, that holds of the     *)
(* folder or the object renamed and not of the path the name makes, which    *)
(* the shell does not look at (fs_methods.rs:207, 234, 586).                 *)
THEOREM ConsentCorrect == Spec => []Consent
<1>1. Init => ConsentInv /\ Consented
  BY ConsentInvInit DEF Init, Consented
<1>2. ConsentInv /\ Consented /\ [Next]_vars => (ConsentInv /\ Consented)'
  BY ConsentInvStep, ConsentedStep, PTL DEF ConsentInv
<1>3. Consented => Consent
  BY DEF Consented, Evidence, Consent
<1>4. QED
  BY <1>1, <1>2, <1>3, PTL DEF Spec

Questioned(d) ==
  asked[d] # Null /\ asked[d].method \in Opening =>
    \/ Judged(asked[d]) = {}
    \/ \E p \in Judged(asked[d]) : ~Trusted(Creates \cup Externals, p, askedAt[d])

LEMMA QuestionAt ==
  ASSUME NEW d \in Dialogs, NEW op, NEW n, op = asked'[d], n = askedAt'[d],
         Judged(op) = {} \/ \E p \in Judged(op) : ~Trusted(Creates \cup Externals, p, n)'
  PROVE  Questioned(d)'
<1>1. Judged(op) = Judged(asked[d])'
  BY DEF Judged, ParentOf
<1>2. \A p : Trusted(Creates \cup Externals, p, n)' <=> Trusted(Creates \cup Externals, p, askedAt[d])'
  BY DEF Trusted
<1>3. QED
  BY <1>1, <1>2 DEF Questioned

LEMMA QuestionStep ==
  ConsentInv /\ NoSecondQuestion /\ [Next]_vars => NoSecondQuestion'
<1> SUFFICES ASSUME ConsentInv, NoSecondQuestion, [Next]_vars,
                    NEW d \in Dialogs, asked'[d] # Null, asked'[d].method \in Opening
             PROVE  Questioned(d)'
  BY DEF NoSecondQuestion, Questioned, Opening
<1>1. TypeOK /\ DialogTypes /\ Extends /\ Settled /\ SessionOK
  BY ExtendsStep, TypeParts DEF ConsentInv, Base
<1>2. CASE asked[d] # Null
  <2>1. asked'[d] = asked[d] /\ askedAt'[d] = askedAt[d]
    BY <1>1, <1>2 DEF Settled
  <2>2. PICK n \in Nat : n = askedAt[d] /\ n <= Len(said)
    BY <1>1 DEF TypeOK
  <2>3. \A p : Trusted(Creates \cup Externals, p, n)' <=> Trusted(Creates \cup Externals, p, n)
    BY <1>1, <2>2, TrustedStable
  <2>4. PICK op : op = asked[d]
    OBVIOUS
  <2>5. \/ Judged(op) = {}
        \/ \E p \in Judged(op) : ~Trusted(Creates \cup Externals, p, n)
    BY <1>2, <2>1, <2>2, <2>4 DEF NoSecondQuestion
  <2>6. QED
    BY <2>1, <2>2, <2>3, <2>4, <2>5, QuestionAt
<1>3. CASE asked[d] = Null
  <2>1. Asks
    BY <1>1, <1>3, StepKinds
       DEF Sends, Tells, Refuses, Refuse, Carries, CarryOut, dialogVars, vars,
           HandleRespond, HandleAdd, HandleRemove, Restart, NextRun
  <2>2. PICK op : SoundOp(op) /\ (op.method \in Opening => ~Allowed(op)) /\ Ask(op)
    BY <2>1 DEF Asks
  <2>3. asked'[d] = op /\ askedAt'[d] = Len(said)
    BY <1>1, <1>3, <2>2 DEF Ask, DialogTypes
  <2>4. ~Granted(op)
    BY <2>2, <2>3 DEF Allowed
  <2>5. Judged(op) = {} \/ \E p \in Judged(op) : ~Trusted(Creates \cup Externals, p, Len(said))
    BY <1>1, <2>4, TrustedOpen DEF Granted
  <2>6. PICK n \in Nat : n = Len(said)
    BY <1>1, SaidTypes
  <2>7. \A p : Trusted(Creates \cup Externals, p, n)' <=> Trusted(Creates \cup Externals, p, n)
    BY <1>1, <2>6, TrustedStable
  <2>8. Judged(op) = {} \/ \E p \in Judged(op) : ~Trusted(Creates \cup Externals, p, n)'
    BY <2>5, <2>6, <2>7
  <2>9. QED
    BY <2>3, <2>6, <2>8, QuestionAt
<1>4. QED
  BY <1>2, <1>3

(* A Dialog opens for what may be granted only when some directory it is     *)
(* about had not been trusted by then (granted_dirs.rs:3-4).                 *)
THEOREM QuestionCorrect == Spec => []NoSecondQuestion
<1>1. Init => ConsentInv /\ NoSecondQuestion
  BY ConsentInvInit DEF Init, NoSecondQuestion
<1>2. ConsentInv /\ NoSecondQuestion /\ [Next]_vars => (ConsentInv /\ NoSecondQuestion)'
  BY ConsentInvStep, QuestionStep, PTL
<1>3. QED
  BY <1>1, <1>2, PTL DEF Spec

=============================================================================
