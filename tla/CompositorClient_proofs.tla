----------------------- MODULE CompositorClient_proofs -----------------------
(***************************************************************************)
(* Proofs about CompositorClient, for any objects, types and states: the   *)
(* mirror is a tree whatever order parents and children come in, and a     *)
(* change the client was told of is the last one it shows.                 *)
(***************************************************************************)
EXTENDS CompositorClient, TLAPS

-----------------------------------------------------------------------------
(* Sequences.                                                                *)
LEMMA AppendFacts ==
  ASSUME NEW S, NEW seq \in Seq(S), NEW x \in S
  PROVE  /\ Append(seq, x) \in Seq(S)
         /\ Len(seq) \in Nat /\ DOMAIN seq = 1 .. Len(seq)
         /\ Len(Append(seq, x)) = Len(seq) + 1
         /\ DOMAIN Append(seq, x) = 1 .. Len(seq) + 1
         /\ Append(seq, x)[Len(seq) + 1] = x
         /\ \A i \in DOMAIN seq : /\ i \in DOMAIN Append(seq, x) /\ i # Len(seq) + 1
                                 /\ Append(seq, x)[i] = seq[i]
         /\ \A i \in DOMAIN Append(seq, x) : i = Len(seq) + 1 \/ i \in DOMAIN seq
OBVIOUS

LEMMA TailFacts ==
  ASSUME NEW S, NEW seq \in Seq(S), seq # << >>
  PROVE  /\ Tail(seq) \in Seq(S) /\ Head(seq) \in S /\ Head(seq) = seq[1]
         /\ Len(seq) \in Nat \ {0} /\ DOMAIN seq = 1 .. Len(seq) /\ 1 \in DOMAIN seq
         /\ Len(Tail(seq)) = Len(seq) - 1
         /\ DOMAIN Tail(seq) = 1 .. Len(seq) - 1
         /\ \A i \in DOMAIN Tail(seq) : i \in Nat /\ i + 1 \in DOMAIN seq /\ Tail(seq)[i] = seq[i + 1]
         /\ \A i \in DOMAIN seq : \/ i = 1
                                  \/ i > 1 /\ i - 1 \in DOMAIN Tail(seq) /\ seq[i] = Tail(seq)[i - 1]
OBVIOUS

-----------------------------------------------------------------------------
(* Subscriptions: what waits in one, and which of them hear of an event.     *)
Waiting(k) == IF queues[k] = Null THEN << >> ELSE queues[k]

Hears(k, event) ==
  \/ k = ById(event.id)
  \/ k = ByType(TypeOf[event.id]) /\ event.kind # "StateSet"

LEMMA KeysDiffer ==
  /\ \A o \in Objs : ById(o) \in SubKeys
  /\ \A t \in Types : ByType(t) \in SubKeys
  /\ \A o, p \in Objs : ById(o) = ById(p) => o = p
  /\ \A t, u \in Types : ByType(t) = ByType(u) => t = u
  /\ \A o \in Objs, t \in Types : ById(o) # ByType(t)
BY DEF ById, ByType, SubKeys

LEMMA PublishFacts ==
  ASSUME queues \in [SubKeys -> Seq(Events) \cup {Null}], NEW event \in Events, Publish(event)
  PROVE  /\ queues' \in [SubKeys -> Seq(Events) \cup {Null}]
         /\ \A k \in SubKeys : queues'[k] = Null <=> queues[k] = Null
         /\ \A k \in SubKeys : queues[k] # Null /\ Hears(k, event)
                                 => queues'[k] = Append(queues[k], event)
         /\ \A k \in SubKeys : ~Hears(k, event) => queues'[k] = queues[k]
<1>1. \A k \in SubKeys : queues[k] # Null => queues[k] \in Seq(Events)
  OBVIOUS
<1>2. \A k \in SubKeys : queues[k] # Null =>
        Append(queues[k], event) \in Seq(Events) /\ Append(queues[k], event) # Null
  BY <1>1, AppendFacts, NullAssumption
<1>3. \A k \in SubKeys : queues'[k] = IF queues[k] # Null /\ Hears(k, event)
                                      THEN Append(queues[k], event) ELSE queues[k]
  BY DEF Publish, Hears
<1>4. queues' \in [SubKeys -> Seq(Events) \cup {Null}]
  <2>1. DOMAIN queues' = SubKeys /\ queues' = [k \in SubKeys |-> queues'[k]]
    BY DEF Publish
  <2>2. \A k \in SubKeys : queues'[k] \in Seq(Events) \cup {Null}
    BY <1>2, <1>3
  <2>3. QED
    BY <2>1, <2>2
<1>5. QED
  BY <1>2, <1>3, <1>4

-----------------------------------------------------------------------------
(* The tree after an object is taken in.                                     *)
LEMMA UpsertFacts ==
  ASSUME mirror \in [Objs -> Bodies \cup {Null}], roots \subseteq Objs, orphans \in [Objs -> SUBSET Objs],
         NEW o \in Objs, NEW obj \in Bodies, Upsert(o, obj)
  PROVE  /\ mirror' \in [Objs -> Bodies \cup {Null}]
         /\ roots' \subseteq Objs /\ orphans' \in [Objs -> SUBSET Objs]
         /\ mirror'[o] # Null /\ orphans[o] \subseteq mirror'[o].kids
         /\ \A x \in Objs \ {o} : mirror'[x] = Null <=> mirror[x] = Null
         /\ \A x \in Objs \ {o} : mirror[x] # Null =>
              mirror'[x].val = mirror[x].val /\ mirror[x].kids \subseteq mirror'[x].kids
         /\ roots \subseteq roots' /\ (ParentOf[o] = Null => o \in roots')
         /\ ParentOf[o] # Null => IF mirror'[ParentOf[o]] = Null THEN o \in orphans'[ParentOf[o]]
                                  ELSE o \in mirror'[ParentOf[o]].kids
         /\ \A q \in Objs \ {o} : orphans[q] \subseteq orphans'[q]
<1> DEFINE filled == [obj EXCEPT !.kids = @ \cup orphans[o]]
           kept   == [mirror EXCEPT ![o] = filled]
           p      == ParentOf[o]
           up_    == p # Null /\ kept[p] # Null
<1>1. /\ p \in Objs \cup {Null} /\ p # o
      /\ p # Null => p \in Objs
  BY TreeAssumption
<1>2. filled \in Bodies /\ filled # Null /\ filled.kids = obj.kids \cup orphans[o]
  BY NullAssumption DEF Bodies
<1>3. /\ kept \in [Objs -> Bodies \cup {Null}] /\ kept[o] = filled
      /\ \A x \in Objs \ {o} : kept[x] = mirror[x]
  BY <1>2
<1>4. /\ mirror' = IF up_ THEN [kept EXCEPT ![p].kids = @ \cup {o}] ELSE kept
      /\ roots' = IF p = Null THEN roots \cup {o} ELSE roots
      /\ orphans' = [q \in Objs |-> IF q = o THEN {}
                                    ELSE IF q = p /\ ~up_ THEN orphans[q] \cup {o}
                                    ELSE orphans[q]]
  BY DEF Upsert
<1> HIDE DEF filled, kept
<1>5. roots' \subseteq Objs /\ roots \subseteq roots' /\ (p = Null => o \in roots')
  BY <1>4
<1>6. /\ orphans' \in [Objs -> SUBSET Objs]
      /\ \A q \in Objs \ {o} : orphans[q] \subseteq orphans'[q]
      /\ p # Null /\ ~up_ => o \in orphans'[p]
  BY <1>1, <1>4
<1>7. CASE up_
  <2>1. p \in Objs \ {o} /\ kept[p] \in Bodies /\ p # Null
    BY <1>1, <1>3, <1>7
  <2> DEFINE grown == [kept[p] EXCEPT !.kids = @ \cup {o}]
  <2>2. /\ grown \in Bodies /\ grown # Null
        /\ grown.val = kept[p].val /\ grown.kids = kept[p].kids \cup {o}
    BY <2>1, NullAssumption DEF Bodies
  <2>3. mirror' = [kept EXCEPT ![p] = grown]
    BY <1>4, <1>7
  <2> HIDE DEF grown
  <2>4. /\ mirror' \in [Objs -> Bodies \cup {Null}] /\ mirror'[p] = grown
        /\ \A x \in Objs \ {p} : mirror'[x] = kept[x]
    BY <1>3, <2>1, <2>2, <2>3
  <2>5. mirror'[o] # Null /\ orphans[o] \subseteq mirror'[o].kids
    BY <1>2, <1>3, <2>1, <2>4
  <2>6. \A x \in Objs \ {o} : mirror'[x] = Null <=> mirror[x] = Null
    BY <1>3, <1>7, <2>1, <2>2, <2>4
  <2>7. \A x \in Objs \ {o} : mirror[x] # Null =>
          mirror'[x].val = mirror[x].val /\ mirror[x].kids \subseteq mirror'[x].kids
    BY <1>3, <2>1, <2>2, <2>4
  <2>8. mirror'[p] # Null /\ o \in mirror'[p].kids
    BY <2>2, <2>4
  <2>9. QED
    BY <1>5, <1>6, <2>4, <2>5, <2>6, <2>7, <2>8
<1>8. CASE ~up_
  <2>1. mirror' = kept
    BY <1>4, <1>8
  <2>2. p # Null => mirror'[p] = Null /\ o \in orphans'[p]
    BY <1>6, <1>8, <2>1
  <2>3. QED
    BY <1>2, <1>3, <1>5, <1>6, <2>1, <2>2
<1>9. QED
  BY <1>7, <1>8

LEMMA RemoveFacts ==
  ASSUME mirror \in [Objs -> Bodies \cup {Null}], roots \subseteq Objs, orphans \in [Objs -> SUBSET Objs],
         NEW o \in Objs, Remove(o)
  PROVE  /\ mirror' \in [Objs -> Bodies \cup {Null}]
         /\ roots' = roots \ {o} /\ orphans' = orphans
         /\ mirror'[o] = Null /\ \A x \in Objs \ {o} : mirror'[x] = mirror[x]
BY DEF Remove

LEMMA SetFacts ==
  ASSUME mirror \in [Objs -> Bodies \cup {Null}], roots \subseteq Objs, orphans \in [Objs -> SUBSET Objs],
         NEW o \in Objs, NEW v \in Vals, SetInMirror(o, v)
  PROVE  /\ mirror' \in [Objs -> Bodies \cup {Null}]
         /\ roots' = roots /\ orphans' = orphans
         /\ mirror'[o] # Null => mirror'[o].val = v
         /\ \A x \in Objs \ {o} : mirror'[x] = mirror[x]
         /\ \A x \in Objs : mirror'[x] = Null <=> mirror[x] = Null
         /\ \A x \in Objs : mirror[x] # Null => mirror'[x].kids = mirror[x].kids
<1>1. CASE mirror[o] = Null
  BY <1>1 DEF SetInMirror
<1>2. CASE mirror[o] # Null
  <2> DEFINE new == [mirror[o] EXCEPT !.val = v]
  <2>1. mirror[o] \in Bodies
    BY <1>2
  <2>2. new \in Bodies /\ new # Null /\ new.val = v /\ new.kids = mirror[o].kids
    BY <2>1, NullAssumption DEF Bodies
  <2>3. mirror' = [mirror EXCEPT ![o] = new] /\ UNCHANGED <<roots, orphans>>
    BY <1>2 DEF SetInMirror
  <2> HIDE DEF new
  <2>4. QED
    BY <1>2, <2>2, <2>3
<1>3. QED
  BY <1>1, <1>2

-----------------------------------------------------------------------------
(* Types, and what each stage still has to ask for.                          *)
Typed ==
  /\ TypeOK
  /\ stage \in {"query", "watch types"} => todo \subseteq Types
  /\ stage \in {"get", "watch"} => todo \subseteq ids

LEMMA TypedInit == Init => Typed
<1> SUFFICES ASSUME Init PROVE Typed
  OBVIOUS
<1>1. /\ << >> \in Seq(Events) /\ << >> \in Seq(Requests) /\ << >> \in Seq(Frames) /\ Len(<< >>) = 0
  OBVIOUS
<1>2. MaxSets \in Nat
  BY TreeAssumption
<1>3. /\ life \in [Objs -> {"absent", "live", "gone"}]
      /\ value \in [Objs -> Vals \cup {Birth}] /\ listed \in [Objs -> SUBSET Objs]
      /\ queues \in [SubKeys -> Seq(Events) \cup {Null}]
      /\ mirror \in [Objs -> Bodies \cup {Null}] /\ orphans \in [Objs -> SUBSET Objs]
  BY DEF Init
<1>4. /\ batch \in Seq(Events) /\ up \in Seq(Requests) /\ reply = Null /\ down \in Seq(Frames)
      /\ held \in 0 .. Len(down)
  BY <1>1 DEF Init
<1>5. waiting \in BOOLEAN
  BY DEF Init
<1>6. /\ stage \in Stages /\ ids = {} /\ pending = {} /\ roots = {}
      /\ sets \in 0 .. MaxSets /\ announced = {} /\ seen = {} /\ stage = "query" /\ todo = Types
  BY <1>2 DEF Init, Stages
<1>7. QED
  BY <1>3, <1>4, <1>5, <1>6 DEF Typed, TypeOK

LEMMA EventTypes ==
  /\ \A o \in Objs : Lifecycle("Created", o) \in Events /\ Lifecycle("Destroyed", o) \in Events
  /\ \A o \in Objs, v \in Vals : Changed(o, v) \in Events
  /\ \A e \in Events : /\ e.id \in Objs /\ e.kind \in {"Created", "Destroyed", "StateSet"}
                       /\ e.kind = "StateSet" => e.val \in Vals
  /\ \A e \in Events : Frame("Event", e.id, e) \in Frames
BY DEF Events, Lifecycle, Changed, Frame, Frames

LEMMA FrameTypes ==
  /\ Answers \subseteq Frames
  /\ \A f \in Frames : f.kind \in {"QueryResult", "GetResult", "SubscribeAck", "Event"}
  /\ \A f \in Answers : f.kind # "Event"
  /\ \A f \in Frames : /\ f.kind = "QueryResult" => f.body \subseteq Objs
                       /\ f.kind = "GetResult" => f.of \in Objs /\ f.body \in Bodies
                       /\ f.kind = "Event" => f.of \in Objs /\ f.body \in Events
BY DEF Frames, Answers

LEMMA RequestTypes ==
  /\ \A t \in Types : Ask("Query", t) \in Requests
  /\ \A o \in Objs : Ask("Get", o) \in Requests
  /\ \A k \in SubKeys : Ask("Subscribe", k) \in Requests
  /\ \A r \in Requests : /\ r.kind \in {"Query", "Get", "Subscribe"}
                         /\ r.kind = "Query" => r.of \in Types
                         /\ r.kind = "Get" => r.of \in Objs
                         /\ r.kind = "Subscribe" => r.of \in SubKeys
BY DEF Requests, Ask

(* The answer to each request.                                               *)
LEMMA AnswerFacts ==
  ASSUME TypeOK, NEW r \in Requests
  PROVE  /\ Answer(r) \in Answers /\ Answer(r) # Null /\ Answer(r).of = r.of
         /\ r.kind = "Query" => /\ Answer(r).kind = "QueryResult"
                                /\ \A o \in Answer(r).body : life[o] = "live"
         /\ r.kind = "Get" => Answer(r).kind = "GetResult"
         /\ r.kind = "Subscribe" => Answer(r).kind = "SubscribeAck"
<1>1. CASE r.kind = "Query"
  <2> DEFINE found == {o \in Objs : TypeOf[o] = r.of /\ life[o] = "live"}
  <2>1. Answer(r) = Frame("QueryResult", r.of, found)
    BY <1>1 DEF Answer
  <2>2. found \in SUBSET Objs /\ r.of \in Types /\ \A o \in found : life[o] = "live"
    BY <1>1, RequestTypes
  <2> HIDE DEF found
  <2>3. Frame("QueryResult", r.of, found) \in Answers
    BY <2>2 DEF Frame, Answers
  <2>4. QED
    BY <1>1, <2>1, <2>2, <2>3, NullAssumption DEF Frame
<1>2. CASE r.kind = "Get"
  <2> DEFINE obj == [val |-> value[r.of], kids |-> listed[r.of]]
  <2>1. Answer(r) = Frame("GetResult", r.of, obj)
    BY <1>2 DEF Answer
  <2>2. r.of \in Objs
    BY <1>2, RequestTypes
  <2>3. obj \in Bodies
    BY <2>2 DEF TypeOK, Bodies
  <2> HIDE DEF obj
  <2>4. Frame("GetResult", r.of, obj) \in Answers
    BY <2>2, <2>3 DEF Frame, Answers
  <2>5. QED
    BY <1>2, <2>1, <2>4, NullAssumption DEF Frame
<1>3. CASE r.kind = "Subscribe"
  <2>1. Answer(r) = Frame("SubscribeAck", r.of, Null)
    BY <1>3 DEF Answer
  <2>2. Frame("SubscribeAck", r.of, Null) \in Answers
    BY <1>3, RequestTypes DEF Frame, Answers
  <2>3. QED
    BY <1>3, <2>1, <2>2, NullAssumption DEF Frame
<1>4. QED
  BY <1>1, <1>2, <1>3, RequestTypes

(* What the client asks next.                                                *)
LEMMA AskFacts ==
  ASSUME Typed, AskNext
  PROVE  \E x \in todo :
           /\ todo' = todo \ {x}
           /\ \/ stage = "query" /\ x \in Types /\ up' = Append(up, Ask("Query", x))
              \/ stage = "get" /\ x \in ids /\ up' = Append(up, Ask("Get", x))
              \/ stage = "watch" /\ x \in ids /\ up' = Append(up, Ask("Subscribe", ById(x)))
              \/ stage = "watch types" /\ x \in Types /\ up' = Append(up, Ask("Subscribe", ByType(x)))
           /\ up' \in Seq(Requests)
<1>1. PICK x \in todo :
        /\ todo' = todo \ {x}
        /\ up' = Append(up, CASE stage = "query"       -> Ask("Query", x)
                              [] stage = "get"         -> Ask("Get", x)
                              [] stage = "watch"       -> Ask("Subscribe", ById(x))
                              [] stage = "watch types" -> Ask("Subscribe", ByType(x)))
  BY DEF AskNext
<1>2. up \in Seq(Requests) /\ ids \subseteq Objs
  BY DEF Typed, TypeOK
<1>3. CASE stage = "query"
  <2>1. x \in Types /\ up' = Append(up, Ask("Query", x))
    BY <1>1, <1>3 DEF Typed
  <2>2. up' \in Seq(Requests)
    BY <1>2, <2>1, AppendFacts, RequestTypes
  <2>3. QED
    BY <1>1, <1>3, <2>1, <2>2
<1>4. CASE stage = "get"
  <2>1. x \in ids /\ up' = Append(up, Ask("Get", x))
    BY <1>1, <1>4 DEF Typed
  <2>2. up' \in Seq(Requests)
    BY <1>2, <2>1, AppendFacts, RequestTypes
  <2>3. QED
    BY <1>1, <1>4, <2>1, <2>2
<1>5. CASE stage = "watch"
  <2>1. x \in ids /\ up' = Append(up, Ask("Subscribe", ById(x)))
    BY <1>1, <1>5 DEF Typed
  <2>2. up' \in Seq(Requests)
    BY <1>2, <2>1, AppendFacts, RequestTypes, KeysDiffer
  <2>3. QED
    BY <1>1, <1>5, <2>1, <2>2
<1>6. CASE stage = "watch types"
  <2>1. x \in Types /\ up' = Append(up, Ask("Subscribe", ByType(x)))
    BY <1>1, <1>6 DEF Typed
  <2>2. up' \in Seq(Requests)
    BY <1>2, <2>1, AppendFacts, RequestTypes, KeysDiffer
  <2>3. QED
    BY <1>1, <1>6, <2>1, <2>2
<1>7. QED
  BY <1>3, <1>4, <1>5, <1>6 DEF AskNext

ServerTypes ==
  /\ life \in [Objs -> {"absent", "live", "gone"}]
  /\ value \in [Objs -> Vals \cup {Birth}] /\ listed \in [Objs -> SUBSET Objs]
  /\ sets \in 0 .. MaxSets /\ announced \subseteq Objs /\ seen \subseteq Objs
LinkTypes ==
  /\ queues \in [SubKeys -> Seq(Events) \cup {Null}] /\ batch \in Seq(Events)
  /\ up \in Seq(Requests) /\ reply \in Answers \cup {Null} /\ down \in Seq(Frames)
  /\ held \in 0 .. Len(down)
StageTypes ==
  /\ stage \in Stages /\ waiting \in BOOLEAN /\ ids \subseteq Objs /\ pending \subseteq Objs
  /\ stage \in {"query", "watch types"} => todo \subseteq Types
  /\ stage \in {"get", "watch"} => todo \subseteq ids
TreeTypes ==
  /\ mirror \in [Objs -> Bodies \cup {Null}]
  /\ roots \subseteq Objs /\ orphans \in [Objs -> SUBSET Objs]

LEMMA TypedParts == Typed <=> ServerTypes /\ LinkTypes /\ StageTypes /\ TreeTypes
BY DEF Typed, TypeOK, ServerTypes, LinkTypes, StageTypes, TreeTypes

LEMMA TypedPartsNext == Typed' <=> ServerTypes' /\ LinkTypes' /\ StageTypes' /\ TreeTypes'
BY TypedParts, PTL

(* What a step of the server's other clients does to the types.              *)
LEMMA OthersTypes ==
  ASSUME Typed, NEW o \in Objs, Mount(o) \/ Destroy(o) \/ \E v \in Vals : SetState(o, v)
  PROVE  Typed'
<1>1. ServerTypes /\ LinkTypes /\ StageTypes /\ TreeTypes
  BY TypedParts
<1>2. UNCHANGED <<batch, up, reply, down, clientVars>>
  BY DEF Mount, Destroy, SetState
<1>3. StageTypes' /\ TreeTypes'
  BY <1>1, <1>2 DEF StageTypes, TreeTypes, clientVars, treeVars
<1>4. queues' \in [SubKeys -> Seq(Events) \cup {Null}]
  <2>1. \E e \in Events : Publish(e)
    BY EventTypes DEF Mount, Destroy, SetState
  <2>2. QED
    BY <1>1, <2>1, PublishFacts DEF LinkTypes
<1>5. LinkTypes'
  BY <1>1, <1>2, <1>4 DEF LinkTypes, clientVars
<1>6. CASE Mount(o)
  <2>1. life' = [life EXCEPT ![o] = "live"] /\ UNCHANGED <<value, sets, seen>>
    BY <1>6 DEF Mount
  <2>2. announced' \subseteq Objs
    BY <1>1, <1>6 DEF Mount, ServerTypes
  <2>3. listed' \in [Objs -> SUBSET Objs]
    BY <1>1, <1>6 DEF Mount, ServerTypes
  <2>4. ServerTypes'
    BY <1>1, <2>1, <2>2, <2>3 DEF ServerTypes
  <2>5. QED
    BY <1>3, <1>5, <2>4, TypedPartsNext
<1>7. CASE Destroy(o)
  <2>1. ServerTypes'
    BY <1>1, <1>7 DEF Destroy, ServerTypes
  <2>2. QED
    BY <1>3, <1>5, <2>1, TypedPartsNext
<1>8. CASE \E v \in Vals : SetState(o, v)
  <2>1. PICK v \in Vals : SetState(o, v)
    BY <1>8
  <2>2. UNCHANGED <<life, listed, announced>> /\ value' = [value EXCEPT ![o] = v]
    BY <2>1 DEF SetState
  <2>3. seen' \subseteq Objs
    BY <1>1, <2>1 DEF SetState, ServerTypes
  <2>4. sets' \in 0 .. MaxSets
    BY <1>1, <2>1, TreeAssumption DEF SetState, ServerTypes
  <2>5. ServerTypes'
    BY <1>1, <2>2, <2>3, <2>4 DEF ServerTypes
  <2>6. QED
    BY <1>3, <1>5, <2>5, TypedPartsNext
<1>9. QED
  BY <1>6, <1>7, <1>8

(* Steps of the connection: they change nothing but the link.                *)
LEMMA LinkSteps ==
  ASSUME Typed, ServerStep \/ PushStep
  PROVE  Typed'
<1>1. ServerTypes /\ LinkTypes /\ StageTypes /\ TreeTypes
  BY TypedParts
<1>2. UNCHANGED <<serverVars, clientVars>>
  BY DEF ServerStep, PushStep, TakeRequest, WriteReply, WriteEvent, DrainOne
<1>3. ServerTypes' /\ StageTypes' /\ TreeTypes'
  BY <1>1, <1>2 DEF ServerTypes, StageTypes, TreeTypes, serverVars, clientVars, treeVars
<1>4. held' = held
  BY <1>2 DEF clientVars
<1>5. /\ up \in Seq(Requests) /\ down \in Seq(Frames) /\ batch \in Seq(Events)
      /\ queues \in [SubKeys -> Seq(Events) \cup {Null}] /\ reply \in Answers \cup {Null}
  BY <1>1 DEF LinkTypes
<1>6. held' \in 0 .. Len(down)
  BY <1>1, <1>4 DEF LinkTypes
<1>7. CASE TakeRequest
  <2>1. /\ up # << >> /\ reply' = Answer(Head(up)) /\ up' = Tail(up) /\ UNCHANGED <<batch, down>>
        /\ queues' = IF Head(up).kind = "Subscribe"
                     THEN [queues EXCEPT ![Head(up).of] = << >>] ELSE queues
    BY <1>7 DEF TakeRequest
  <2>2. Head(up) \in Requests /\ up' \in Seq(Requests)
    BY <1>5, <2>1, TailFacts
  <2>3. reply' \in Answers
    <3>1. TypeOK
      BY DEF Typed
    <3>2. QED
      BY <2>1, <2>2, <3>1, AnswerFacts
  <2>4. queues' \in [SubKeys -> Seq(Events) \cup {Null}]
    <3>1. << >> \in Seq(Events)
      OBVIOUS
    <3>2. QED
      BY <1>5, <2>1, <2>2, <3>1, RequestTypes
  <2>5. LinkTypes'
    BY <1>5, <1>6, <2>1, <2>2, <2>3, <2>4 DEF LinkTypes
  <2>6. QED
    BY <1>3, <2>5, TypedPartsNext
<1>8. ASSUME NEW f \in Frames, down' = Append(down, f)
      PROVE  down' \in Seq(Frames) /\ held' \in 0 .. Len(down')
  <2>1. down' \in Seq(Frames) /\ Len(down') = Len(down) + 1 /\ Len(down) \in Nat
    BY <1>5, <1>8, AppendFacts
  <2>2. QED
    BY <1>6, <2>1
<1>9. CASE WriteReply
  <2>1. /\ reply # Null /\ down' = Append(down, reply) /\ reply' = Null
        /\ UNCHANGED <<queues, batch, up>>
    BY <1>9 DEF WriteReply
  <2>2. down' \in Seq(Frames) /\ held' \in 0 .. Len(down')
    BY <1>5, <1>8, <2>1, FrameTypes
  <2>3. LinkTypes'
    BY <1>5, <2>1, <2>2 DEF LinkTypes
  <2>4. QED
    BY <1>3, <2>3, TypedPartsNext
<1>10. CASE WriteEvent
  <2>1. /\ batch # << >> /\ down' = Append(down, Frame("Event", Head(batch).id, Head(batch)))
        /\ batch' = Tail(batch) /\ UNCHANGED <<queues, up, reply>>
    BY <1>10 DEF WriteEvent
  <2>2. Head(batch) \in Events /\ batch' \in Seq(Events)
    BY <1>5, <2>1, TailFacts
  <2>3. down' \in Seq(Frames) /\ held' \in 0 .. Len(down')
    BY <1>8, <2>1, <2>2, EventTypes
  <2>4. LinkTypes'
    BY <1>5, <2>1, <2>2, <2>3 DEF LinkTypes
  <2>5. QED
    BY <1>3, <2>4, TypedPartsNext
<1>11. CASE \E k \in SubKeys : DrainOne(k)
  <2>1. PICK k \in SubKeys : DrainOne(k)
    BY <1>11
  <2>2. /\ queues[k] # Null /\ batch' = queues[k] /\ queues' = [queues EXCEPT ![k] = << >>]
        /\ UNCHANGED <<up, reply, down>>
    BY <2>1 DEF DrainOne
  <2>3. batch' \in Seq(Events) /\ << >> \in Seq(Events)
    BY <1>5, <2>2
  <2>4. LinkTypes'
    BY <1>5, <1>6, <2>2, <2>3 DEF LinkTypes
  <2>5. QED
    BY <1>3, <2>4, TypedPartsNext
<1>12. QED
  BY <1>7, <1>9, <1>10, <1>11 DEF ServerStep, PushStep

(* A step that takes a frame.                                                *)
TakesFrame == ReadFrame \/ HandleCreated \/ HandleDestroyed \/ HandleStateSet \/ HandleGetResult \/ HandleOther

LEMMA FrameTaken ==
  ASSUME Typed, TakesFrame
  PROVE  /\ down # << >> /\ down' = Tail(down)
         /\ Head(down) \in Frames /\ down' \in Seq(Frames) /\ held' \in 0 .. Len(down')
         /\ UNCHANGED <<serverVars, queues, batch, reply, todo>>
<1>1. down \in Seq(Frames) /\ held \in 0 .. Len(down)
  BY DEF Typed, TypeOK
<1>2. UNCHANGED <<serverVars, queues, batch, reply, todo>>
  BY DEF TakesFrame, ReadFrame, HandleCreated, HandleDestroyed, HandleStateSet, HandleGetResult,
         HandleOther, Handle
<1>3. CASE ReadFrame
  <2>1. /\ down # << >> /\ down' = Tail(down)
        /\ IF held > 0 THEN held' = held - 1 ELSE held' \in 0 .. Len(down) - 1
    BY <1>3 DEF ReadFrame, TakeFrame
  <2>2. /\ Head(down) \in Frames /\ down' \in Seq(Frames) /\ Len(down') = Len(down) - 1
        /\ Len(down) \in Nat \ {0}
    BY <1>1, <2>1, TailFacts
  <2>3. held' \in 0 .. Len(down')
    BY <1>1, <2>1, <2>2
  <2>4. QED
    BY <1>2, <2>1, <2>2, <2>3
<1>4. CASE ~ReadFrame
  <2>1. Len(down) > held /\ down' = Tail(down) /\ held' = 0
    BY <1>4 DEF TakesFrame, HandleCreated, HandleDestroyed, HandleStateSet, HandleGetResult,
                HandleOther, Handle, Decode
  <2>2. down # << >>
    <3>1. Len(<< >>) = 0
      OBVIOUS
    <3>2. QED
      BY <1>1, <2>1, <3>1
  <2>3. /\ Head(down) \in Frames /\ down' \in Seq(Frames) /\ Len(down') = Len(down) - 1
        /\ Len(down) \in Nat \ {0}
    BY <1>1, <2>1, <2>2, TailFacts
  <2>4. QED
    BY <1>2, <2>1, <2>2, <2>3
<1>5. QED
  BY <1>3, <1>4

(* What each of these steps does with the frame, besides.                    *)
LEMMA ReadCases ==
  ASSUME Typed, ReadFrame
  PROVE  /\ waiting /\ waiting' = FALSE /\ UNCHANGED <<up, pending>>
         /\ \/ /\ stage = "query" /\ Head(down).kind = "QueryResult"
               /\ ids' = ids \cup Head(down).body /\ UNCHANGED <<stage, treeVars>>
            \/ /\ stage = "get" /\ Head(down).kind = "GetResult"
               /\ Upsert(Head(down).of, Head(down).body) /\ UNCHANGED <<stage, ids>>
            \/ stage \in {"watch", "watch types"} /\ UNCHANGED <<stage, ids, treeVars>>
            \/ /\ stage = "query" => Head(down).kind # "QueryResult"
               /\ stage = "get" => Head(down).kind # "GetResult"
               /\ stage \notin {"watch", "watch types"}
               /\ stage' = "dead" /\ UNCHANGED <<ids, treeVars>>
BY DEF ReadFrame, TakeFrame

LEMMA HandleCases ==
  ASSUME Typed, TakesFrame, ~ReadFrame
  PROVE  /\ stage = "loop" /\ UNCHANGED <<stage, waiting, ids>>
         /\ \/ /\ Head(down).kind = "Event" /\ Head(down).body.kind = "Created"
               /\ up' = Append(up, Ask("Get", Head(down).of))
               /\ pending' = pending \cup {Head(down).of} /\ UNCHANGED treeVars
            \/ /\ Head(down).kind = "Event" /\ Head(down).body.kind = "Destroyed"
               /\ Remove(Head(down).of) /\ UNCHANGED <<up, pending>>
            \/ /\ Head(down).kind = "Event" /\ Head(down).body.kind = "StateSet"
               /\ SetInMirror(Head(down).of, Head(down).body.val) /\ UNCHANGED <<up, pending>>
            \/ /\ Head(down).kind = "GetResult" /\ Head(down).of \in pending
               /\ pending' = pending \ {Head(down).of}
               /\ Upsert(Head(down).of, Head(down).body)
               /\ up' = Append(up, Ask("Subscribe", ById(Head(down).of)))
            \/ /\ Head(down).kind = "GetResult" /\ UNCHANGED <<pending, treeVars, up>>
            \/ /\ Head(down).kind \notin {"Event", "GetResult"}
               /\ UNCHANGED <<pending, treeVars, up>>
BY DEF TakesFrame, HandleCreated, HandleDestroyed, HandleStateSet, HandleGetResult, HandleOther,
       Handle, Decode

LEMMA FrameTypesKept ==
  ASSUME Typed, TakesFrame
  PROVE  Typed'
<1>1. ServerTypes /\ LinkTypes /\ StageTypes /\ TreeTypes
  BY TypedParts
<1>2. /\ down' = Tail(down) /\ Head(down) \in Frames /\ down' \in Seq(Frames) /\ held' \in 0 .. Len(down')
      /\ UNCHANGED <<serverVars, queues, batch, reply, todo>>
  BY FrameTaken
<1>3. ServerTypes'
  BY <1>1, <1>2 DEF ServerTypes, serverVars
<1>4. ASSUME up' \in Seq(Requests) PROVE LinkTypes'
  BY <1>1, <1>2, <1>4 DEF LinkTypes
<1>5. mirror \in [Objs -> Bodies \cup {Null}] /\ roots \subseteq Objs /\ orphans \in [Objs -> SUBSET Objs]
  BY <1>1 DEF TreeTypes
<1>6. ASSUME UNCHANGED treeVars PROVE TreeTypes'
  BY <1>1, <1>6 DEF TreeTypes, treeVars
<1>7. ASSUME Head(down).kind = "GetResult", Upsert(Head(down).of, Head(down).body) PROVE TreeTypes'
  <2>1. PICK o \in Objs : o = Head(down).of
    BY <1>2, <1>7, FrameTypes
  <2>2. PICK obj \in Bodies : obj = Head(down).body
    BY <1>2, <1>7, FrameTypes
  <2>3. Upsert(o, obj)
    BY <1>7, <2>1, <2>2
  <2>4. QED
    BY <1>5, <2>3, UpsertFacts DEF TreeTypes
<1>8. CASE ReadFrame
  <2>1. /\ waiting' \in BOOLEAN /\ UNCHANGED <<up, pending>>
    BY <1>8, ReadCases
  <2>2. LinkTypes'
    BY <1>1, <1>4, <2>1 DEF LinkTypes
  <2>3. Head(down).kind = "QueryResult" => Head(down).body \subseteq Objs
    BY <1>2, FrameTypes
  <2>4. /\ stage' \in Stages /\ ids' \subseteq Objs /\ pending' \subseteq Objs
        /\ stage' \in {"query", "watch types"} => todo' \subseteq Types
        /\ stage' \in {"get", "watch"} => todo' \subseteq ids'
    BY <1>1, <1>2, <1>8, <2>1, <2>3, ReadCases DEF StageTypes, Stages
  <2>5. StageTypes'
    BY <2>1, <2>4 DEF StageTypes
  <2>6. TreeTypes'
    BY <1>6, <1>7, <1>8, ReadCases
  <2>7. QED
    BY <1>3, <2>2, <2>5, <2>6, TypedPartsNext
<1>9. CASE ~ReadFrame
  <2>1. stage = "loop" /\ UNCHANGED <<stage, waiting, ids>>
    BY <1>9, HandleCases
  <2>2. Head(down).kind \in {"Event", "GetResult"} => Head(down).of \in Objs
    BY <1>2, FrameTypes
  <2>3. pending' \subseteq Objs
    BY <1>1, <1>9, <2>2, HandleCases DEF StageTypes
  <2>4. StageTypes'
    BY <1>1, <2>1, <2>3 DEF StageTypes
  <2>5. up' \in Seq(Requests)
    <3>1. up \in Seq(Requests)
      BY <1>1 DEF LinkTypes
    <3>2. CASE Head(down).kind \in {"Event", "GetResult"}
      <4>1. PICK o \in Objs : o = Head(down).of
        BY <2>2, <3>2
      <4>2. Append(up, Ask("Get", o)) \in Seq(Requests) /\ Append(up, Ask("Subscribe", ById(o))) \in Seq(Requests)
        BY <3>1, AppendFacts, RequestTypes, KeysDiffer
      <4>3. QED
        BY <1>9, <3>1, <4>1, <4>2, HandleCases
    <3>3. CASE Head(down).kind \notin {"Event", "GetResult"}
      BY <1>9, <3>1, <3>3, HandleCases
    <3>4. QED
      BY <3>2, <3>3
  <2>6. LinkTypes'
    BY <1>4, <2>5
  <2>7. ASSUME Head(down).kind = "Event" /\ Head(down).body.kind = "Destroyed" /\ Remove(Head(down).of)
        PROVE  TreeTypes'
    <3>1. PICK o \in Objs : o = Head(down).of
      BY <2>2, <2>7
    <3>2. Remove(o)
      BY <2>7, <3>1
    <3>3. QED
      BY <1>5, <3>2, RemoveFacts DEF TreeTypes
  <2>8. ASSUME Head(down).kind = "Event" /\ Head(down).body.kind = "StateSet"
                 /\ SetInMirror(Head(down).of, Head(down).body.val)
        PROVE  TreeTypes'
    <3>1. PICK o \in Objs : o = Head(down).of
      BY <2>2, <2>8
    <3>2. PICK v \in Vals : v = Head(down).body.val
      BY <1>2, <2>8, FrameTypes, EventTypes
    <3>3. SetInMirror(o, v)
      BY <2>8, <3>1, <3>2
    <3>4. QED
      BY <1>5, <3>3, SetFacts DEF TreeTypes
  <2>9. TreeTypes'
    BY <1>6, <1>7, <1>9, <2>7, <2>8, HandleCases
  <2>10. QED
    BY <1>3, <2>4, <2>6, <2>9, TypedPartsNext
<1>10. QED
  BY <1>8, <1>9

LEMMA TypedNext ==
  ASSUME Typed, [Next]_vars
  PROVE  Typed'
<1>1. ServerTypes /\ LinkTypes /\ StageTypes /\ TreeTypes
  BY TypedParts
<1>2. CASE AskNext
  <2>1. /\ UNCHANGED <<serverVars, queues, batch, reply, down, held, stage, ids, pending, treeVars>>
        /\ waiting' \in BOOLEAN
    BY <1>2 DEF AskNext
  <2>2. up' \in Seq(Requests) /\ todo' \subseteq todo
    BY <1>2, AskFacts
  <2>3. ServerTypes'
    BY <1>1, <2>1 DEF ServerTypes, serverVars
  <2>4. LinkTypes'
    BY <1>1, <2>1, <2>2 DEF LinkTypes
  <2>5. StageTypes'
    BY <1>1, <2>1, <2>2 DEF StageTypes
  <2>6. TreeTypes'
    BY <1>1, <2>1 DEF TreeTypes, treeVars
  <2>7. QED
    BY <2>3, <2>4, <2>5, <2>6, TypedPartsNext
<1>3. CASE NextStage
  <2>1. /\ UNCHANGED <<serverVars, queues, batch, up, reply, down, held, waiting, ids, pending, treeVars>>
        /\ \/ stage' \in {"get", "watch"} /\ todo' = ids
           \/ stage' = "watch types" /\ todo' = Types
           \/ stage' = "loop"
    BY <1>3 DEF NextStage
  <2>2. ServerTypes'
    BY <1>1, <2>1 DEF ServerTypes, serverVars
  <2>3. LinkTypes'
    BY <1>1, <2>1 DEF LinkTypes
  <2>4. StageTypes'
    BY <1>1, <2>1 DEF StageTypes, Stages
  <2>5. TreeTypes'
    BY <1>1, <2>1 DEF TreeTypes, treeVars
  <2>6. QED
    BY <2>2, <2>3, <2>4, <2>5, TypedPartsNext
<1>4. CASE UNCHANGED vars
  <2>1. ServerTypes'
    BY <1>1, <1>4 DEF ServerTypes, vars, serverVars
  <2>2. LinkTypes'
    BY <1>1, <1>4 DEF LinkTypes, vars, clientVars
  <2>3. StageTypes' /\ TreeTypes'
    BY <1>1, <1>4 DEF StageTypes, TreeTypes, vars, clientVars, treeVars
  <2>4. QED
    BY <2>1, <2>2, <2>3, TypedPartsNext
<1>5. QED
  BY <1>2, <1>3, <1>4, OthersTypes, LinkSteps, FrameTypesKept
  DEF Next, ClientStep, TakesFrame

-----------------------------------------------------------------------------
(* Startup: while it queries and gets, the client has one request out or     *)
(* none, and nothing is pushed to it yet.                                    *)
OneOut(q, a) ==
  \/ up # << >> /\ Tail(up) = << >> /\ Head(up).kind = q /\ reply = Null /\ down = << >>
  \/ up = << >> /\ reply # Null /\ reply.kind = a /\ down = << >>
  \/ up = << >> /\ reply = Null /\ down # << >> /\ Tail(down) = << >> /\ Head(down).kind = a
NoneOut == up = << >> /\ reply = Null /\ down = << >>
Unwatched == (\A k \in SubKeys : queues[k] = Null) /\ batch = << >>
Unseen == \A o \in Objs : mirror[o] = Null

Startup ==
  /\ stage # "dead" /\ (stage = "loop" => ~waiting)
  /\ stage = "query" => Unwatched /\ Unseen /\ (IF waiting THEN OneOut("Query", "QueryResult") ELSE NoneOut)
  /\ stage = "get" => Unwatched /\ (IF waiting THEN OneOut("Get", "GetResult") ELSE NoneOut)

LEMMA SingleFacts ==
  /\ \A S : \A x \in S : LET s == Append(<< >>, x) IN s # << >> /\ Tail(s) = << >> /\ Head(s) = x
  /\ \A S : \A s \in Seq(S) : s # << >> /\ Tail(s) = << >> => s = <<Head(s)>>
<1>1. ASSUME NEW S, NEW x \in S
      PROVE  LET s == Append(<< >>, x) IN s # << >> /\ Tail(s) = << >> /\ Head(s) = x
  <2>1. Append(<< >>, x) = <<x>> /\ <<x>> # << >> /\ Head(<<x>>) = x
    OBVIOUS
  <2>2. Tail(<<x>>) = << >>
    OBVIOUS
  <2>3. QED
    BY <2>1, <2>2
<1>2. ASSUME NEW S, NEW s \in Seq(S), s # << >>, Tail(s) = << >>
      PROVE  s = <<Head(s)>>
  <2>1. Len(Tail(s)) = Len(s) - 1 /\ Head(s) = s[1] /\ Len(s) \in Nat /\ Len(Tail(s)) = 0
    BY <1>2, TailFacts
  <2>2. QED
    BY <2>1
<1>3. QED
  BY <1>1, <1>2

LEMMA StartupInit == Init => Startup
BY DEF Init, Startup, Unwatched, Unseen, NoneOut

LEMMA StartupOthers ==
  ASSUME Typed, Startup, NEW o \in Objs, Mount(o) \/ Destroy(o) \/ \E v \in Vals : SetState(o, v)
  PROVE  Startup'
<1>1. UNCHANGED <<batch, up, reply, down, clientVars>>
  BY DEF Mount, Destroy, SetState
<1>2. \A k \in SubKeys : queues'[k] = Null <=> queues[k] = Null
  <2>1. \E e \in Events : Publish(e)
    BY EventTypes DEF Mount, Destroy, SetState
  <2>2. queues \in [SubKeys -> Seq(Events) \cup {Null}]
    BY DEF Typed, TypeOK
  <2>3. QED
    BY <2>1, <2>2, PublishFacts
<1>3. Unwatched => Unwatched'
  BY <1>1, <1>2 DEF Unwatched
<1>4. /\ Unseen => Unseen'
      /\ NoneOut => NoneOut'
      /\ OneOut("Query", "QueryResult") => OneOut("Query", "QueryResult")'
      /\ OneOut("Get", "GetResult") => OneOut("Get", "GetResult")'
  BY <1>1 DEF Unseen, NoneOut, OneOut, clientVars, treeVars
<1>5. UNCHANGED <<stage, waiting>>
  BY <1>1 DEF clientVars
<1>6. QED
  BY <1>3, <1>4, <1>5 DEF Startup

LEMMA StartupLink ==
  ASSUME Typed, Startup, ServerStep \/ PushStep
  PROVE  Startup'
<1>1. UNCHANGED <<stage, waiting, mirror>>
  BY DEF ServerStep, PushStep, TakeRequest, WriteReply, WriteEvent, DrainOne, clientVars, treeVars
<1>2. Unseen => Unseen'
  BY <1>1 DEF Unseen
<1>3. /\ up \in Seq(Requests) /\ down \in Seq(Frames) /\ reply \in Answers \cup {Null} /\ TypeOK
  BY DEF Typed, TypeOK
<1>4. ASSUME NEW q \in {"Query", "Get"}, NEW a, Unwatched, OneOut(q, a),
             \A r \in Requests : r.kind = q => Answer(r).kind = a
      PROVE  Unwatched' /\ OneOut(q, a)'
  <2>1. CASE TakeRequest
    <3>1. /\ up # << >> /\ reply = Null /\ reply' = Answer(Head(up)) /\ up' = Tail(up)
          /\ UNCHANGED <<batch, down>>
          /\ Head(up).kind # "Subscribe" => queues' = queues
      BY <2>1 DEF TakeRequest
    <3>2. Head(up).kind = q /\ Tail(up) = << >> /\ down = << >>
      BY <1>4, <3>1 DEF OneOut
    <3>3. Head(up) \in Requests
      BY <1>3, <3>1, TailFacts
    <3>4. reply' # Null /\ reply'.kind = a
      BY <1>3, <1>4, <3>1, <3>2, <3>3, AnswerFacts
    <3>5. OneOut(q, a)'
      BY <3>1, <3>2, <3>4 DEF OneOut
    <3>6. Unwatched'
      BY <1>4, <3>1, <3>2 DEF Unwatched
    <3>7. QED
      BY <3>5, <3>6
  <2>2. CASE WriteReply
    <3>1. /\ reply # Null /\ down' = Append(down, reply) /\ reply' = Null /\ UNCHANGED <<queues, batch, up>>
      BY <2>2 DEF WriteReply
    <3>2. up = << >> /\ reply.kind = a /\ down = << >>
      BY <1>4, <3>1 DEF OneOut
    <3>3. down' # << >> /\ Tail(down') = << >> /\ Head(down') = reply
      BY <1>3, <3>1, <3>2, SingleFacts
    <3>4. OneOut(q, a)'
      BY <3>1, <3>2, <3>3 DEF OneOut
    <3>5. Unwatched'
      BY <1>4, <3>1 DEF Unwatched
    <3>6. QED
      BY <3>4, <3>5
  <2>3. CASE PushStep
    <3>1. batch # << >> \/ \E k \in SubKeys : queues[k] # Null
      BY <2>3 DEF PushStep, WriteEvent, DrainOne
    <3>2. QED
      BY <1>4, <3>1 DEF Unwatched
  <2>4. QED
    BY <2>1, <2>2, <2>3 DEF ServerStep
<1>5. ASSUME Unwatched, NoneOut PROVE FALSE
  BY <1>5 DEF Unwatched, NoneOut, ServerStep, PushStep, TakeRequest, WriteReply, WriteEvent, DrainOne
<1>6. \A r \in Requests : /\ r.kind = "Query" => Answer(r).kind = "QueryResult"
                          /\ r.kind = "Get" => Answer(r).kind = "GetResult"
  BY <1>3, AnswerFacts
<1>7. QED
  BY <1>1, <1>2, <1>4, <1>5, <1>6 DEF Startup

LEMMA StartupFrame ==
  ASSUME Typed, Startup, TakesFrame
  PROVE  Startup'
<1>1. /\ down # << >> /\ down' = Tail(down) /\ UNCHANGED <<queues, batch, reply>>
  BY FrameTaken
<1>2. CASE ~ReadFrame
  BY <1>2, HandleCases DEF Startup
<1>3. CASE ReadFrame
  <2>1. waiting /\ waiting' = FALSE /\ UNCHANGED <<up, pending>>
    BY <1>3, ReadCases
  <2>2. ASSUME stage \in {"query", "get"}
        PROVE  /\ Unwatched' /\ NoneOut' /\ stage' = stage
               /\ stage = "query" => Head(down).kind = "QueryResult" /\ UNCHANGED treeVars
    <3>1. CASE stage = "query"
      <4>1. Unwatched /\ OneOut("Query", "QueryResult")
        BY <2>1, <3>1 DEF Startup
      <4>2. Head(down).kind = "QueryResult" /\ NoneOut'
        BY <1>1, <2>1, <4>1 DEF OneOut, NoneOut
      <4>3. UNCHANGED <<stage, treeVars>>
        BY <1>3, <3>1, <4>2, ReadCases
      <4>4. QED
        BY <1>1, <3>1, <4>1, <4>2, <4>3 DEF Unwatched
    <3>2. CASE stage = "get"
      <4>1. Unwatched /\ OneOut("Get", "GetResult")
        BY <2>1, <3>2 DEF Startup
      <4>2. Head(down).kind = "GetResult" /\ NoneOut'
        BY <1>1, <2>1, <4>1 DEF OneOut, NoneOut
      <4>3. UNCHANGED stage
        BY <1>3, <3>2, <4>2, ReadCases
      <4>4. QED
        BY <1>1, <3>2, <4>1, <4>2, <4>3 DEF Unwatched
    <3>3. QED
      BY <2>2, <3>1, <3>2
  <2>3. stage = "query" => Unseen'
    BY <2>2 DEF Startup, Unseen, treeVars
  <2>4. stage # "query" /\ stage # "get" => stage' = stage
    <3>1. stage # "query" /\ stage # "get" => stage \in {"watch", "watch types"} \/ stage = "loop"
      BY DEF Startup, Typed, TypeOK, Stages
    <3>2. stage # "loop"
      BY <2>1 DEF Startup
    <3>3. QED
      BY <1>3, <3>1, <3>2, ReadCases
  <2>5. QED
    BY <2>1, <2>2, <2>3, <2>4 DEF Startup
<1>4. QED
  BY <1>2, <1>3

LEMMA StartupAsk ==
  ASSUME Typed, Startup, AskNext
  PROVE  Startup'
<1>1. /\ stage \in {"query", "get", "watch", "watch types"} /\ ~waiting /\ waiting' = TRUE
      /\ UNCHANGED <<queues, batch, reply, down, stage, mirror>>
  BY DEF AskNext, treeVars
<1>2. PICK x \in todo :
        \/ stage = "query" /\ x \in Types /\ up' = Append(up, Ask("Query", x))
        \/ stage = "get" /\ x \in ids /\ up' = Append(up, Ask("Get", x))
        \/ stage \in {"watch", "watch types"}
  BY AskFacts
<1>3. (Unwatched => Unwatched') /\ (Unseen => Unseen')
  BY <1>1 DEF Unwatched, Unseen
<1>4. CASE stage = "query"
  <2>1. NoneOut /\ up' = Append(up, Ask("Query", x)) /\ x \in Types
    BY <1>1, <1>2, <1>4 DEF Startup
  <2>2. Ask("Query", x) \in Requests /\ Ask("Query", x).kind = "Query"
    BY <2>1, RequestTypes DEF Ask
  <2>3. up' # << >> /\ Tail(up') = << >> /\ Head(up').kind = "Query"
    BY <2>1, <2>2, SingleFacts DEF NoneOut
  <2>4. OneOut("Query", "QueryResult")'
    BY <1>1, <2>1, <2>3 DEF OneOut, NoneOut
  <2>5. QED
    BY <1>1, <1>3, <1>4, <2>4 DEF Startup
<1>5. CASE stage = "get"
  <2>1. NoneOut /\ up' = Append(up, Ask("Get", x)) /\ x \in Objs
    BY <1>1, <1>2, <1>5 DEF Startup, Typed, TypeOK
  <2>2. Ask("Get", x) \in Requests /\ Ask("Get", x).kind = "Get"
    BY <2>1, RequestTypes DEF Ask
  <2>3. up' # << >> /\ Tail(up') = << >> /\ Head(up').kind = "Get"
    BY <2>1, <2>2, SingleFacts DEF NoneOut
  <2>4. OneOut("Get", "GetResult")'
    BY <1>1, <2>1, <2>3 DEF OneOut, NoneOut
  <2>5. QED
    BY <1>1, <1>3, <1>5, <2>4 DEF Startup
<1>6. CASE stage \in {"watch", "watch types"}
  BY <1>1, <1>6 DEF Startup
<1>7. QED
  BY <1>1, <1>4, <1>5, <1>6

LEMMA StartupStage ==
  ASSUME Startup, NextStage
  PROVE  Startup'
<1>1. ~waiting /\ UNCHANGED <<queues, batch, up, reply, down, waiting>>
  BY DEF NextStage
<1>2. \/ stage = "query" /\ stage' = "get"
      \/ stage' \in {"watch", "watch types", "loop"}
  BY DEF NextStage
<1>3. (Unwatched => Unwatched') /\ (NoneOut => NoneOut')
  BY <1>1 DEF Unwatched, NoneOut
<1>4. QED
  BY <1>1, <1>2, <1>3 DEF Startup

LEMMA StartupNext ==
  ASSUME Typed, Startup, [Next]_vars
  PROVE  Startup'
<1>1. CASE UNCHANGED vars
  BY <1>1 DEF Startup, Unwatched, Unseen, OneOut, NoneOut, vars, clientVars, treeVars
<1>2. QED
  BY <1>1, StartupOthers, StartupLink, StartupFrame, StartupAsk, StartupStage
  DEF Next, ClientStep, TakesFrame

-----------------------------------------------------------------------------
(* What is on its way to the mirror of an object: the Created event in the   *)
(* queue of its type, in the batch or among the frames, then the Get and its *)
(* result; at startup, the id in the list of what to get.                    *)
Announces(event, o) == event.kind = "Created" /\ event.id = o
Carries(f, o) ==
  \/ f.kind = "GetResult" /\ f.of = o
  \/ f.kind = "Event" /\ Announces(f.body, o)

InTodo(o)     == stage = "get" /\ o \in todo
InUp(o, i)    == i \in DOMAIN up /\ up[i] = Ask("Get", o)
InReply(o)    == reply # Null /\ Carries(reply, o)
InDown(o, i)  == i \in DOMAIN down /\ Carries(down[i], o)
InBatch(o, i) == i \in DOMAIN batch /\ Announces(batch[i], o)
InQueue(o, i) == /\ i \in DOMAIN Waiting(ByType(TypeOf[o]))
                 /\ Announces(Waiting(ByType(TypeOf[o]))[i], o)

Places == {"todo", "up", "reply", "down", "batch", "queue"}
Ticket(o, l, i) ==
  \/ l = "todo" /\ i = 0 /\ InTodo(o)
  \/ l = "up" /\ InUp(o, i)
  \/ l = "reply" /\ i = 0 /\ InReply(o)
  \/ l = "down" /\ InDown(o, i)
  \/ l = "batch" /\ InBatch(o, i)
  \/ l = "queue" /\ InQueue(o, i)
Coming(o) == \E l \in Places, i \in Nat : Ticket(o, l, i)
OneTicket(o) == \A l, m \in Places, i, j \in Nat : Ticket(o, l, i) /\ Ticket(o, m, j) => l = m /\ i = j

(* And the subscription to the object.                                       *)
InAsked(o, i) == i \in DOMAIN up /\ up[i] = Ask("Subscribe", ById(o))
AskedToWatch(o) == \E i \in Nat : InAsked(o, i)
Watched(o) == queues[ById(o)] # Null

LEMMA ComingForms ==
  ASSUME Typed, NEW o
  PROVE  Coming(o) <=> \/ InTodo(o) \/ InReply(o)
                       \/ \E i \in Nat : InUp(o, i) \/ InDown(o, i) \/ InBatch(o, i) \/ InQueue(o, i)
BY DEF Coming, Ticket, Places

LEMMA PositionsAreNumbers ==
  ASSUME Typed, NEW o \in Objs, NEW i
  PROVE  /\ InUp(o, i) \/ InAsked(o, i) => i \in 1 .. Len(up)
         /\ InDown(o, i) => i \in 1 .. Len(down)
         /\ InBatch(o, i) => i \in 1 .. Len(batch)
         /\ InQueue(o, i) => i \in 1 .. Len(Waiting(ByType(TypeOf[o])))
         /\ Waiting(ByType(TypeOf[o])) \in Seq(Events)
         /\ Len(up) \in Nat /\ Len(down) \in Nat /\ Len(batch) \in Nat
         /\ Len(Waiting(ByType(TypeOf[o]))) \in Nat
<1>1. /\ up \in Seq(Requests) /\ down \in Seq(Frames) /\ batch \in Seq(Events)
      /\ queues \in [SubKeys -> Seq(Events) \cup {Null}]
  BY DEF Typed, TypeOK
<1>2. ByType(TypeOf[o]) \in SubKeys
  BY KeysDiffer, TreeAssumption
<1>3. Waiting(ByType(TypeOf[o])) \in Seq(Events)
  <2>1. << >> \in Seq(Events)
    OBVIOUS
  <2>2. QED
    BY <1>1, <1>2, <2>1 DEF Waiting
<1>4. QED
  BY <1>1, <1>3 DEF InUp, InAsked, InDown, InBatch, InQueue

LEMMA UpTail ==
  ASSUME Typed, NEW o, up # << >>, up' = Tail(up), NEW i \in Nat
  PROVE  /\ InUp(o, i)' => InUp(o, i + 1)
         /\ InAsked(o, i)' => InAsked(o, i + 1)
<1>1. up \in Seq(Requests)
  BY DEF Typed, TypeOK
<1>2. i \in DOMAIN Tail(up) => i + 1 \in DOMAIN up /\ Tail(up)[i] = up[i + 1]
  BY <1>1, TailFacts
<1>3. QED
  BY <1>2 DEF InUp, InAsked

LEMMA UpAppend ==
  ASSUME Typed, NEW o, NEW r \in Requests, up' = Append(up, r), NEW i
  PROVE  /\ InUp(o, i)' => InUp(o, i) \/ (i = Len(up) + 1 /\ r = Ask("Get", o))
         /\ InAsked(o, i)' => InAsked(o, i) \/ (i = Len(up) + 1 /\ r = Ask("Subscribe", ById(o)))
         /\ InUp(o, i) => InUp(o, i)' /\ i # Len(up) + 1
         /\ InAsked(o, i) => InAsked(o, i)' /\ i # Len(up) + 1
<1>1. up \in Seq(Requests)
  BY DEF Typed, TypeOK
<1>2. /\ Append(up, r)[Len(up) + 1] = r
      /\ i \in DOMAIN up => i \in DOMAIN Append(up, r) /\ i # Len(up) + 1 /\ Append(up, r)[i] = up[i]
      /\ i \in DOMAIN Append(up, r) => i = Len(up) + 1 \/ i \in DOMAIN up
  BY <1>1, AppendFacts
<1>3. QED
  BY <1>2 DEF InUp, InAsked

LEMMA DownTail ==
  ASSUME Typed, NEW o, down # << >>, down' = Tail(down), NEW i \in Nat
  PROVE  /\ InDown(o, i)' => InDown(o, i + 1)
         /\ InDown(o, i) => (i = 1 /\ Carries(Head(down), o)) \/ (i > 1 /\ InDown(o, i - 1)')
         /\ Carries(Head(down), o) => InDown(o, 1)
<1>1. down \in Seq(Frames)
  BY DEF Typed, TypeOK
<1>2. /\ i \in DOMAIN Tail(down) => i + 1 \in DOMAIN down /\ Tail(down)[i] = down[i + 1]
      /\ 1 \in DOMAIN down /\ Head(down) = down[1]
      /\ i \in DOMAIN down => i = 1 \/ (i > 1 /\ i - 1 \in DOMAIN Tail(down) /\ down[i] = Tail(down)[i - 1])
  BY <1>1, TailFacts
<1>3. QED
  BY <1>2 DEF InDown

LEMMA DownAppend ==
  ASSUME Typed, NEW o, NEW f \in Frames, down' = Append(down, f), NEW i
  PROVE  InDown(o, i)' => InDown(o, i) \/ (i = Len(down) + 1 /\ Carries(f, o))
<1>1. down \in Seq(Frames)
  BY DEF Typed, TypeOK
<1>2. /\ Append(down, f)[Len(down) + 1] = f
      /\ i \in DOMAIN down => Append(down, f)[i] = down[i]
      /\ i \in DOMAIN Append(down, f) => i = Len(down) + 1 \/ i \in DOMAIN down
  BY <1>1, AppendFacts
<1>3. QED
  BY <1>2 DEF InDown

LEMMA BatchTail ==
  ASSUME Typed, NEW o, batch # << >>, batch' = Tail(batch), NEW i \in Nat
  PROVE  /\ InBatch(o, i)' => InBatch(o, i + 1)
         /\ Announces(Head(batch), o) => InBatch(o, 1)
<1>1. batch \in Seq(Events)
  BY DEF Typed, TypeOK
<1>2. /\ i \in DOMAIN Tail(batch) => i + 1 \in DOMAIN batch /\ Tail(batch)[i] = batch[i + 1]
      /\ 1 \in DOMAIN batch /\ Head(batch) = batch[1]
  BY <1>1, TailFacts
<1>3. QED
  BY <1>2 DEF InBatch

LEMMA QueueAppend ==
  ASSUME Typed, NEW event \in Events, Publish(event), NEW o \in Objs, NEW i
  PROVE  InQueue(o, i)' => \/ InQueue(o, i)
                           \/ i = Len(Waiting(ByType(TypeOf[o]))) + 1 /\ Announces(event, o)
<1>1. queues \in [SubKeys -> Seq(Events) \cup {Null}]
  BY DEF Typed, TypeOK
<1>2. PICK k \in SubKeys : k = ByType(TypeOf[o])
  BY KeysDiffer, TreeAssumption
<1>3. /\ queues'[k] = Null <=> queues[k] = Null
      /\ queues[k] # Null /\ Hears(k, event) => queues'[k] = Append(queues[k], event)
      /\ ~Hears(k, event) => queues'[k] = queues[k]
  BY <1>1, PublishFacts
<1>4. CASE queues[k] # Null /\ Hears(k, event)
  <2>1. queues[k] \in Seq(Events)
    BY <1>1, <1>4
  <2>2. /\ Append(queues[k], event)[Len(queues[k]) + 1] = event
        /\ i \in DOMAIN queues[k] => Append(queues[k], event)[i] = queues[k][i]
        /\ i \in DOMAIN Append(queues[k], event) => i = Len(queues[k]) + 1 \/ i \in DOMAIN queues[k]
    BY <2>1, AppendFacts
  <2>3. Waiting(k) = queues[k] /\ Waiting(k)' = Append(queues[k], event)
    BY <1>3, <1>4 DEF Waiting
  <2>4. QED
    BY <1>2, <2>2, <2>3 DEF InQueue
<1>5. CASE ~(queues[k] # Null /\ Hears(k, event))
  <2>1. queues'[k] = queues[k]
    BY <1>3, <1>5
  <2>2. Waiting(k)' = Waiting(k)
    BY <2>1 DEF Waiting
  <2>3. QED
    BY <1>2, <2>2 DEF InQueue
<1>6. QED
  BY <1>4, <1>5

(* Events carry the object they are of, and lie only in the queues of        *)
(* subscriptions that hear of them.                                          *)
Addressed ==
  /\ \A i \in DOMAIN down : down[i].kind = "Event" => down[i].of = down[i].body.id
  /\ \A k \in SubKeys : \A i \in DOMAIN Waiting(k) :
       /\ Waiting(k)[i].kind = "Created" => k = ByType(TypeOf[Waiting(k)[i].id])
       /\ Waiting(k)[i].kind = "StateSet" => k = ById(Waiting(k)[i].id)

NotYet(o) == life[o] = "absent"

(* A step brings nothing of an object on its way but what was on its way     *)
(* already, or the object has just been mounted, or startup has just asked.  *)
NothingNew(o) ==
  /\ OneTicket(o)'
  /\ Coming(o)' => \/ Coming(o)
                   \/ NotYet(o) /\ ~NotYet(o)'
                   \/ stage = "query" /\ o \in ids'

LEMMA TicketsOthers ==
  ASSUME Typed, NEW x \in Objs, Mount(x) \/ Destroy(x) \/ \E v \in Vals : SetState(x, v),
         NEW o \in Objs, OneTicket(o), NotYet(o) => ~Coming(o)
  PROVE  NothingNew(o)
<1>1. UNCHANGED <<batch, up, reply, down, todo, stage>>
  BY DEF Mount, Destroy, SetState, clientVars
<1>2. PICK event \in Events :
        /\ Publish(event)
        /\ event.kind = "Created" => event.id = x /\ Mount(x)
  BY EventTypes DEF Mount, Destroy, SetState, Lifecycle, Changed, NotYet
<1>3. \A i : /\ InUp(o, i)' = InUp(o, i) /\ InDown(o, i)' = InDown(o, i) /\ InBatch(o, i)' = InBatch(o, i)
             /\ InTodo(o)' = InTodo(o) /\ InReply(o)' = InReply(o)
  BY <1>1 DEF InUp, InDown, InBatch, InTodo, InReply
<1>4. \A i : InQueue(o, i)' => \/ InQueue(o, i)
                               \/ /\ i = Len(Waiting(ByType(TypeOf[o]))) + 1
                                  /\ o = x /\ Mount(x)
  BY <1>2, QueueAppend DEF Announces
<1>5. CASE o = x /\ Mount(x)
  <2>0. NotYet(o) /\ ~NotYet(o)'
    BY <1>5 DEF Mount, NotYet, Typed, TypeOK
  <2>1. \A l \in Places, i \in Nat : Ticket(o, l, i)' => l = "queue" /\ i = Len(Waiting(ByType(TypeOf[o]))) + 1
    BY <1>3, <1>4, <2>0 DEF Ticket, Coming
  <2>2. OneTicket(o)'
    BY <2>1 DEF OneTicket
  <2>3. QED
    BY <2>0, <2>2 DEF NothingNew
<1>6. CASE ~(o = x /\ Mount(x))
  <2>1. \A l \in Places, i \in Nat : Ticket(o, l, i)' => Ticket(o, l, i)
    BY <1>3, <1>4, <1>6 DEF Ticket
  <2>2. OneTicket(o)'
    BY <2>1 DEF OneTicket
  <2>3. Coming(o)' => Coming(o)
    BY <2>1 DEF Coming
  <2>4. QED
    BY <2>2, <2>3 DEF NothingNew
<1>7. QED
  BY <1>5, <1>6

LEMMA RequestForms ==
  ASSUME NEW r \in Requests
  PROVE  /\ r.kind = "Get" => r = Ask("Get", r.of)
         /\ r.kind = "Subscribe" => r = Ask("Subscribe", r.of)
BY DEF Requests, Ask

(* A queue that is not the given one, or is emptied.                         *)
LEMMA QueueEmptied ==
  ASSUME Typed, NEW k \in SubKeys, queues' = [queues EXCEPT ![k] = << >>],
         NEW o \in Objs, NEW i
  PROVE  InQueue(o, i)' => InQueue(o, i) /\ k # ByType(TypeOf[o])
<1>1. queues \in [SubKeys -> Seq(Events) \cup {Null}]
  BY DEF Typed, TypeOK
<1>2. PICK m \in SubKeys : m = ByType(TypeOf[o])
  BY KeysDiffer, TreeAssumption
<1>3. CASE m = k
  <2>1. queues'[m] = << >>
    BY <1>1, <1>3
  <2>2. Waiting(m)' = << >>
    BY <2>1 DEF Waiting
  <2>3. i \notin DOMAIN << >>
    OBVIOUS
  <2>4. QED
    BY <1>2, <2>2, <2>3 DEF InQueue
<1>4. CASE m # k
  <2>1. queues'[m] = queues[m]
    BY <1>1, <1>4
  <2>2. QED
    BY <1>2, <1>4, <2>1 DEF InQueue, Waiting
<1>5. QED
  BY <1>3, <1>4

LEMMA TicketsTake ==
  ASSUME Typed, TakeRequest, NEW o \in Objs, OneTicket(o)
  PROVE  NothingNew(o)
<1>1. /\ up # << >> /\ reply = Null /\ reply' = Answer(Head(up)) /\ up' = Tail(up)
      /\ UNCHANGED <<batch, down, todo, stage>>
      /\ \/ Head(up).kind = "Subscribe" /\ queues' = [queues EXCEPT ![Head(up).of] = << >>]
         \/ queues' = queues
  BY DEF TakeRequest, clientVars
<1>2. up \in Seq(Requests) /\ TypeOK
  BY DEF Typed, TypeOK
<1>3. PICK r \in Requests : r = Head(up) /\ r = up[1] /\ 1 \in DOMAIN up
  BY <1>1, <1>2, TailFacts
<1>4. InReply(o)' => InUp(o, 1)
  <2>1. /\ Answer(r).kind # "Event"
        /\ Answer(r).kind = "GetResult" => r.kind = "Get"
        /\ Answer(r).of = r.of
    BY <1>2, AnswerFacts, FrameTypes, RequestTypes
  <2>2. InReply(o)' => r.kind = "Get" /\ r.of = o
    BY <1>1, <1>3, <2>1 DEF InReply, Carries
  <2>3. QED
    BY <1>3, <2>2, RequestForms DEF InUp
<1>5. \A i \in Nat : InUp(o, i)' => InUp(o, i + 1)
  BY <1>1, UpTail
<1>6. \A i \in Nat : InQueue(o, i)' => InQueue(o, i)
  <2>1. CASE queues' = queues
    BY <2>1 DEF InQueue, Waiting
  <2>2. CASE r.kind = "Subscribe" /\ queues' = [queues EXCEPT ![r.of] = << >>]
    <3>1. r.of \in SubKeys
      BY <2>2, RequestTypes
    <3>2. QED
      BY <2>2, <3>1, QueueEmptied
  <2>3. QED
    BY <1>1, <1>3, <2>1, <2>2
<1>7. \A i : InDown(o, i)' = InDown(o, i) /\ InBatch(o, i)' = InBatch(o, i) /\ InTodo(o)' = InTodo(o)
  BY <1>1 DEF InDown, InBatch, InTodo
<1>8. \A l \in Places, i \in Nat : Ticket(o, l, i)' =>
        \/ l \notin {"up", "reply"} /\ Ticket(o, l, i)
        \/ l = "up" /\ Ticket(o, "up", i + 1) /\ i \in 1 .. Len(up)
        \/ l = "reply" /\ i = 0 /\ Ticket(o, "up", 1)
  <2>1. \A i \in Nat : InUp(o, i)' => i \in 1 .. Len(up)
    <3>1. DOMAIN Tail(up) = 1 .. Len(up) - 1 /\ Len(up) \in Nat
      BY <1>1, <1>2, TailFacts
    <3>2. QED
      BY <1>1, <3>1 DEF InUp
  <2>2. QED
    BY <1>4, <1>5, <1>6, <1>7, <2>1 DEF Ticket
<1>9. OneTicket(o)'
  BY <1>8, PositionsAreNumbers DEF OneTicket, Places
<1>10. Coming(o)' => Coming(o)
  BY <1>8 DEF Coming, Places
<1>11. QED
  BY <1>9, <1>10 DEF NothingNew

LEMMA TicketsReply ==
  ASSUME Typed, WriteReply, NEW o \in Objs, OneTicket(o)
  PROVE  NothingNew(o)
<1>1. /\ reply # Null /\ down' = Append(down, reply) /\ reply' = Null
      /\ UNCHANGED <<queues, batch, up, todo, stage>>
  BY DEF WriteReply, clientVars
<1>2. reply \in Frames
  BY <1>1, FrameTypes DEF Typed, TypeOK
<1>3. \A i : InDown(o, i)' => InDown(o, i) \/ (i = Len(down) + 1 /\ InReply(o))
  <2>1. PICK f \in Frames : f = reply
    BY <1>2
  <2>2. \A i : InDown(o, i)' => InDown(o, i) \/ (i = Len(down) + 1 /\ Carries(f, o))
    BY <1>1, <2>1, DownAppend
  <2>3. QED
    BY <1>1, <2>1, <2>2 DEF InReply
<1>4. ~InReply(o)'
  BY <1>1 DEF InReply
<1>5. \A i : InUp(o, i)' = InUp(o, i) /\ InBatch(o, i)' = InBatch(o, i) /\ InTodo(o)' = InTodo(o)
             /\ InQueue(o, i)' = InQueue(o, i)
  BY <1>1 DEF InUp, InBatch, InTodo, InQueue, Waiting
<1>6. \A l \in Places, i \in Nat : Ticket(o, l, i)' =>
        \/ l # "reply" /\ Ticket(o, l, i) /\ (l = "down" => i # Len(down) + 1)
        \/ l = "down" /\ i = Len(down) + 1 /\ Ticket(o, "reply", 0)
  <2>1. \A i : InDown(o, i) => i # Len(down) + 1
    BY PositionsAreNumbers
  <2>2. QED
    BY <1>3, <1>4, <1>5, <2>1 DEF Ticket
<1>7. OneTicket(o)'
  BY <1>6 DEF OneTicket, Places
<1>8. Coming(o)' => Coming(o)
  BY <1>6 DEF Coming, Places
<1>9. QED
  BY <1>7, <1>8 DEF NothingNew

LEMMA TicketsEvent ==
  ASSUME Typed, WriteEvent, NEW o \in Objs, OneTicket(o)
  PROVE  NothingNew(o)
<1>1. /\ batch # << >> /\ down' = Append(down, Frame("Event", Head(batch).id, Head(batch)))
      /\ batch' = Tail(batch) /\ UNCHANGED <<queues, up, reply, todo, stage>>
  BY DEF WriteEvent, clientVars
<1>2. batch \in Seq(Events)
  BY DEF Typed, TypeOK
<1>3. PICK e \in Events : e = Head(batch)
  BY <1>1, <1>2, TailFacts
<1>4. Frame("Event", e.id, e) \in Frames /\ (Carries(Frame("Event", e.id, e), o) => Announces(e, o))
  BY EventTypes DEF Carries, Frame
<1>5. \A i : InDown(o, i)' => InDown(o, i) \/ (i = Len(down) + 1 /\ InBatch(o, 1))
  <2>1. Announces(e, o) => InBatch(o, 1)
    BY <1>1, <1>3, BatchTail
  <2>2. QED
    BY <1>1, <1>3, <1>4, <2>1, DownAppend
<1>6. \A i \in Nat : InBatch(o, i)' => InBatch(o, i + 1) /\ i \in 1 .. Len(batch)
  <2>1. DOMAIN Tail(batch) = 1 .. Len(batch) - 1 /\ Len(batch) \in Nat
    BY <1>1, <1>2, TailFacts
  <2>2. QED
    BY <1>1, <2>1, BatchTail DEF InBatch
<1>7. \A i : InUp(o, i)' = InUp(o, i) /\ InReply(o)' = InReply(o) /\ InTodo(o)' = InTodo(o)
             /\ InQueue(o, i)' = InQueue(o, i)
  BY <1>1 DEF InUp, InReply, InTodo, InQueue, Waiting
<1>8. \A l \in Places, i \in Nat : Ticket(o, l, i)' =>
        \/ l # "batch" /\ Ticket(o, l, i) /\ (l = "down" => i # Len(down) + 1)
        \/ l = "batch" /\ Ticket(o, "batch", i + 1) /\ i \in 1 .. Len(batch)
        \/ l = "down" /\ i = Len(down) + 1 /\ Ticket(o, "batch", 1)
  <2>1. \A i : InDown(o, i) => i # Len(down) + 1
    BY PositionsAreNumbers
  <2>2. QED
    BY <1>5, <1>6, <1>7, <2>1 DEF Ticket
<1>9. OneTicket(o)'
  BY <1>8, PositionsAreNumbers DEF OneTicket, Places
<1>10. Coming(o)' => Coming(o)
  BY <1>8 DEF Coming, Places
<1>11. QED
  BY <1>9, <1>10 DEF NothingNew

LEMMA TicketsDrain ==
  ASSUME Typed, Addressed, NEW k \in SubKeys, DrainOne(k), NEW o \in Objs, OneTicket(o)
  PROVE  NothingNew(o)
<1>1. /\ batch = << >> /\ queues[k] # Null /\ batch' = queues[k]
      /\ queues' = [queues EXCEPT ![k] = << >>]
      /\ UNCHANGED <<up, reply, down, todo, stage>>
  BY DEF DrainOne, clientVars
<1>2. \A i \in Nat : InQueue(o, i)' => InQueue(o, i) /\ k # ByType(TypeOf[o])
  BY <1>1, QueueEmptied
<1>3. \A i : InBatch(o, i)' => InQueue(o, i) /\ k = ByType(TypeOf[o])
  <2>1. Waiting(k) = queues[k]
    BY <1>1 DEF Waiting
  <2>2. ASSUME NEW i, InBatch(o, i)'
        PROVE  InQueue(o, i) /\ k = ByType(TypeOf[o])
    <3>1. i \in DOMAIN Waiting(k) /\ Announces(Waiting(k)[i], o)
      BY <1>1, <2>1, <2>2 DEF InBatch
    <3>2. k = ByType(TypeOf[o])
      BY <3>1 DEF Addressed, Announces
    <3>3. QED
      BY <3>1, <3>2 DEF InQueue
  <2>3. QED
    BY <2>2
<1>4. \A i : InUp(o, i)' = InUp(o, i) /\ InReply(o)' = InReply(o) /\ InTodo(o)' = InTodo(o)
             /\ InDown(o, i)' = InDown(o, i)
  BY <1>1 DEF InUp, InReply, InTodo, InDown
<1>5. \A l \in Places, i \in Nat : Ticket(o, l, i)' =>
        \/ l \notin {"batch", "queue"} /\ Ticket(o, l, i)
        \/ l = "queue" /\ Ticket(o, "queue", i) /\ k # ByType(TypeOf[o])
        \/ l = "batch" /\ Ticket(o, "queue", i) /\ k = ByType(TypeOf[o])
  BY <1>2, <1>3, <1>4 DEF Ticket
<1>6. OneTicket(o)'
  BY <1>5 DEF OneTicket, Places
<1>7. Coming(o)' => Coming(o)
  BY <1>5 DEF Coming, Places
<1>8. QED
  BY <1>6, <1>7 DEF NothingNew

LEMMA TicketsFrame ==
  ASSUME Typed, Startup, Addressed, TakesFrame, NEW o \in Objs, OneTicket(o)
  PROVE  /\ NothingNew(o)
         /\ Carries(Head(down), o) => /\ Coming(o)
                                      /\ Head(down).kind = "GetResult" => ~Coming(o)'
         /\ Coming(o) /\ ~Carries(Head(down), o) => Coming(o)'
<1>1. /\ down # << >> /\ down' = Tail(down) /\ Head(down) \in Frames
      /\ UNCHANGED <<queues, batch, reply, todo>>
  BY FrameTaken
<1>2. PICK f \in Frames : f = Head(down) /\ f = down[1] /\ 1 \in DOMAIN down
  <2>1. down \in Seq(Frames)
    BY DEF Typed, TypeOK
  <2>2. QED
    BY <1>1, <2>1, TailFacts
<1>3. \A i \in Nat : /\ InDown(o, i)' => InDown(o, i + 1) /\ i \in 1 .. Len(down)
                     /\ InDown(o, i) => (i = 1 /\ Carries(f, o)) \/ (i > 1 /\ InDown(o, i - 1)')
                     /\ Carries(f, o) => InDown(o, 1)
  <2>1. DOMAIN Tail(down) = 1 .. Len(down) - 1 /\ Len(down) \in Nat
    <3>1. down \in Seq(Frames)
      BY DEF Typed, TypeOK
    <3>2. QED
      BY <1>1, <3>1, TailFacts
  <2>2. \A i \in Nat : InDown(o, i)' => i \in 1 .. Len(down)
    BY <1>1, <2>1 DEF InDown
  <2>3. QED
    BY <1>1, <1>2, <2>2, DownTail
<1>4. stage' = stage
  <2>1. CASE ReadFrame
    <3>0. waiting
      BY <2>1, ReadCases
    <3>1. stage = "query" => Head(down).kind = "QueryResult"
      BY <1>1, <3>0 DEF Startup, OneOut
    <3>2. stage = "get" => Head(down).kind = "GetResult"
      BY <1>1, <3>0 DEF Startup, OneOut
    <3>3. stage # "loop" /\ stage # "dead"
      BY <3>0 DEF Startup
    <3>4. stage \in {"query", "get", "watch", "watch types"}
      BY <3>3 DEF Typed, TypeOK, Stages
    <3>5. QED
      BY <2>1, <3>1, <3>2, <3>4, ReadCases
  <2>2. CASE ~ReadFrame
    BY <2>2, HandleCases
  <2>3. QED
    BY <2>1, <2>2
<1>5. \A i : InBatch(o, i)' = InBatch(o, i) /\ InReply(o)' = InReply(o) /\ InTodo(o)' = InTodo(o)
             /\ InQueue(o, i)' = InQueue(o, i)
  BY <1>1, <1>4 DEF InBatch, InReply, InTodo, InQueue, Waiting
<1>6. \/ UNCHANGED up
      \/ f.kind = "Event" /\ f.of \in Objs /\ f.of = f.body.id /\ f.body.kind = "Created"
           /\ up' = Append(up, Ask("Get", f.of))
      \/ f.kind = "GetResult" /\ f.of \in Objs /\ up' = Append(up, Ask("Subscribe", ById(f.of)))
  <2>1. CASE ReadFrame
    BY <2>1, ReadCases
  <2>2. CASE ~ReadFrame
    <3>1. f.kind \in {"Event", "GetResult"} => f.of \in Objs
      BY FrameTypes
    <3>2. f.kind = "Event" => f.of = f.body.id
      BY <1>2 DEF Addressed
    <3>3. QED
      BY <1>2, <2>2, <3>1, <3>2, HandleCases
  <2>3. QED
    BY <2>1, <2>2
<1>7. \A i : /\ InUp(o, i)' => InUp(o, i) \/ (i = Len(up) + 1 /\ Carries(f, o) /\ f.kind = "Event")
             /\ InUp(o, i) => InUp(o, i)' /\ i # Len(up) + 1
  <2>1. CASE UNCHANGED up
    <3>1. \A i : InUp(o, i)' = InUp(o, i)
      BY <2>1 DEF InUp
    <3>2. QED
      BY <3>1, PositionsAreNumbers
  <2>2. CASE f.kind = "Event" /\ f.of \in Objs /\ f.of = f.body.id /\ f.body.kind = "Created"
             /\ up' = Append(up, Ask("Get", f.of))
    <3>1. PICK r \in Requests : r = Ask("Get", f.of)
      BY <2>2, RequestTypes
    <3>2. r = Ask("Get", o) => Carries(f, o)
      BY <2>2, <3>1 DEF Ask, Carries, Announces
    <3>3. QED
      BY <2>2, <3>1, <3>2, UpAppend
  <2>3. CASE f.kind = "GetResult" /\ f.of \in Objs /\ up' = Append(up, Ask("Subscribe", ById(f.of)))
    <3>1. PICK r \in Requests : r = Ask("Subscribe", ById(f.of))
      BY <2>3, RequestTypes, KeysDiffer
    <3>2. r # Ask("Get", o)
      BY <3>1 DEF Ask
    <3>3. QED
      BY <2>3, <3>1, <3>2, UpAppend
  <2>4. QED
    BY <1>6, <2>1, <2>2, <2>3
<1>8. \A l \in Places, i \in Nat : Ticket(o, l, i)' =>
        \/ l # "down" /\ Ticket(o, l, i) /\ (l = "up" => i # Len(up) + 1)
        \/ l = "down" /\ Ticket(o, "down", i + 1) /\ i \in 1 .. Len(down)
        \/ l = "up" /\ i = Len(up) + 1 /\ Ticket(o, "down", 1) /\ f.kind = "Event"
  BY <1>3, <1>5, <1>7 DEF Ticket
<1>9. OneTicket(o)'
  BY <1>8, PositionsAreNumbers DEF OneTicket, Places
<1>10. Coming(o)' => Coming(o)
  BY <1>8, PositionsAreNumbers DEF Coming, Places
<1>11. Carries(f, o) => Ticket(o, "down", 1)
  BY <1>3 DEF Ticket
<1>12. ASSUME Carries(f, o), f.kind = "GetResult" PROVE ~Coming(o)'
  <2>1. \A l \in Places, i \in Nat : Ticket(o, l, i) => l = "down" /\ i = 1
    BY <1>11, <1>12 DEF OneTicket, Places
  <2>2. \A l \in Places, i \in Nat : ~Ticket(o, l, i)'
    BY <1>8, <1>12, <2>1, PositionsAreNumbers
  <2>3. QED
    BY <2>2 DEF Coming
<1>13. Carries(f, o) => Coming(o)
  BY <1>11 DEF Coming, Places
<1>14. ASSUME Coming(o), ~Carries(f, o) PROVE Coming(o)'
  <2>1. PICK l \in Places, i \in Nat : Ticket(o, l, i)
    BY <1>14 DEF Coming
  <2>2. CASE l = "down"
    <3>1. i > 1 /\ InDown(o, i - 1)'
      BY <1>3, <1>14, <2>1, <2>2 DEF Ticket
    <3>2. i - 1 \in Nat
      BY <3>1
    <3>3. PICK j \in Nat : InDown(o, j)'
      BY <3>1, <3>2
    <3>4. Ticket(o, "down", j)'
      BY <3>3 DEF Ticket
    <3>5. QED
      BY <3>4 DEF Coming, Places
  <2>3. CASE l # "down"
    <3>1. Ticket(o, l, i)'
      BY <1>5, <1>7, <2>1, <2>3 DEF Ticket
    <3>2. QED
      BY <3>1 DEF Coming
  <2>4. QED
    BY <2>2, <2>3
<1>15. QED
  BY <1>2, <1>9, <1>10, <1>12, <1>13, <1>14 DEF NothingNew

LEMMA TicketsAsk ==
  ASSUME Typed, Startup, AskNext, NEW o \in Objs, OneTicket(o)
  PROVE  /\ NothingNew(o)
         /\ Coming(o) => Coming(o)'
<1>1. UNCHANGED <<queues, batch, reply, down, stage>> /\ ~waiting
  BY DEF AskNext
<1>2. PICK x \in todo :
        /\ todo' = todo \ {x}
        /\ \/ stage = "query" /\ x \in Types /\ up' = Append(up, Ask("Query", x))
           \/ stage = "get" /\ x \in ids /\ up' = Append(up, Ask("Get", x))
           \/ stage = "watch" /\ x \in ids /\ up' = Append(up, Ask("Subscribe", ById(x)))
           \/ stage = "watch types" /\ x \in Types /\ up' = Append(up, Ask("Subscribe", ByType(x)))
  BY AskFacts
<1>3. \A i : InBatch(o, i)' = InBatch(o, i) /\ InReply(o)' = InReply(o) /\ InDown(o, i)' = InDown(o, i)
             /\ InQueue(o, i)' = InQueue(o, i)
  BY <1>1 DEF InBatch, InReply, InDown, InQueue, Waiting
<1>4. CASE stage = "get"
  <2>1. x \in Objs /\ up' = Append(up, Ask("Get", x))
    BY <1>2, <1>4 DEF Typed, TypeOK
  <2>2. PICK r \in Requests : r = Ask("Get", x)
    BY <2>1, RequestTypes
  <2>3. r = Ask("Get", o) <=> o = x
    BY <2>2 DEF Ask
  <2>4. \A i : /\ InUp(o, i)' => InUp(o, i) \/ (i = Len(up) + 1 /\ o = x)
               /\ InUp(o, i) => InUp(o, i)' /\ i # Len(up) + 1
    BY <2>1, <2>2, <2>3, UpAppend
  <2>5. /\ InTodo(o)' <=> InTodo(o) /\ o # x
        /\ o = x => InTodo(o)
    BY <1>1, <1>2, <1>4 DEF InTodo
  <2>6. \A l \in Places, i \in Nat : Ticket(o, l, i)' =>
          \/ l \notin {"todo", "up"} /\ Ticket(o, l, i)
          \/ l = "todo" /\ Ticket(o, l, i) /\ o # x
          \/ l = "up" /\ Ticket(o, l, i) /\ i # Len(up) + 1
          \/ l = "up" /\ i = Len(up) + 1 /\ o = x /\ Ticket(o, "todo", 0)
    BY <1>3, <2>4, <2>5 DEF Ticket
  <2>7. OneTicket(o)'
    BY <2>6 DEF OneTicket, Places
  <2>8. Coming(o)' => Coming(o)
    BY <2>6 DEF Coming, Places
  <2>9. ASSUME Coming(o) PROVE Coming(o)'
    <3>1. PICK l \in Places, i \in Nat : Ticket(o, l, i)
      BY <2>9 DEF Coming
    <3>2. CASE l = "todo" /\ o = x
      <4>1. up \in Seq(Requests)
        BY DEF Typed, TypeOK
      <4>2. /\ Len(up) \in Nat /\ DOMAIN Append(up, r) = 1 .. Len(up) + 1
            /\ Append(up, r)[Len(up) + 1] = r
        BY <4>1, AppendFacts
      <4>3. PICK n \in Nat : n = Len(up) + 1
        BY <4>2
      <4>4. n \in DOMAIN up' /\ up'[n] = Ask("Get", o)
        BY <2>1, <2>2, <2>3, <3>2, <4>2, <4>3
      <4>5. Ticket(o, "up", n)'
        BY <4>4 DEF Ticket, InUp
      <4>6. QED
        BY <4>5 DEF Coming, Places
    <3>3. CASE ~(l = "todo" /\ o = x)
      <4>1. Ticket(o, l, i)'
        BY <1>3, <2>4, <2>5, <3>1, <3>3 DEF Ticket
      <4>2. QED
        BY <4>1 DEF Coming
    <3>4. QED
      BY <3>2, <3>3
  <2>10. QED
    BY <2>7, <2>8, <2>9 DEF NothingNew
<1>5. CASE stage # "get"
  <2>1. PICK r \in Requests : up' = Append(up, r) /\ r.kind # "Get"
    <3>1. x \in ids => x \in Objs
      BY DEF Typed, TypeOK
    <3>2. CASE stage = "query"
      BY <1>2, <3>2, RequestTypes DEF Ask
    <3>3. CASE stage = "watch"
      BY <1>2, <3>1, <3>3, RequestTypes, KeysDiffer DEF Ask
    <3>4. CASE stage = "watch types"
      <4>1. x \in Types /\ up' = Append(up, Ask("Subscribe", ByType(x)))
        BY <1>2, <3>4
      <4>2. Ask("Subscribe", ByType(x)) \in Requests /\ Ask("Subscribe", ByType(x)).kind # "Get"
        BY <4>1, RequestTypes, KeysDiffer DEF Ask
      <4>3. QED
        BY <4>1, <4>2
    <3>5. QED
      BY <1>2, <1>5, <3>2, <3>3, <3>4
  <2>2. r # Ask("Get", o)
    BY <2>1 DEF Ask
  <2>3. \A i : InUp(o, i)' <=> InUp(o, i)
    BY <2>1, <2>2, UpAppend
  <2>4. ~InTodo(o) /\ ~InTodo(o)'
    BY <1>1, <1>5 DEF InTodo
  <2>5. \A l \in Places, i \in Nat : Ticket(o, l, i)' <=> Ticket(o, l, i)
    BY <1>3, <2>3, <2>4 DEF Ticket
  <2>6. OneTicket(o)'
    BY <2>5 DEF OneTicket
  <2>7. Coming(o)' <=> Coming(o)
    BY <2>5 DEF Coming
  <2>8. QED
    BY <2>6, <2>7 DEF NothingNew
<1>6. QED
  BY <1>4, <1>5

(* Nothing is on its way when the client has no request out and nothing is   *)
(* pushed.                                                                   *)
LEMMA NothingOut ==
  ASSUME Typed, Unwatched, NoneOut, NEW o \in Objs
  PROVE  \A l \in Places, i \in Nat : Ticket(o, l, i) => l = "todo" /\ i = 0 /\ InTodo(o)
<1>1. Waiting(ByType(TypeOf[o])) = << >>
  <2>1. ByType(TypeOf[o]) \in SubKeys
    BY KeysDiffer, TreeAssumption
  <2>2. QED
    BY <2>1 DEF Unwatched, Waiting
<1>2. \A i : i \notin DOMAIN << >>
  OBVIOUS
<1>3. \A i : ~InUp(o, i) /\ ~InReply(o) /\ ~InDown(o, i) /\ ~InBatch(o, i) /\ ~InQueue(o, i)
  BY <1>1, <1>2 DEF Unwatched, NoneOut, InUp, InReply, InDown, InBatch, InQueue
<1>4. QED
  BY <1>3 DEF Ticket

LEMMA TicketsStage ==
  ASSUME Typed, Startup, NextStage, NEW o \in Objs, OneTicket(o)
  PROVE  /\ NothingNew(o)
         /\ stage' = "get" => (Coming(o)' <=> o \in ids')
         /\ stage = "get" => ~Coming(o) /\ ~Coming(o)'
<1>1. UNCHANGED <<queues, batch, up, reply, down, ids>> /\ ~waiting /\ todo = {}
  BY DEF NextStage
<1>2. Typed'
  BY TypedNext DEF Next, ClientStep
<1>3. (Unwatched <=> Unwatched') /\ (NoneOut <=> NoneOut')
  BY <1>1 DEF Unwatched, NoneOut
<1>4. \A i : InUp(o, i)' = InUp(o, i) /\ InBatch(o, i)' = InBatch(o, i) /\ InReply(o)' = InReply(o)
             /\ InDown(o, i)' = InDown(o, i) /\ InQueue(o, i)' = InQueue(o, i)
  BY <1>1 DEF InUp, InBatch, InReply, InDown, InQueue, Waiting
<1>5. CASE stage = "query"
  <2>1. stage' = "get" /\ todo' = ids
    BY <1>5 DEF NextStage
  <2>2. Unwatched /\ NoneOut
    BY <1>1, <1>5 DEF Startup
  <2>3. InTodo(o)' <=> o \in ids'
    BY <1>1, <2>1 DEF InTodo
  <2>4. \A l \in Places, i \in Nat : Ticket(o, l, i) => l = "todo" /\ i = 0
    BY <2>2, NothingOut
  <2>5. \A l \in Places, i \in Nat : Ticket(o, l, i)' <=> l = "todo" /\ i = 0 /\ o \in ids'
    BY <1>4, <2>3, <2>4 DEF Ticket
  <2>6. OneTicket(o)' /\ (Coming(o)' <=> o \in ids')
    BY <2>5 DEF OneTicket, Coming, Places
  <2>7. QED
    BY <1>5, <2>6 DEF NothingNew
<1>6. CASE stage # "query"
  <2>1. stage' # "get" /\ ~InTodo(o)'
    BY <1>6 DEF NextStage, InTodo
  <2>2. \A l \in Places, i \in Nat : Ticket(o, l, i)' => Ticket(o, l, i)
    BY <1>4, <2>1 DEF Ticket
  <2>3. OneTicket(o)' /\ (Coming(o)' => Coming(o))
    BY <2>2 DEF OneTicket, Coming
  <2>4. ASSUME stage = "get" PROVE ~Coming(o)
    <3>1. Unwatched /\ NoneOut /\ ~InTodo(o)
      BY <1>1, <2>4 DEF Startup, InTodo
    <3>2. QED
      BY <3>1, NothingOut DEF Coming
  <2>5. QED
    BY <2>1, <2>3, <2>4 DEF NothingNew
<1>7. QED
  BY <1>5, <1>6

LEMMA GetKeeps ==
  ASSUME Typed, Startup, stage = "get", NEW o \in Objs, Coming(o),
         \/ \E x \in Objs : Mount(x) \/ Destroy(x) \/ \E v \in Vals : SetState(x, v)
         \/ ServerStep \/ PushStep
  PROVE  Coming(o)'
<1>1. PICK l \in Places, i \in Nat : Ticket(o, l, i)
  BY DEF Coming
<1>2. Unwatched /\ (NoneOut \/ OneOut("Get", "GetResult"))
  BY DEF Startup
<1>3. ~PushStep
  BY <1>2 DEF PushStep, WriteEvent, DrainOne, Unwatched
<1>4. UNCHANGED <<todo, stage>>
  BY DEF Mount, Destroy, SetState, ServerStep, TakeRequest, WriteReply, PushStep, WriteEvent, DrainOne, clientVars
<1>5. ~InQueue(o, i) /\ ~InBatch(o, i)
  <2>1. Waiting(ByType(TypeOf[o])) = << >>
    <3>1. ByType(TypeOf[o]) \in SubKeys
      BY KeysDiffer, TreeAssumption
    <3>2. QED
      BY <1>2, <3>1 DEF Unwatched, Waiting
  <2>2. i \notin DOMAIN << >>
    OBVIOUS
  <2>3. QED
    BY <1>2, <2>1, <2>2 DEF InQueue, InBatch, Unwatched
<1>6. CASE InTodo(o)
  <2>1. InTodo(o)'
    BY <1>4, <1>6 DEF InTodo
  <2>2. Ticket(o, "todo", 0)'
    BY <2>1 DEF Ticket
  <2>3. QED
    BY <2>2 DEF Coming, Places
<1>7. ASSUME UNCHANGED <<up, reply, down>> PROVE Coming(o)'
  <2>1. CASE ~InTodo(o)
    <3>1. Ticket(o, l, i)'
      BY <1>1, <1>5, <1>7, <2>1 DEF Ticket, InUp, InReply, InDown
    <3>2. QED
      BY <3>1 DEF Coming
  <2>2. QED
    BY <1>6, <2>1
<1>8. CASE TakeRequest /\ ~InTodo(o)
  <2>1. up # << >> /\ reply = Null /\ reply' = Answer(Head(up))
    BY <1>8 DEF TakeRequest
  <2>2. Tail(up) = << >> /\ down = << >>
    BY <1>2, <2>1 DEF NoneOut, OneOut
  <2>3. up \in Seq(Requests) /\ TypeOK
    BY DEF Typed, TypeOK
  <2>4. PICK r \in Requests : r = Head(up)
    BY <2>1, <2>3, TailFacts
  <2>5. InUp(o, i)
    <3>1. i \notin DOMAIN << >>
      OBVIOUS
    <3>2. QED
      BY <1>1, <1>5, <1>8, <2>1, <2>2, <3>1 DEF Ticket, InReply, InDown
  <2>6. up[i] = r
    <3>1. up = <<r>>
      BY <2>1, <2>2, <2>3, <2>4, SingleFacts
    <3>2. QED
      BY <2>5, <3>1 DEF InUp
  <2>7. r = Ask("Get", o)
    BY <2>5, <2>6 DEF InUp
  <2>8. reply' # Null /\ reply'.kind = "GetResult" /\ reply'.of = o
    BY <2>1, <2>3, <2>4, <2>7, AnswerFacts DEF Ask
  <2>9. Ticket(o, "reply", 0)'
    BY <2>8 DEF Ticket, InReply, Carries
  <2>10. QED
    BY <2>9 DEF Coming, Places
<1>9. CASE WriteReply /\ ~InTodo(o)
  <2>1. reply # Null /\ down' = Append(down, reply)
    BY <1>9 DEF WriteReply
  <2>2. up = << >> /\ down = << >>
    BY <1>2, <2>1 DEF NoneOut, OneOut
  <2>3. InReply(o)
    <3>1. i \notin DOMAIN << >>
      OBVIOUS
    <3>2. QED
      BY <1>1, <1>5, <1>9, <2>2, <3>1 DEF Ticket, InUp, InDown
  <2>4. down' = <<reply>>
    BY <2>1, <2>2
  <2>5. InDown(o, 1)'
    BY <2>3, <2>4 DEF InDown, InReply
  <2>6. Ticket(o, "down", 1)'
    BY <2>5 DEF Ticket
  <2>7. QED
    BY <2>6 DEF Coming, Places
<1>10. CASE \E x \in Objs : Mount(x) \/ Destroy(x) \/ \E v \in Vals : SetState(x, v)
  <2>1. UNCHANGED <<up, reply, down>>
    BY <1>10 DEF Mount, Destroy, SetState
  <2>2. QED
    BY <1>7, <2>1
<1>11. QED
  BY <1>3, <1>6, <1>8, <1>9, <1>10 DEF ServerStep

LEMMA TicketsNext ==
  ASSUME Typed, Startup, Addressed, [Next]_vars,
         NEW o \in Objs, OneTicket(o), NotYet(o) => ~Coming(o)
  PROVE  NothingNew(o)
<1>1. CASE UNCHANGED vars
  <2>1. \A l \in Places, i \in Nat : Ticket(o, l, i)' <=> Ticket(o, l, i)
    BY <1>1 DEF Ticket, InTodo, InUp, InReply, InDown, InBatch, InQueue, Waiting, vars, clientVars
  <2>2. QED
    BY <2>1 DEF NothingNew, OneTicket, Coming
<1>2. QED
  BY <1>1, TicketsOthers, TicketsTake, TicketsReply, TicketsEvent, TicketsDrain, TicketsFrame,
     TicketsAsk, TicketsStage
  DEF Next, ServerStep, PushStep, ClientStep, TakesFrame

-----------------------------------------------------------------------------
(* What is pushed is addressed.                                              *)
LEMMA WaitingTypes ==
  ASSUME Typed, NEW k \in SubKeys
  PROVE  /\ Waiting(k) \in Seq(Events)
         /\ \A i \in DOMAIN Waiting(k) : Waiting(k)[i] \in Events
<1>1. queues \in [SubKeys -> Seq(Events) \cup {Null}]
  BY DEF Typed, TypeOK
<1>2. << >> \in Seq(Events)
  OBVIOUS
<1>3. Waiting(k) \in Seq(Events)
  BY <1>1, <1>2 DEF Waiting
<1>4. \A s \in Seq(Events) : \A i \in DOMAIN s : s[i] \in Events
  OBVIOUS
<1>5. QED
  BY <1>3, <1>4

(* What a published event adds to a queue.                                   *)
LEMMA PublishAdds ==
  ASSUME Typed, NEW event \in Events, Publish(event), NEW k \in SubKeys
  PROVE  /\ \/ Waiting(k)' = Waiting(k)
            \/ queues[k] # Null /\ Hears(k, event) /\ Waiting(k)' = Append(Waiting(k), event)
         /\ queues[k] # Null /\ Hears(k, event) => Waiting(k)' = Append(Waiting(k), event)
         /\ queues'[k] = Null <=> queues[k] = Null
<1>1. queues \in [SubKeys -> Seq(Events) \cup {Null}]
  BY DEF Typed, TypeOK
<1>2. /\ queues'[k] = Null <=> queues[k] = Null
      /\ queues[k] # Null /\ Hears(k, event) => queues'[k] = Append(queues[k], event)
      /\ ~Hears(k, event) => queues'[k] = queues[k]
  BY <1>1, PublishFacts
<1>3. CASE queues[k] # Null /\ Hears(k, event)
  <2>1. Waiting(k) = queues[k] /\ Waiting(k)' = Append(queues[k], event)
    BY <1>2, <1>3 DEF Waiting
  <2>2. QED
    BY <1>2, <1>3, <2>1
<1>4. CASE ~(queues[k] # Null /\ Hears(k, event))
  BY <1>2, <1>4 DEF Waiting
<1>5. QED
  BY <1>3, <1>4

LEMMA AddressedNext ==
  ASSUME Typed, Addressed, [Next]_vars, \A o \in Objs : NotYet(o) => ~Watched(o)
  PROVE  Addressed'
<1> DEFINE Frames1(s) == \A i \in DOMAIN s : s[i].kind = "Event" => s[i].of = s[i].body.id
           Here(k, e) == /\ e.kind = "Created" => k = ByType(TypeOf[e.id])
                         /\ e.kind = "StateSet" => k = ById(e.id)
<1>1. down \in Seq(Frames) /\ batch \in Seq(Events)
  BY DEF Typed, TypeOK
<1>2. ASSUME Frames1(down)', \A k \in SubKeys : \A i \in DOMAIN Waiting(k)' : Here(k, Waiting(k)'[i])
      PROVE  Addressed'
  BY <1>2 DEF Addressed
<1>3. Frames1(down) /\ \A k \in SubKeys : \A i \in DOMAIN Waiting(k) : Here(k, Waiting(k)[i])
  BY DEF Addressed
<1>4. CASE \E x \in Objs : Mount(x) \/ Destroy(x) \/ \E v \in Vals : SetState(x, v)
  <2>1. PICK x \in Objs : Mount(x) \/ Destroy(x) \/ \E v \in Vals : SetState(x, v)
    BY <1>4
  <2>2. PICK event \in Events :
          /\ Publish(event) /\ event.id = x
          /\ event.kind = "Created" => NotYet(x)
    BY <2>1, EventTypes DEF Mount, Destroy, SetState, Lifecycle, Changed, NotYet
  <2>3. ASSUME NEW k \in SubKeys, NEW i \in DOMAIN Waiting(k)'
        PROVE  Here(k, Waiting(k)'[i])
    <3>1. CASE Waiting(k)' = Waiting(k)
      BY <1>3, <2>3, <3>1
    <3>2. CASE queues[k] # Null /\ Hears(k, event) /\ Waiting(k)' = Append(Waiting(k), event)
      <4>1. Here(k, event)
        BY <2>2, <3>2 DEF Hears, Watched
      <4>2. Waiting(k) \in Seq(Events)
        BY WaitingTypes
      <4>3. /\ Append(Waiting(k), event)[Len(Waiting(k)) + 1] = event
            /\ \A j \in DOMAIN Waiting(k) : Append(Waiting(k), event)[j] = Waiting(k)[j]
            /\ \A j \in DOMAIN Append(Waiting(k), event) : j = Len(Waiting(k)) + 1 \/ j \in DOMAIN Waiting(k)
        BY <4>2, AppendFacts
      <4>4. QED
        BY <1>3, <2>3, <3>2, <4>1, <4>3
    <3>3. QED
      BY <2>2, <3>1, <3>2, PublishAdds
  <2>4. down' = down
    BY <2>1 DEF Mount, Destroy, SetState
  <2>5. QED
    BY <1>2, <1>3, <2>3, <2>4
<1>5. CASE TakeRequest \/ \E k \in SubKeys : DrainOne(k)
  <2>1. down' = down
    BY <1>5 DEF TakeRequest, DrainOne
  <2>2. ASSUME NEW k \in SubKeys PROVE queues'[k] = queues[k] \/ queues'[k] = << >>
    BY <1>5, <2>2 DEF TakeRequest, DrainOne, Typed, TypeOK
  <2>3. \A k \in SubKeys : Waiting(k)' = Waiting(k) \/ Waiting(k)' = << >>
    BY <2>2 DEF Waiting
  <2>4. \A i : i \notin DOMAIN << >>
    OBVIOUS
  <2>5. QED
    BY <1>2, <1>3, <2>1, <2>3, <2>4
<1>6. ASSUME queues' = queues, Frames1(down)' PROVE Addressed'
  <2>1. \A k \in SubKeys : Waiting(k)' = Waiting(k)
    BY <1>6 DEF Waiting
  <2>2. QED
    BY <1>2, <1>3, <1>6, <2>1
<1>7. ASSUME NEW f \in Frames, down' = Append(down, f), f.kind = "Event" => f.of = f.body.id
      PROVE  Frames1(down)'
  <2>1. /\ Append(down, f)[Len(down) + 1] = f
        /\ \A j \in DOMAIN down : Append(down, f)[j] = down[j]
        /\ \A j \in DOMAIN Append(down, f) : j = Len(down) + 1 \/ j \in DOMAIN down
    BY <1>1, AppendFacts
  <2>2. QED
    BY <1>3, <1>7, <2>1
<1>8. CASE WriteReply
  <2>1. reply # Null /\ down' = Append(down, reply) /\ queues' = queues
    BY <1>8 DEF WriteReply
  <2>2. reply \in Answers
    BY <2>1 DEF Typed, TypeOK
  <2>3. reply \in Frames /\ reply.kind # "Event"
    BY <2>2, FrameTypes
  <2>4. QED
    BY <1>6, <1>7, <2>1, <2>3
<1>9. CASE WriteEvent
  <2>1. batch # << >> /\ down' = Append(down, Frame("Event", Head(batch).id, Head(batch))) /\ queues' = queues
    BY <1>9 DEF WriteEvent
  <2>2. Head(batch) \in Events
    BY <1>1, <2>1, TailFacts
  <2>3. PICK f \in Frames : f = Frame("Event", Head(batch).id, Head(batch))
    BY <2>2, EventTypes
  <2>4. f.of = f.body.id
    BY <2>3 DEF Frame
  <2>5. QED
    BY <1>6, <1>7, <2>1, <2>3, <2>4
<1>10. CASE TakesFrame
  <2>1. down # << >> /\ down' = Tail(down) /\ queues' = queues
    BY <1>10, FrameTaken
  <2>2. \A i \in DOMAIN Tail(down) : i + 1 \in DOMAIN down /\ Tail(down)[i] = down[i + 1]
    BY <1>1, <2>1, TailFacts
  <2>3. Frames1(down)'
    BY <1>3, <2>1, <2>2
  <2>4. QED
    BY <1>6, <2>1, <2>3
<1>11. CASE AskNext \/ NextStage \/ UNCHANGED vars
  <2>1. UNCHANGED <<queues, down>>
    BY <1>11 DEF AskNext, NextStage, vars
  <2>2. QED
    BY <1>3, <1>6, <2>1
<1>12. QED
  BY <1>4, <1>5, <1>8, <1>9, <1>10, <1>11 DEF Next, ServerStep, PushStep, ClientStep, TakesFrame

-----------------------------------------------------------------------------
(* The subscription to an object: asked for when the object is in the list,  *)
(* or when its GetResult is handled, and in place when the request is taken. *)
AskedFor(o, i) ==
  /\ i = Len(up) + 1
  /\ \/ stage = "watch" /\ stage' = "watch" /\ o \in todo /\ o \notin todo'
     \/ stage = "loop" /\ Coming(o) /\ ~Coming(o)' /\ mirror'[o] # Null

WatchStep(o) ==
  \/ /\ \A i \in Nat : InAsked(o, i)' => InAsked(o, i) \/ AskedFor(o, i)
     /\ Watched(o)' => Watched(o)
  \/ /\ \A i \in Nat : InAsked(o, i)' => i > 0 /\ InAsked(o, i + 1)
     /\ Watched(o)' => Watched(o) \/ InAsked(o, 1)

LEMMA WatchSteps ==
  ASSUME Typed, Startup, Addressed, [Next]_vars, NEW o \in Objs, OneTicket(o)
  PROVE  WatchStep(o) /\ (Watched(o) => Watched(o)')
<1>1. up \in Seq(Requests) /\ queues \in [SubKeys -> Seq(Events) \cup {Null}]
  BY DEF Typed, TypeOK
<1>2. PICK k \in SubKeys : k = ById(o)
  BY KeysDiffer
<1>3. << >> # Null
  <2>1. << >> \in Seq(Events)
    OBVIOUS
  <2>2. QED
    BY <2>1, NullAssumption
<1>4. ASSUME UNCHANGED up PROVE \A i : InAsked(o, i)' = InAsked(o, i)
  BY <1>4 DEF InAsked
<1>5. ASSUME UNCHANGED queues PROVE Watched(o)' = Watched(o)
  BY <1>5 DEF Watched
<1>6. CASE \E x \in Objs : Mount(x) \/ Destroy(x) \/ \E v \in Vals : SetState(x, v)
  <2>1. UNCHANGED up /\ \E event \in Events : Publish(event)
    BY <1>6, EventTypes DEF Mount, Destroy, SetState
  <2>2. queues'[k] = Null <=> queues[k] = Null
    BY <1>1, <2>1, PublishFacts
  <2>3. QED
    BY <1>2, <1>4, <2>1, <2>2 DEF WatchStep, Watched
<1>7. CASE TakeRequest
  <2>1. /\ up # << >> /\ up' = Tail(up)
        /\ \/ Head(up).kind = "Subscribe" /\ queues' = [queues EXCEPT ![Head(up).of] = << >>]
           \/ queues' = queues
    BY <1>7 DEF TakeRequest
  <2>2. PICK r \in Requests : r = Head(up) /\ r = up[1] /\ 1 \in DOMAIN up
    BY <1>1, <2>1, TailFacts
  <2>3. \A i \in Nat : InAsked(o, i)' => i > 0 /\ InAsked(o, i + 1)
    <3>1. \A i \in Nat : InAsked(o, i)' => InAsked(o, i + 1)
      BY <2>1, UpTail
    <3>2. \A i \in DOMAIN Tail(up) : i > 0
      BY <1>1, <2>1, TailFacts
    <3>3. QED
      BY <2>1, <3>1, <3>2 DEF InAsked
  <2>4. Watched(o)' => Watched(o) \/ InAsked(o, 1)
    <3>1. CASE r.kind = "Subscribe" /\ r.of = k
      <4>1. r = Ask("Subscribe", k)
        BY <3>1, RequestForms
      <4>2. InAsked(o, 1)
        BY <1>2, <2>2, <4>1 DEF InAsked
      <4>3. QED
        BY <4>2
    <3>2. CASE ~(r.kind = "Subscribe" /\ r.of = k)
      <4>1. queues'[k] = queues[k]
        BY <1>1, <2>1, <2>2, <3>2, RequestTypes
      <4>2. QED
        BY <1>2, <4>1 DEF Watched
    <3>3. QED
      BY <3>1, <3>2
  <2>5. Watched(o) => Watched(o)'
    <3>1. queues'[k] = queues[k] \/ queues'[k] = << >>
      BY <1>1, <2>1, <2>2, RequestTypes
    <3>2. QED
      BY <1>2, <1>3, <3>1 DEF Watched
  <2>6. QED
    BY <2>3, <2>4, <2>5 DEF WatchStep
<1>8. CASE \E m \in SubKeys : DrainOne(m)
  <2>1. PICK m \in SubKeys : DrainOne(m)
    BY <1>8
  <2>2. UNCHANGED up /\ queues[m] # Null /\ queues' = [queues EXCEPT ![m] = << >>]
    BY <2>1 DEF DrainOne
  <2>3. queues'[k] = Null <=> queues[k] = Null
    BY <1>1, <1>3, <2>2
  <2>4. QED
    BY <1>2, <1>4, <2>2, <2>3 DEF WatchStep, Watched
<1>9. CASE WriteReply \/ WriteEvent \/ NextStage \/ UNCHANGED vars
  <2>1. UNCHANGED <<up, queues>>
    BY <1>9 DEF WriteReply, WriteEvent, NextStage, vars
  <2>2. QED
    BY <1>4, <1>5, <2>1 DEF WatchStep
<1>10. CASE AskNext
  <2>1. UNCHANGED <<queues, stage>>
    BY <1>10 DEF AskNext
  <2>2. PICK x \in todo :
          /\ todo' = todo \ {x}
          /\ \/ stage = "query" /\ x \in Types /\ up' = Append(up, Ask("Query", x))
             \/ stage = "get" /\ x \in ids /\ up' = Append(up, Ask("Get", x))
             \/ stage = "watch" /\ x \in ids /\ up' = Append(up, Ask("Subscribe", ById(x)))
             \/ stage = "watch types" /\ x \in Types /\ up' = Append(up, Ask("Subscribe", ByType(x)))
    BY <1>10, AskFacts
  <2>3. ids \subseteq Objs
    BY DEF Typed, TypeOK
  <2>4. ASSUME NEW i \in Nat, InAsked(o, i)' PROVE InAsked(o, i) \/ AskedFor(o, i)
    <3>1. CASE stage = "watch"
      <4>1. PICK r \in Requests : r = Ask("Subscribe", ById(x))
        BY <2>2, <2>3, <3>1, RequestTypes, KeysDiffer
      <4>2. InAsked(o, i) \/ (i = Len(up) + 1 /\ r = Ask("Subscribe", ById(o)))
        BY <2>2, <2>4, <3>1, <4>1, UpAppend
      <4>3. r = Ask("Subscribe", ById(o)) => x = o
        BY <2>2, <2>3, <3>1, <4>1, KeysDiffer DEF Ask
      <4>4. QED
        BY <2>1, <2>2, <3>1, <4>2, <4>3 DEF AskedFor
    <3>2. CASE stage # "watch"
      <4>1. PICK r \in Requests : up' = Append(up, r) /\ r # Ask("Subscribe", ById(o))
        <5>1. CASE stage = "query"
          BY <2>2, <5>1, RequestTypes DEF Ask
        <5>2. CASE stage = "get"
          BY <2>2, <2>3, <5>2, RequestTypes DEF Ask
        <5>3. CASE stage = "watch types"
          <6>1. x \in Types /\ up' = Append(up, Ask("Subscribe", ByType(x)))
            BY <2>2, <5>3
          <6>2. Ask("Subscribe", ByType(x)) \in Requests
            BY <6>1, RequestTypes, KeysDiffer
          <6>3. Ask("Subscribe", ByType(x)) # Ask("Subscribe", ById(o))
            BY <6>1, KeysDiffer DEF Ask
          <6>4. QED
            BY <6>1, <6>2, <6>3
        <5>4. QED
          BY <2>2, <3>2, <5>1, <5>2, <5>3
      <4>2. QED
        BY <2>4, <4>1, UpAppend
    <3>3. QED
      BY <3>1, <3>2
  <2>5. QED
    BY <1>5, <2>1, <2>4 DEF WatchStep
<1>11. CASE TakesFrame
  <2>1. UNCHANGED queues /\ Head(down) \in Frames
    BY <1>11, FrameTaken
  <2>2. ASSUME NEW i \in Nat, InAsked(o, i)' PROVE InAsked(o, i) \/ AskedFor(o, i)
    <3>1. CASE ReadFrame
      BY <1>4, <2>2, <3>1, ReadCases
    <3>2. CASE ~ReadFrame
      <4>1. stage = "loop" /\ (Head(down).kind \in {"Event", "GetResult"} => Head(down).of \in Objs)
        BY <1>11, <2>1, <3>2, HandleCases, FrameTypes
      <4>2. CASE UNCHANGED up
        BY <1>4, <2>2, <4>2
      <4>3. CASE Head(down).kind = "Event" /\ up' = Append(up, Ask("Get", Head(down).of))
        <5>1. PICK r \in Requests : r = Ask("Get", Head(down).of)
          BY <4>1, <4>3, RequestTypes
        <5>2. r # Ask("Subscribe", ById(o))
          BY <5>1 DEF Ask
        <5>3. QED
          BY <2>2, <4>3, <5>1, <5>2, UpAppend
      <4>4. CASE /\ Head(down).kind = "GetResult" /\ up' = Append(up, Ask("Subscribe", ById(Head(down).of)))
                 /\ Upsert(Head(down).of, Head(down).body)
        <5>1. PICK x \in Objs, obj \in Bodies : x = Head(down).of /\ obj = Head(down).body
          BY <2>1, <4>1, <4>4, FrameTypes
        <5>2. PICK r \in Requests : r = Ask("Subscribe", ById(x))
          BY RequestTypes, KeysDiffer
        <5>3. InAsked(o, i) \/ (i = Len(up) + 1 /\ r = Ask("Subscribe", ById(o)))
          BY <2>2, <4>4, <5>1, <5>2, UpAppend
        <5>4. r = Ask("Subscribe", ById(o)) => x = o
          BY <5>2, KeysDiffer DEF Ask
        <5>5. x = o => Coming(o) /\ ~Coming(o)' /\ mirror'[o] # Null
          <6>1. Upsert(x, obj)
            BY <4>4, <5>1
          <6>2. mirror'[x] # Null
            BY <6>1, UpsertFacts DEF Typed, TypeOK
          <6>3. QED
            BY <1>11, <4>4, <5>1, <6>2, TicketsFrame DEF Carries
        <5>6. QED
          BY <4>1, <5>3, <5>4, <5>5 DEF AskedFor
      <4>5. QED
        BY <1>11, <3>2, <4>2, <4>3, <4>4, HandleCases
    <3>3. QED
      BY <3>1, <3>2
  <2>3. QED
    BY <1>5, <2>1, <2>2 DEF WatchStep
<1>12. QED
  BY <1>6, <1>7, <1>8, <1>9, <1>10, <1>11 DEF Next, ServerStep, PushStep, ClientStep, TakesFrame

-----------------------------------------------------------------------------
(* The mirror gains an object only from its GetResult; an object leaves it   *)
(* only with its Destroyed event.                                            *)
MirrorStep(o) == mirror'[o] # Null => mirror[o] # Null \/ (Coming(o) /\ ~Coming(o)')

Fills == /\ TakesFrame /\ Head(down).kind = "GetResult" /\ Head(down).of \in Objs
         /\ Head(down).body \in Bodies /\ Upsert(Head(down).of, Head(down).body)
Drops == /\ TakesFrame /\ Head(down).kind = "Event" /\ Head(down).body.kind = "Destroyed"
         /\ Head(down).of \in Objs /\ Remove(Head(down).of) /\ stage = "loop"
Revalues == /\ TakesFrame /\ Head(down).kind = "Event" /\ Head(down).body.kind = "StateSet"
            /\ Head(down).of \in Objs /\ Head(down).body.val \in Vals
            /\ SetInMirror(Head(down).of, Head(down).body.val) /\ stage = "loop"

LEMMA TreeSteps ==
  ASSUME Typed, [Next]_vars
  PROVE  \/ UNCHANGED treeVars
         \/ Fills \/ Drops \/ Revalues
<1>1. CASE TakesFrame
  <2>1. Head(down) \in Frames
    BY <1>1, FrameTaken
  <2>2. /\ Head(down).kind = "GetResult" => Head(down).of \in Objs /\ Head(down).body \in Bodies
        /\ Head(down).kind = "Event" => Head(down).of \in Objs /\ Head(down).body \in Events
    BY <2>1, FrameTypes
  <2>3. Head(down).kind = "Event" /\ Head(down).body.kind = "StateSet" => Head(down).body.val \in Vals
    BY <2>2, EventTypes
  <2>4. QED
    BY <1>1, <2>2, <2>3, ReadCases, HandleCases DEF Fills, Drops, Revalues
<1>2. CASE ~TakesFrame
  BY <1>2 DEF Next, ServerStep, PushStep, ClientStep, TakesFrame, Mount, Destroy, SetState, TakeRequest,
     WriteReply, WriteEvent, DrainOne, AskNext, NextStage, vars, clientVars
<1>3. QED
  BY <1>1, <1>2

LEMMA MirrorSteps ==
  ASSUME Typed, Startup, Addressed, [Next]_vars, NEW o \in Objs, OneTicket(o)
  PROVE  MirrorStep(o)
<1>1. mirror \in [Objs -> Bodies \cup {Null}] /\ roots \subseteq Objs /\ orphans \in [Objs -> SUBSET Objs]
  BY DEF Typed, TypeOK
<1>2. CASE UNCHANGED treeVars
  BY <1>2 DEF MirrorStep, treeVars
<1>3. CASE Fills
  <2>1. PICK x \in Objs, obj \in Bodies : x = Head(down).of /\ obj = Head(down).body
    BY <1>3 DEF Fills
  <2>2. Upsert(x, obj)
    BY <1>3, <2>1 DEF Fills
  <2>3. x # o => (mirror'[o] = Null <=> mirror[o] = Null)
    BY <1>1, <2>2, UpsertFacts
  <2>4. x = o => Coming(o) /\ ~Coming(o)'
    BY <1>3, <2>1, TicketsFrame DEF Fills, Carries
  <2>5. QED
    BY <2>3, <2>4 DEF MirrorStep
<1>4. CASE Drops
  <2>1. PICK x \in Objs : x = Head(down).of
    BY <1>4 DEF Drops
  <2>2. Remove(x)
    BY <1>4, <2>1 DEF Drops
  <2>3. QED
    BY <1>1, <2>2, RemoveFacts DEF MirrorStep
<1>5. CASE Revalues
  <2>1. PICK x \in Objs, v \in Vals : x = Head(down).of /\ v = Head(down).body.val
    BY <1>5 DEF Revalues
  <2>2. SetInMirror(x, v)
    BY <1>5, <2>1 DEF Revalues
  <2>3. QED
    BY <1>1, <2>2, SetFacts DEF MirrorStep
<1>6. QED
  BY <1>2, <1>3, <1>4, <1>5, TreeSteps

(* How the stages follow each other.                                         *)
LEMMA StageSteps ==
  ASSUME Typed, Startup, [Next]_vars
  PROVE  /\ stage # "query" => UNCHANGED ids
         /\ \/ UNCHANGED stage
            \/ NextStage
         /\ UNCHANGED stage => todo' \subseteq todo
         /\ stage' = "query" => stage = "query"
<1>1. CASE TakesFrame
  <2>1. UNCHANGED todo
    BY <1>1, FrameTaken
  <2>2. CASE ~ReadFrame
    BY <1>1, <2>1, <2>2, HandleCases
  <2>3. CASE ReadFrame
    <3>1. waiting /\ down # << >>
      BY <1>1, <2>3, ReadCases, FrameTaken
    <3>2. /\ stage = "query" => Head(down).kind = "QueryResult"
          /\ stage = "get" => Head(down).kind = "GetResult"
          /\ stage \in {"query", "get", "watch", "watch types"}
      BY <3>1 DEF Startup, OneOut, Typed, TypeOK, Stages
    <3>3. QED
      BY <2>1, <2>3, <3>2, ReadCases
  <2>4. QED
    BY <2>2, <2>3
<1>2. CASE NextStage
  BY <1>2 DEF NextStage
<1>3. CASE ~TakesFrame /\ ~NextStage
  <2>1. UNCHANGED <<ids, stage>>
    BY <1>3 DEF Next, ServerStep, PushStep, ClientStep, TakesFrame, Mount, Destroy, SetState, TakeRequest,
       WriteReply, WriteEvent, DrainOne, AskNext, vars, clientVars
  <2>2. todo' \subseteq todo
    BY <1>3 DEF Next, ServerStep, PushStep, ClientStep, TakesFrame, Mount, Destroy, SetState, TakeRequest,
       WriteReply, WriteEvent, DrainOne, AskNext, vars, clientVars
  <2>3. QED
    BY <2>1, <2>2
<1>4. QED
  BY <1>1, <1>2, <1>3

(* Of an object that is not mounted the client knows nothing: no query       *)
(* result names it, and nothing of it is on its way.                         *)
Reported(o) ==
  \/ reply # Null /\ reply.kind = "QueryResult" /\ o \in reply.body
  \/ \E i \in DOMAIN down : down[i].kind = "QueryResult" /\ o \in down[i].body

Unknown(o) ==
  NotYet(o) => /\ o \notin ids /\ ~Reported(o)
               /\ ~Coming(o) /\ ~AskedToWatch(o) /\ ~Watched(o) /\ mirror[o] = Null

LEMMA ReportedSteps ==
  ASSUME Typed, [Next]_vars, NEW o \in Objs
  PROVE  /\ Reported(o)' => Reported(o) \/ ~NotYet(o)
         /\ o \in ids' => o \in ids \/ Reported(o)
         /\ NotYet(o)' => NotYet(o)
<1>1. /\ up \in Seq(Requests) /\ down \in Seq(Frames) /\ reply \in Answers \cup {Null} /\ TypeOK
  BY DEF Typed, TypeOK
<1>2. NotYet(o)' => NotYet(o)
  BY DEF Next, ServerStep, PushStep, ClientStep, Mount, Destroy, SetState, TakeRequest,
     WriteReply, WriteEvent, DrainOne, AskNext, NextStage, ReadFrame, HandleCreated, HandleDestroyed, HandleStateSet,
     HandleGetResult, HandleOther, Handle, vars, serverVars, NotYet, Typed, TypeOK
<1>3. CASE TakesFrame
  <2>1. down # << >> /\ down' = Tail(down) /\ UNCHANGED reply
    BY <1>3, FrameTaken
  <2>2. /\ \A i \in DOMAIN Tail(down) : i + 1 \in DOMAIN down /\ Tail(down)[i] = down[i + 1]
        /\ 1 \in DOMAIN down /\ Head(down) = down[1]
    BY <1>1, <2>1, TailFacts
  <2>3. Reported(o)' => Reported(o)
    BY <2>1, <2>2 DEF Reported
  <2>4. ids' = ids \/ (Head(down).kind = "QueryResult" /\ ids' = ids \cup Head(down).body)
    BY <1>3, ReadCases, HandleCases
  <2>5. o \in ids' => o \in ids \/ Reported(o)
    BY <2>2, <2>4 DEF Reported
  <2>6. QED
    BY <1>2, <2>3, <2>5
<1>4. CASE ~TakesFrame
  <2>1. ids' = ids
    BY <1>4 DEF Next, ServerStep, PushStep, ClientStep, TakesFrame, Mount, Destroy, SetState, TakeRequest,
       WriteReply, WriteEvent, DrainOne, AskNext, NextStage, vars, clientVars
  <2>2. CASE UNCHANGED <<reply, down>>
    BY <1>2, <2>1, <2>2 DEF Reported
  <2>3. CASE TakeRequest
    <3>1. up # << >> /\ reply' = Answer(Head(up)) /\ UNCHANGED <<down, life>>
      BY <2>3 DEF TakeRequest, serverVars
    <3>2. PICK r \in Requests : r = Head(up)
      BY <1>1, <3>1, TailFacts
    <3>3. /\ Answer(r).kind = "QueryResult" => r.kind = "Query"
          /\ r.kind = "Query" => \A x \in Answer(r).body : life[x] = "live"
      BY <1>1, AnswerFacts, RequestTypes
    <3>4. Reported(o)' => Reported(o) \/ ~NotYet(o)
      BY <3>1, <3>2, <3>3 DEF Reported, NotYet
    <3>5. QED
      BY <1>2, <2>1, <3>4
  <2>4. ASSUME NEW f \in Frames, down' = Append(down, f), reply' = Null \/ reply' = reply,
               f.kind = "QueryResult" => f = reply /\ reply # Null
        PROVE  Reported(o)' => Reported(o)
    <3>1. /\ Append(down, f)[Len(down) + 1] = f
          /\ \A j \in DOMAIN down : Append(down, f)[j] = down[j]
          /\ \A j \in DOMAIN Append(down, f) : j = Len(down) + 1 \/ j \in DOMAIN down
      BY <1>1, AppendFacts
    <3>2. QED
      BY <2>4, <3>1 DEF Reported
  <2>5. CASE WriteReply
    <3>1. reply # Null /\ down' = Append(down, reply) /\ reply' = Null
      BY <2>5 DEF WriteReply
    <3>2. reply \in Frames
      BY <1>1, <3>1, FrameTypes
    <3>3. QED
      BY <1>2, <2>1, <2>4, <3>1, <3>2
  <2>6. CASE WriteEvent
    <3>1. batch # << >> /\ down' = Append(down, Frame("Event", Head(batch).id, Head(batch))) /\ reply' = reply
      BY <2>6 DEF WriteEvent
    <3>2. batch \in Seq(Events)
      BY DEF Typed, TypeOK
    <3>3. Head(batch) \in Events
      BY <3>1, <3>2, TailFacts
    <3>4. PICK f \in Frames : f = Frame("Event", Head(batch).id, Head(batch))
      BY <3>3, EventTypes
    <3>5. f.kind # "QueryResult"
      BY <3>4 DEF Frame
    <3>6. QED
      BY <1>2, <2>1, <2>4, <3>1, <3>4, <3>5
  <2>7. CASE ~TakeRequest /\ ~WriteReply /\ ~WriteEvent
    <3>1. UNCHANGED <<reply, down>>
      BY <1>4, <2>7 DEF Next, ServerStep, PushStep, ClientStep, TakesFrame, Mount, Destroy, SetState,
         DrainOne, AskNext, NextStage, vars
    <3>2. QED
      BY <2>2, <3>1
  <2>8. QED
    BY <2>3, <2>5, <2>6, <2>7
<1>5. QED
  BY <1>3, <1>4

(* An object is taken into the mirror once and subscribed to once: what is   *)
(* on its way is one thing, and while it is there is no subscription.        *)
Once(o) ==
  /\ OneTicket(o)
  /\ Coming(o) => ~AskedToWatch(o) /\ ~Watched(o) /\ mirror[o] = Null
  /\ stage \in {"watch", "watch types", "loop"} /\ o \in ids => ~Coming(o)
  /\ stage = "watch" /\ o \in todo => ~AskedToWatch(o) /\ ~Watched(o)
  /\ \A i, j \in Nat : InAsked(o, i) /\ InAsked(o, j) => i = j
  /\ AskedToWatch(o) => ~Watched(o)

LEMMA NotWatchedEarly ==
  ASSUME Typed, Startup, stage \in {"query", "get"}, NEW o \in Objs
  PROVE  ~AskedToWatch(o) /\ ~Watched(o)
<1>1. Unwatched /\ (NoneOut \/ OneOut("Query", "QueryResult") \/ OneOut("Get", "GetResult"))
  BY DEF Startup
<1>2. up = << >> \/ (up # << >> /\ Tail(up) = << >> /\ Head(up).kind \in {"Query", "Get"})
  BY <1>1 DEF NoneOut, OneOut
<1>3. up \in Seq(Requests)
  BY DEF Typed, TypeOK
<1>4. ASSUME NEW i \in Nat, InAsked(o, i) PROVE FALSE
  <2>1. up # << >>
    <3>1. i \notin DOMAIN << >>
      OBVIOUS
    <3>2. QED
      BY <1>4, <3>1 DEF InAsked
  <2>2. up = <<Head(up)>>
    BY <1>2, <1>3, <2>1, SingleFacts
  <2>3. up[i] = Head(up)
    BY <1>4, <2>2 DEF InAsked
  <2>4. QED
    BY <1>2, <1>4, <2>1, <2>3 DEF InAsked, Ask
<1>5. ~Watched(o)
  BY <1>1, KeysDiffer DEF Unwatched, Watched
<1>6. QED
  BY <1>4, <1>5 DEF AskedToWatch

LEMMA UnknownNext ==
  ASSUME Typed, Startup, Addressed, [Next]_vars, NEW o \in Objs, Once(o), Unknown(o)
  PROVE  Unknown(o)'
<1> SUFFICES ASSUME NotYet(o)'
             PROVE  /\ o \notin ids' /\ ~Reported(o)' /\ ~Coming(o)' /\ ~AskedToWatch(o)' /\ ~Watched(o)'
                    /\ mirror'[o] = Null
  BY DEF Unknown
<1>1. NotYet(o) /\ o \notin ids' /\ ~Reported(o)'
  BY ReportedSteps DEF Unknown
<1>2. /\ o \notin ids /\ ~Coming(o) /\ ~AskedToWatch(o) /\ ~Watched(o) /\ mirror[o] = Null
  BY <1>1 DEF Unknown
<1>3. ~Coming(o)'
  BY <1>1, <1>2, TicketsNext DEF NothingNew, Once
<1>4. mirror'[o] = Null
  BY <1>2, MirrorSteps DEF MirrorStep, Once
<1>5. o \notin todo \/ stage # "watch"
  BY <1>2 DEF Typed
<1>6. WatchStep(o)
  BY WatchSteps DEF Once
<1>7. \A i \in Nat : ~InAsked(o, i)'
  BY <1>2, <1>5, <1>6 DEF WatchStep, AskedFor, AskedToWatch
<1>8. ~Watched(o)'
  BY <1>2, <1>6 DEF WatchStep, AskedToWatch
<1>9. QED
  BY <1>1, <1>3, <1>4, <1>7, <1>8 DEF AskedToWatch

LEMMA OnceNext ==
  ASSUME Typed, Startup, Addressed, [Next]_vars, NEW o \in Objs, Once(o), Unknown(o)
  PROVE  Once(o)'
<1>1. NothingNew(o) /\ WatchStep(o) /\ MirrorStep(o)
  BY TicketsNext, WatchSteps, MirrorSteps DEF Once, Unknown
<1>2. /\ stage # "query" => UNCHANGED ids
      /\ \/ UNCHANGED stage
         \/ NextStage
      /\ UNCHANGED stage => todo' \subseteq todo
      /\ stage' = "query" => stage = "query"
  BY StageSteps
<1>3. stage \in {"query", "get"} => ~AskedToWatch(o) /\ ~Watched(o)
  BY NotWatchedEarly
<1>4. stage = "query" => mirror[o] = Null
  BY DEF Startup, Unseen
<1>5. todo \subseteq ids \/ stage # "watch"
  BY DEF Typed
<1>6. ASSUME NEW i \in Nat, AskedFor(o, i), ~InAsked(o, i)
      PROVE  ~AskedToWatch(o) /\ ~Watched(o) /\ ~Coming(o)'
  <2>1. CASE stage = "watch" /\ o \in todo
    <3>1. ~AskedToWatch(o) /\ ~Watched(o) /\ o \in ids /\ ~Coming(o)
      BY <1>5, <2>1 DEF Once
    <3>2. ~NotYet(o)
      BY <3>1 DEF Unknown
    <3>3. QED
      BY <1>1, <2>1, <3>1, <3>2 DEF NothingNew
  <2>2. CASE stage = "loop" /\ Coming(o) /\ ~Coming(o)'
    BY <2>2 DEF Once
  <2>3. QED
    BY <1>6, <2>1, <2>2 DEF AskedFor
<1>7. ASSUME Coming(o)'
      PROVE  ~AskedToWatch(o)' /\ ~Watched(o)' /\ mirror'[o] = Null
  <2>1. ~AskedToWatch(o) /\ ~Watched(o) /\ mirror[o] = Null
    BY <1>1, <1>3, <1>4, <1>7 DEF NothingNew, Once, Unknown
  <2>2. \A i \in Nat : ~InAsked(o, i)'
    BY <1>1, <1>6, <1>7, <2>1 DEF WatchStep, AskedToWatch
  <2>3. ~Watched(o)'
    BY <1>1, <2>1 DEF WatchStep, AskedToWatch
  <2>4. mirror'[o] = Null
    BY <1>1, <1>7, <2>1 DEF MirrorStep
  <2>5. QED
    BY <2>2, <2>3, <2>4 DEF AskedToWatch
<1>8. ASSUME stage' \in {"watch", "watch types", "loop"}, o \in ids'
      PROVE  ~Coming(o)'
  <2>1. CASE stage \in {"watch", "watch types", "loop"}
    <3>1. o \in ids /\ ~Coming(o)
      BY <1>2, <1>8, <2>1 DEF Once
    <3>2. ~NotYet(o)
      BY <3>1 DEF Unknown
    <3>3. QED
      BY <1>1, <2>1, <3>1, <3>2 DEF NothingNew
  <2>2. CASE stage = "get"
    <3>1. NextStage
      BY <1>2, <1>8, <2>2
    <3>2. QED
      BY <2>2, <3>1, TicketsStage DEF Once
  <2>3. CASE stage = "query"
    <3>1. stage' = "get" \/ stage' = "query"
      BY <1>2, <2>3 DEF NextStage
    <3>2. QED
      BY <1>8, <3>1
  <2>4. QED
    BY <2>1, <2>2, <2>3 DEF Typed, TypeOK, Stages, Startup
<1>9. ASSUME stage' = "watch", o \in todo'
      PROVE  ~AskedToWatch(o)' /\ ~Watched(o)'
  <2>1. CASE stage = "watch"
    <3>1. o \in todo
      BY <1>2, <1>9, <2>1
    <3>2. ~AskedToWatch(o) /\ ~Watched(o)
      BY <2>1, <3>1 DEF Once
    <3>3. \A i \in Nat : ~InAsked(o, i)'
      BY <1>1, <1>9, <2>1, <3>2 DEF WatchStep, AskedFor, AskedToWatch
    <3>4. ~Watched(o)'
      BY <1>1, <3>2 DEF WatchStep, AskedToWatch
    <3>5. QED
      BY <3>3, <3>4 DEF AskedToWatch
  <2>2. CASE stage # "watch"
    <3>1. NextStage /\ stage = "get"
      BY <1>2, <1>9, <2>2 DEF NextStage
    <3>2. ~AskedToWatch(o) /\ ~Watched(o)
      BY <1>3, <3>1
    <3>3. UNCHANGED <<up, queues>>
      BY <3>1 DEF NextStage
    <3>4. QED
      BY <3>2, <3>3 DEF AskedToWatch, InAsked, Watched
  <2>3. QED
    BY <2>1, <2>2
<1>10. ASSUME NEW i \in Nat, NEW j \in Nat, InAsked(o, i)', InAsked(o, j)'
       PROVE  i = j
  <2>1. CASE \A n \in Nat : InAsked(o, n)' => InAsked(o, n) \/ AskedFor(o, n)
    <3>1. CASE InAsked(o, i) /\ InAsked(o, j)
      BY <3>1 DEF Once
    <3>2. CASE ~InAsked(o, i)
      <4>1. AskedFor(o, i) /\ ~AskedToWatch(o)
        BY <1>6, <1>10, <2>1, <3>2
      <4>2. AskedFor(o, j)
        BY <1>10, <2>1, <4>1 DEF AskedToWatch
      <4>3. QED
        BY <4>1, <4>2 DEF AskedFor
    <3>3. CASE ~InAsked(o, j)
      <4>1. AskedFor(o, j) /\ ~AskedToWatch(o)
        BY <1>6, <1>10, <2>1, <3>3
      <4>2. AskedFor(o, i)
        BY <1>10, <2>1, <4>1 DEF AskedToWatch
      <4>3. QED
        BY <4>1, <4>2 DEF AskedFor
    <3>4. QED
      BY <3>1, <3>2, <3>3
  <2>2. CASE \A n \in Nat : InAsked(o, n)' => n > 0 /\ InAsked(o, n + 1)
    <3>1. InAsked(o, i + 1) /\ InAsked(o, j + 1) /\ i + 1 \in Nat /\ j + 1 \in Nat
      BY <1>10, <2>2
    <3>2. i + 1 = j + 1
      BY <3>1 DEF Once
    <3>3. QED
      BY <3>2
  <2>3. QED
    BY <1>1, <2>1, <2>2 DEF WatchStep
<1>11. ASSUME AskedToWatch(o)' PROVE ~Watched(o)'
  <2>1. PICK i \in Nat : InAsked(o, i)'
    BY <1>11 DEF AskedToWatch
  <2>2. CASE /\ \A n \in Nat : InAsked(o, n)' => InAsked(o, n) \/ AskedFor(o, n)
             /\ Watched(o)' => Watched(o)
    BY <1>6, <2>1, <2>2 DEF Once, AskedToWatch
  <2>3. CASE /\ \A n \in Nat : InAsked(o, n)' => n > 0 /\ InAsked(o, n + 1)
             /\ Watched(o)' => Watched(o) \/ InAsked(o, 1)
    <3>1. i > 0 /\ InAsked(o, i + 1) /\ i + 1 \in Nat
      BY <2>1, <2>3
    <3>2. ~InAsked(o, 1)
      <4>1. PICK n \in Nat : n = i + 1 /\ InAsked(o, n)
        BY <3>1
      <4>2. \A m \in Nat : InAsked(o, m) => m = n
        BY <4>1 DEF Once
      <4>3. n # 1
        BY <3>1, <4>1
      <4>4. QED
        BY <4>2, <4>3
    <3>3. ~Watched(o)
      BY <3>1 DEF Once, AskedToWatch
    <3>4. QED
      BY <2>3, <3>2, <3>3
  <2>4. QED
    BY <1>1, <2>2, <2>3 DEF WatchStep
<1>12. QED
  BY <1>1, <1>7, <1>8, <1>9, <1>10, <1>11 DEF Once, NothingNew

-----------------------------------------------------------------------------
(* The mirror is a tree: a parent that can still come has its children       *)
(* waiting for it.                                                           *)
Base == Typed /\ Startup /\ Addressed /\ \A o \in Objs : Once(o) /\ Unknown(o)

LEMMA BaseInit == Init => Base
<1> SUFFICES ASSUME Init PROVE Base
  OBVIOUS
<1>1. Typed /\ Startup
  BY TypedInit, StartupInit
<1>2. \A k \in SubKeys : Waiting(k) = << >>
  BY DEF Init, Waiting
<1>3. \A i : i \notin DOMAIN << >>
  OBVIOUS
<1>4. Addressed
  BY <1>2, <1>3 DEF Init, Addressed
<1>5. ASSUME NEW o \in Objs PROVE Once(o) /\ Unknown(o)
  <2>1. Unwatched /\ NoneOut /\ ~InTodo(o)
    BY DEF Init, Unwatched, NoneOut, InTodo
  <2>2. \A l \in Places, i \in Nat : ~Ticket(o, l, i)
    BY <1>1, <2>1, NothingOut
  <2>3. ~Coming(o) /\ OneTicket(o)
    BY <2>2 DEF Coming, OneTicket
  <2>4. \A i : ~InAsked(o, i)
    BY <1>3 DEF Init, InAsked
  <2>5. ~Watched(o) /\ mirror[o] = Null
    BY KeysDiffer DEF Init, Watched
  <2>6. o \notin ids /\ ~Reported(o) /\ stage = "query"
    BY <1>3 DEF Init, Reported
  <2>7. QED
    BY <2>3, <2>4, <2>5, <2>6 DEF Once, Unknown, AskedToWatch
<1>6. QED
  BY <1>1, <1>4, <1>5 DEF Base

LEMMA BaseNext ==
  ASSUME Base, [Next]_vars
  PROVE  Base'
<1>1. Typed' /\ Startup'
  BY TypedNext, StartupNext DEF Base
<1>2. Addressed'
  BY AddressedNext DEF Base, Unknown
<1>3. \A o \in Objs : Once(o)' /\ Unknown(o)'
  BY OnceNext, UnknownNext DEF Base
<1>4. QED
  BY <1>1, <1>2, <1>3 DEF Base

Fresh(o) == NotYet(o) \/ Coming(o) \/ stage = "query"

InPlace(o) ==
  mirror[o] # Null =>
    IF ParentOf[o] = Null THEN o \in roots
    ELSE IF mirror[ParentOf[o]] # Null THEN o \in mirror[ParentOf[o]].kids
         ELSE Fresh(ParentOf[o]) => o \in orphans[ParentOf[o]]

LEMMA FreshSteps ==
  ASSUME Base, [Next]_vars, NEW o \in Objs
  PROVE  /\ Fresh(o)' => Fresh(o)
         /\ mirror[o] # Null => ~Fresh(o)
<1>1. NothingNew(o)
  BY TicketsNext DEF Base, Once, Unknown
<1>2. (NotYet(o)' => NotYet(o)) /\ (stage' = "query" => stage = "query")
  BY ReportedSteps, StageSteps DEF Base
<1>3. Fresh(o)' => Fresh(o)
  BY <1>1, <1>2 DEF Fresh, NothingNew
<1>4. mirror[o] # Null => ~Fresh(o)
  BY DEF Fresh, Base, Once, Unknown, Startup, Unseen
<1>5. QED
  BY <1>3, <1>4

LEMMA InPlaceNext ==
  ASSUME Base, [Next]_vars, \A o \in Objs : InPlace(o), NEW o \in Objs
  PROVE  InPlace(o)'
<1> DEFINE p == ParentOf[o]
<1>1. /\ mirror \in [Objs -> Bodies \cup {Null}] /\ roots \subseteq Objs /\ orphans \in [Objs -> SUBSET Objs]
      /\ Typed
  BY DEF Base, Typed, TypeOK
<1>2. p # Null => p \in Objs /\ p # o
  BY TreeAssumption
<1>3. p # Null => (Fresh(p)' => Fresh(p)) /\ (mirror[p] # Null => ~Fresh(p))
  BY <1>2, FreshSteps
<1>4. InPlace(o)
  OBVIOUS
<1> SUFFICES ASSUME mirror'[o] # Null
             PROVE  IF p = Null THEN o \in roots'
                    ELSE IF mirror'[p] # Null THEN o \in mirror'[p].kids
                         ELSE Fresh(p)' => o \in orphans'[p]
  BY DEF InPlace
<1>5. CASE UNCHANGED treeVars
  BY <1>2, <1>3, <1>4, <1>5 DEF InPlace, treeVars
<1>6. CASE Fills
  <2>1. PICK x \in Objs, obj \in Bodies : x = Head(down).of /\ obj = Head(down).body
    BY <1>6 DEF Fills
  <2>2. Upsert(x, obj)
    BY <1>6, <2>1 DEF Fills
  <2>3. /\ mirror'[x] # Null /\ orphans[x] \subseteq mirror'[x].kids
        /\ \A y \in Objs \ {x} : mirror'[y] = Null <=> mirror[y] = Null
        /\ \A y \in Objs \ {x} : mirror[y] # Null =>
             mirror'[y].val = mirror[y].val /\ mirror[y].kids \subseteq mirror'[y].kids
        /\ roots \subseteq roots' /\ (ParentOf[x] = Null => x \in roots')
        /\ ParentOf[x] # Null => IF mirror'[ParentOf[x]] = Null THEN x \in orphans'[ParentOf[x]]
                                 ELSE x \in mirror'[ParentOf[x]].kids
        /\ \A q \in Objs \ {x} : orphans[q] \subseteq orphans'[q]
    BY <1>1, <2>2, UpsertFacts
  <2>4. Coming(x)
    BY <1>6, <2>1, TicketsFrame DEF Fills, Carries, Base, Once
  <2>5. mirror[x] = Null /\ Fresh(x)
    BY <2>4 DEF Base, Once, Fresh
  <2>6. CASE o = x
    BY <2>3, <2>6
  <2>7. CASE o # x /\ p = x
    <3>1. mirror[o] # Null /\ p # Null
      BY <1>2, <2>3, <2>7, TreeAssumption
    <3>2. o \in orphans[x]
      BY <1>4, <2>5, <2>7, <3>1 DEF InPlace
    <3>3. QED
      BY <2>3, <2>7, <3>1, <3>2
  <2>8. CASE o # x /\ p # x
    <3>1. mirror[o] # Null
      BY <2>3, <2>8
    <3>2. CASE p = Null
      BY <1>4, <2>3, <3>1, <3>2 DEF InPlace
    <3>3. CASE p # Null
      <4>1. p \in Objs \ {x}
        BY <1>2, <2>8, <3>3
      <4>2. CASE mirror[p] # Null
        <5>1. o \in mirror[p].kids
          BY <1>4, <3>1, <3>3, <4>2 DEF InPlace
        <5>2. QED
          BY <2>3, <3>3, <4>1, <4>2, <5>1
      <4>3. CASE mirror[p] = Null
        <5>1. Fresh(p) => o \in orphans[p]
          BY <1>4, <3>1, <3>3, <4>3 DEF InPlace
        <5>2. orphans[p] \subseteq orphans'[p] /\ mirror'[p] = Null
          BY <2>3, <4>1, <4>3
        <5>3. QED
          BY <1>3, <3>3, <5>1, <5>2
      <4>4. QED
        BY <4>2, <4>3
    <3>4. QED
      BY <3>2, <3>3
  <2>9. QED
    BY <2>6, <2>7, <2>8
<1>7. CASE Drops
  <2>1. PICK x \in Objs : x = Head(down).of
    BY <1>7 DEF Drops
  <2>2. Remove(x)
    BY <1>7, <2>1 DEF Drops
  <2>3. /\ roots' = roots \ {x} /\ orphans' = orphans
        /\ mirror'[x] = Null /\ \A y \in Objs \ {x} : mirror'[y] = mirror[y]
    BY <1>1, <2>2, RemoveFacts
  <2>4. o # x /\ mirror[o] # Null
    BY <2>3
  <2>5. CASE p = x
    <3>1. p # Null
      BY <2>5, TreeAssumption
    <3>2. CASE mirror[p] # Null
      <4>1. ~Fresh(p)'
        BY <1>3, <3>1, <3>2
      <4>2. QED
        BY <2>3, <2>5, <3>1, <4>1
    <3>3. CASE mirror[p] = Null
      <4>1. Fresh(p) => o \in orphans[p]
        BY <1>4, <2>4, <3>1, <3>3 DEF InPlace
      <4>2. QED
        BY <1>3, <2>3, <2>5, <3>1, <4>1
    <3>4. QED
      BY <3>2, <3>3
  <2>6. CASE p # x
    BY <1>2, <1>3, <1>4, <2>3, <2>4, <2>6 DEF InPlace
  <2>7. QED
    BY <2>5, <2>6
<1>8. CASE Revalues
  <2>1. PICK x \in Objs, v \in Vals : x = Head(down).of /\ v = Head(down).body.val
    BY <1>8 DEF Revalues
  <2>2. SetInMirror(x, v)
    BY <1>8, <2>1 DEF Revalues
  <2>3. /\ roots' = roots /\ orphans' = orphans
        /\ \A y \in Objs : mirror'[y] = Null <=> mirror[y] = Null
        /\ \A y \in Objs : mirror[y] # Null => mirror'[y].kids = mirror[y].kids
    BY <1>1, <2>2, SetFacts
  <2>4. QED
    BY <1>2, <1>3, <1>4, <2>3 DEF InPlace
<1>9. QED
  BY <1>1, <1>5, <1>6, <1>7, <1>8, TreeSteps

TreeInv == Base /\ \A o \in Objs : InPlace(o)

LEMMA TreeInvHolds == Spec => []TreeInv
<1>1. Init => TreeInv
  <2> SUFFICES ASSUME Init PROVE TreeInv
    OBVIOUS
  <2>1. \A o \in Objs : mirror[o] = Null
    BY DEF Init
  <2>2. QED
    BY <2>1, BaseInit DEF TreeInv, InPlace
<1>2. TreeInv /\ [Next]_vars => TreeInv'
  BY BaseNext, InPlaceNext DEF TreeInv
<1>3. QED
  BY <1>1, <1>2, PTL DEF Spec

(* Whatever order parents and children arrive in, an object of the mirror is *)
(* a root or among the children of its parent when that is there too: for    *)
(* any objects, types and parents.                                           *)
THEOREM MirrorTreeCorrect == Spec => []MirrorTree
<1>1. TreeInv => MirrorTree
  BY DEF TreeInv, Base, Typed, InPlace, MirrorTree
<1>2. QED
  BY <1>1, TreeInvHolds, PTL

-----------------------------------------------------------------------------
(* What the client is told of an object: only one that is gone is announced  *)
(* as destroyed.                                                             *)
Fits(event) == event.kind = "Destroyed" => life[event.id] = "gone"

Doomed ==
  /\ \A i \in DOMAIN down : down[i].kind = "Event" => Fits(down[i].body)
  /\ \A i \in DOMAIN batch : Fits(batch[i])
  /\ \A k \in SubKeys : \A i \in DOMAIN Waiting(k) : Fits(Waiting(k)[i])

LEMMA GoneForever ==
  ASSUME Typed, [Next]_vars
  PROVE  \A o \in Objs : life[o] = "gone" => life'[o] = "gone"
BY DEF Next, ServerStep, PushStep, ClientStep, Mount, Destroy, SetState, TakeRequest,
   WriteReply, WriteEvent, DrainOne, AskNext, NextStage, ReadFrame, HandleCreated, HandleDestroyed, HandleStateSet,
   HandleGetResult, HandleOther, Handle, vars, serverVars, Typed, TypeOK

LEMMA DoomedNext ==
  ASSUME Typed, Doomed, [Next]_vars
  PROVE  Doomed'
<1> DEFINE Suits(event) == event.kind = "Destroyed" => life'[event.id] = "gone"
           DownSuits == \A i \in DOMAIN down' : down'[i].kind = "Event" => Suits(down'[i].body)
           BatchSuits == \A i \in DOMAIN batch' : Suits(batch'[i])
           QueuesSuit == \A k \in SubKeys : \A i \in DOMAIN Waiting(k)' : Suits(Waiting(k)'[i])
<1>1. down \in Seq(Frames) /\ batch \in Seq(Events)
  BY DEF Typed, TypeOK
<1>2. ASSUME DownSuits, BatchSuits, QueuesSuit
      PROVE  Doomed'
  BY <1>2 DEF Doomed, Fits
<1>3. \A event \in Events : Fits(event) => Suits(event)
  BY GoneForever, EventTypes DEF Fits
<1> HIDE DEF Suits
<1>4. /\ \A i \in DOMAIN down : down[i].kind = "Event" => Suits(down[i].body)
      /\ \A i \in DOMAIN batch : Suits(batch[i])
      /\ \A k \in SubKeys : \A i \in DOMAIN Waiting(k) : Suits(Waiting(k)[i])
  <2>1. \A i \in DOMAIN down : down[i] \in Frames
    BY <1>1
  <2>2. \A i \in DOMAIN batch : batch[i] \in Events
    BY <1>1
  <2>3. \A i \in DOMAIN down : down[i].kind = "Event" => Suits(down[i].body)
    BY <1>3, <2>1, FrameTypes DEF Doomed
  <2>4. \A i \in DOMAIN batch : Suits(batch[i])
    BY <1>3, <2>2 DEF Doomed
  <2>5. \A k \in SubKeys : \A i \in DOMAIN Waiting(k) : Suits(Waiting(k)[i])
    BY <1>3, WaitingTypes DEF Doomed
  <2>6. QED
    BY <2>3, <2>4, <2>5
<1>5. ASSUME UNCHANGED queues PROVE QueuesSuit
  <2>1. \A k \in SubKeys : Waiting(k)' = Waiting(k)
    BY <1>5 DEF Waiting
  <2>2. QED
    BY <1>4, <2>1
<1>6. ASSUME UNCHANGED batch PROVE BatchSuits
  BY <1>4, <1>6
<1>7. ASSUME UNCHANGED down PROVE DownSuits
  BY <1>4, <1>7
<1>8. CASE \E x \in Objs : Mount(x) \/ Destroy(x) \/ \E v \in Vals : SetState(x, v)
  <2>1. PICK x \in Objs : Mount(x) \/ Destroy(x) \/ \E v \in Vals : SetState(x, v)
    BY <1>8
  <2>2. PICK event \in Events : Publish(event) /\ Suits(event)
    <3>1. CASE Mount(x)
      BY <3>1, EventTypes DEF Mount, Lifecycle, Suits
    <3>2. CASE \E v \in Vals : SetState(x, v)
      BY <3>2, EventTypes DEF SetState, Changed, Suits
    <3>3. CASE Destroy(x)
      <4>1. PICK event \in Events : event = Lifecycle("Destroyed", x)
        BY EventTypes
      <4>2. Suits(event)
        BY <3>3, <4>1 DEF Destroy, Lifecycle, Suits, Typed, TypeOK
      <4>3. QED
        BY <3>3, <4>1, <4>2 DEF Destroy
    <3>4. QED
      BY <2>1, <3>1, <3>2, <3>3
  <2>3. ASSUME NEW k \in SubKeys, NEW i \in DOMAIN Waiting(k)'
        PROVE  Suits(Waiting(k)'[i])
    <3>1. CASE Waiting(k)' = Waiting(k)
      BY <1>4, <2>3, <3>1
    <3>2. CASE Waiting(k)' = Append(Waiting(k), event)
      <4>1. Waiting(k) \in Seq(Events)
        BY WaitingTypes
      <4>2. /\ Append(Waiting(k), event)[Len(Waiting(k)) + 1] = event
            /\ \A j \in DOMAIN Waiting(k) : Append(Waiting(k), event)[j] = Waiting(k)[j]
            /\ \A j \in DOMAIN Append(Waiting(k), event) : j = Len(Waiting(k)) + 1 \/ j \in DOMAIN Waiting(k)
        BY <4>1, AppendFacts
      <4>3. QED
        BY <1>4, <2>2, <2>3, <3>2, <4>2
    <3>3. QED
      BY <2>2, <3>1, <3>2, PublishAdds
  <2>4. UNCHANGED <<down, batch>>
    BY <2>1 DEF Mount, Destroy, SetState
  <2>5. QED
    BY <1>2, <1>6, <1>7, <2>3, <2>4
<1>9. \A i : i \notin DOMAIN << >>
  OBVIOUS
<1>10. ASSUME \A k \in SubKeys : queues'[k] = queues[k] \/ queues'[k] = << >>
       PROVE  QueuesSuit
  <2>1. \A k \in SubKeys : Waiting(k)' = Waiting(k) \/ Waiting(k)' = << >>
    BY <1>10 DEF Waiting
  <2>2. QED
    BY <1>4, <1>9, <2>1
<1>11. CASE TakeRequest
  <2>1. UNCHANGED <<down, batch>> /\ \A k \in SubKeys : queues'[k] = queues[k] \/ queues'[k] = << >>
    BY <1>11 DEF TakeRequest, Typed, TypeOK
  <2>2. QED
    BY <1>2, <1>6, <1>7, <1>10, <2>1
<1>12. CASE \E k \in SubKeys : DrainOne(k)
  <2>1. PICK k \in SubKeys : DrainOne(k)
    BY <1>12
  <2>2. UNCHANGED down /\ \A m \in SubKeys : queues'[m] = queues[m] \/ queues'[m] = << >>
    BY <2>1 DEF DrainOne, Typed, TypeOK
  <2>3. batch' = Waiting(k)
    BY <2>1 DEF DrainOne, Waiting
  <2>4. BatchSuits
    BY <1>4, <2>3
  <2>5. QED
    BY <1>2, <1>7, <1>10, <2>2, <2>4
<1>13. ASSUME NEW f \in Frames, down' = Append(down, f), f.kind = "Event" => Suits(f.body)
       PROVE  DownSuits
  <2>1. /\ Append(down, f)[Len(down) + 1] = f
        /\ \A j \in DOMAIN down : Append(down, f)[j] = down[j]
        /\ \A j \in DOMAIN Append(down, f) : j = Len(down) + 1 \/ j \in DOMAIN down
    BY <1>1, AppendFacts
  <2>2. QED
    BY <1>4, <1>13, <2>1
<1>14. CASE WriteReply
  <2>1. reply # Null /\ down' = Append(down, reply) /\ UNCHANGED <<queues, batch>>
    BY <1>14 DEF WriteReply
  <2>2. reply \in Answers
    BY <2>1 DEF Typed, TypeOK
  <2>3. reply \in Frames /\ reply.kind # "Event"
    BY <2>2, FrameTypes
  <2>4. QED
    BY <1>2, <1>5, <1>6, <1>13, <2>1, <2>3
<1>15. CASE WriteEvent
  <2>1. /\ batch # << >> /\ down' = Append(down, Frame("Event", Head(batch).id, Head(batch)))
        /\ batch' = Tail(batch) /\ UNCHANGED queues
    BY <1>15 DEF WriteEvent
  <2>2. /\ Head(batch) \in Events /\ 1 \in DOMAIN batch /\ Head(batch) = batch[1]
        /\ \A i \in DOMAIN Tail(batch) : i + 1 \in DOMAIN batch /\ Tail(batch)[i] = batch[i + 1]
    BY <1>1, <2>1, TailFacts
  <2>3. PICK f \in Frames : f = Frame("Event", Head(batch).id, Head(batch))
    BY <2>2, EventTypes
  <2>4. f.body = batch[1] /\ Suits(batch[1])
    BY <1>4, <2>2, <2>3 DEF Frame
  <2>5. BatchSuits
    BY <1>4, <2>1, <2>2
  <2>6. QED
    BY <1>2, <1>5, <1>13, <2>1, <2>3, <2>4, <2>5
<1>16. CASE TakesFrame
  <2>1. down # << >> /\ down' = Tail(down) /\ UNCHANGED <<queues, batch>>
    BY <1>16, FrameTaken
  <2>2. \A i \in DOMAIN Tail(down) : i + 1 \in DOMAIN down /\ Tail(down)[i] = down[i + 1]
    BY <1>1, <2>1, TailFacts
  <2>3. DownSuits
    BY <1>4, <2>1, <2>2
  <2>4. QED
    BY <1>2, <1>5, <1>6, <2>1, <2>3
<1>17. CASE AskNext \/ NextStage \/ UNCHANGED vars
  <2>1. UNCHANGED <<queues, down, batch>>
    BY <1>17 DEF AskNext, NextStage, vars
  <2>2. QED
    BY <1>2, <1>5, <1>6, <1>7, <2>1
<1>18. QED
  BY <1>8, <1>11, <1>12, <1>14, <1>15, <1>16, <1>17
  DEF Next, ServerStep, PushStep, ClientStep, TakesFrame

(* An object that startup has got, or that is subscribed to, is in the       *)
(* mirror unless it is gone.                                                 *)
Shown(o) == mirror[o] # Null \/ life[o] = "gone"

Shows(o) ==
  /\ stage # "query" /\ o \in ids /\ ~Coming(o) => Shown(o)
  /\ AskedToWatch(o) \/ Watched(o) => Shown(o)

LEMMA ShownSteps ==
  ASSUME Base, Doomed, [Next]_vars, NEW o \in Objs, Shown(o)
  PROVE  Shown(o)'
<1>1. /\ mirror \in [Objs -> Bodies \cup {Null}] /\ roots \subseteq Objs /\ orphans \in [Objs -> SUBSET Objs]
      /\ Typed /\ down \in Seq(Frames)
  BY DEF Base, Typed, TypeOK
<1>2. life[o] = "gone" => life'[o] = "gone"
  BY <1>1, GoneForever
<1>3. CASE UNCHANGED treeVars
  BY <1>2, <1>3 DEF Shown, treeVars
<1>4. CASE Fills
  <2>1. PICK x \in Objs, obj \in Bodies : x = Head(down).of /\ obj = Head(down).body
    BY <1>4 DEF Fills
  <2>2. Upsert(x, obj)
    BY <1>4, <2>1 DEF Fills
  <2>3. mirror'[x] # Null /\ (x # o => (mirror'[o] = Null <=> mirror[o] = Null))
    BY <1>1, <2>2, UpsertFacts
  <2>4. QED
    BY <1>2, <2>3 DEF Shown
<1>5. CASE Drops
  <2>1. PICK x \in Objs : x = Head(down).of
    BY <1>5 DEF Drops
  <2>2. Remove(x)
    BY <1>5, <2>1 DEF Drops
  <2>3. x # o => mirror'[o] = mirror[o]
    BY <1>1, <2>2, RemoveFacts
  <2>4. down # << >>
    BY <1>1, <1>5, FrameTaken DEF Drops
  <2>5. 1 \in DOMAIN down /\ Head(down) = down[1]
    BY <1>1, <2>4, TailFacts
  <2>6. life[x] = "gone"
    BY <1>5, <2>1, <2>5 DEF Drops, Doomed, Fits, Base, Addressed
  <2>7. QED
    BY <1>2, <2>3, <2>6 DEF Shown
<1>6. CASE Revalues
  <2>1. PICK x \in Objs, v \in Vals : x = Head(down).of /\ v = Head(down).body.val
    BY <1>6 DEF Revalues
  <2>2. SetInMirror(x, v)
    BY <1>6, <2>1 DEF Revalues
  <2>3. mirror'[o] = Null <=> mirror[o] = Null
    BY <1>1, <2>2, SetFacts
  <2>4. QED
    BY <1>2, <2>3 DEF Shown
<1>7. QED
  BY <1>1, <1>3, <1>4, <1>5, <1>6, TreeSteps

(* In the stage of the Gets nothing that was on its way is lost, and what    *)
(* arrives is taken into the mirror.                                         *)
LEMMA GotIsShown ==
  ASSUME Base, [Next]_vars, NEW o \in Objs, stage = "get", Coming(o), ~Coming(o)'
  PROVE  mirror'[o] # Null
<1>1. Typed /\ Startup /\ Addressed /\ OneTicket(o)
  BY DEF Base, Once
<1>2. TakesFrame
  <2>1. CASE UNCHANGED vars
    <3>1. \A l \in Places, i \in Nat : Ticket(o, l, i)' <=> Ticket(o, l, i)
      BY <2>1 DEF Ticket, InTodo, InUp, InReply, InDown, InBatch, InQueue, Waiting, vars, clientVars
    <3>2. QED
      BY <3>1 DEF Coming
  <2>2. QED
    BY <1>1, <2>1, GetKeeps, TicketsAsk, TicketsStage
    DEF Next, ServerStep, PushStep, ClientStep, TakesFrame
<1>3. Carries(Head(down), o)
  BY <1>1, <1>2, TicketsFrame
<1>4. ReadFrame
  BY <1>1, <1>2, HandleCases
<1>5. waiting /\ down # << >>
  BY <1>1, <1>2, <1>4, ReadCases, FrameTaken
<1>6. Head(down).kind = "GetResult"
  BY <1>1, <1>5 DEF Startup, OneOut
<1>7. Upsert(Head(down).of, Head(down).body)
  BY <1>1, <1>4, <1>6, ReadCases
<1>8. PICK obj \in Bodies : obj = Head(down).body
  BY <1>1, <1>2, <1>6, FrameTaken, FrameTypes
<1>9. Upsert(o, obj)
  BY <1>3, <1>6, <1>7, <1>8 DEF Carries
<1>10. mirror \in [Objs -> Bodies \cup {Null}] /\ roots \subseteq Objs /\ orphans \in [Objs -> SUBSET Objs]
  BY DEF Base, Typed, TypeOK
<1>11. QED
  BY <1>9, <1>10, UpsertFacts

LEMMA ShowsNext ==
  ASSUME Base, Doomed, [Next]_vars, NEW o \in Objs, Shows(o)
  PROVE  Shows(o)'
<1>1. Typed /\ Startup /\ Addressed /\ Once(o) /\ Unknown(o)
  BY DEF Base
<1>2. Shown(o) => Shown(o)'
  BY ShownSteps
<1>3. /\ stage # "query" => UNCHANGED ids
      /\ \/ UNCHANGED stage
         \/ NextStage
  BY <1>1, StageSteps
<1>4. ASSUME stage' # "query", o \in ids', ~Coming(o)'
      PROVE  Shown(o)'
  <2>1. CASE stage = "query"
    <3>1. NextStage /\ stage' = "get"
      BY <1>3, <1>4, <2>1 DEF NextStage
    <3>2. QED
      BY <1>1, <1>4, <3>1, TicketsStage DEF Once
  <2>2. CASE stage # "query" /\ ~Coming(o)
    BY <1>2, <1>3, <1>4, <2>2 DEF Shows
  <2>3. CASE stage # "query" /\ Coming(o)
    <3>1. o \in ids
      BY <1>3, <1>4, <2>3
    <3>2. stage = "get"
      BY <1>1, <2>3, <3>1 DEF Once, Startup, Typed, TypeOK, Stages
    <3>3. mirror'[o] # Null
      BY <1>4, <2>3, <3>2, GotIsShown
    <3>4. QED
      BY <3>3 DEF Shown
  <2>4. QED
    BY <2>1, <2>2, <2>3
<1>5. WatchStep(o)
  BY <1>1, WatchSteps DEF Once
<1>6. ASSUME NEW i \in Nat, AskedFor(o, i) PROVE Shown(o)'
  <2>1. CASE stage = "watch" /\ o \in todo
    <3>1. o \in ids /\ ~Coming(o)
      BY <1>1, <2>1 DEF Typed, Once
    <3>2. QED
      BY <1>2, <2>1, <3>1 DEF Shows
  <2>2. CASE mirror'[o] # Null
    BY <2>2 DEF Shown
  <2>3. QED
    BY <1>6, <2>1, <2>2 DEF AskedFor
<1>7. ASSUME AskedToWatch(o)' PROVE Shown(o)'
  <2>1. PICK i \in Nat : InAsked(o, i)'
    BY <1>7 DEF AskedToWatch
  <2>2. CASE InAsked(o, i)
    BY <1>2, <2>2 DEF Shows, AskedToWatch
  <2>3. CASE AskedFor(o, i)
    BY <1>6, <2>3
  <2>4. CASE InAsked(o, i + 1)
    <3>1. i + 1 \in Nat
      OBVIOUS
    <3>2. AskedToWatch(o)
      BY <2>4, <3>1 DEF AskedToWatch
    <3>3. QED
      BY <1>2, <3>2 DEF Shows
  <2>5. QED
    BY <1>5, <2>1, <2>2, <2>3, <2>4 DEF WatchStep
<1>8. ASSUME Watched(o)' PROVE Shown(o)'
  <2>1. Watched(o) \/ AskedToWatch(o)
    BY <1>5, <1>8 DEF WatchStep, AskedToWatch
  <2>2. QED
    BY <1>2, <2>1 DEF Shows
<1>9. QED
  BY <1>4, <1>7, <1>8 DEF Shows

-----------------------------------------------------------------------------
(* The last change of an object, on its way through the queue of its         *)
(* subscription, the batch and the frames, or in the mirror.                 *)
Sets(event, o) == event.kind = "StateSet" /\ event.id = o
Brings(f, o) == f.kind = "Event" /\ Sets(f.body, o)

QueueLast(o, v) ==
  \E i \in DOMAIN Waiting(ById(o)) :
    /\ Sets(Waiting(ById(o))[i], o) /\ Waiting(ById(o))[i].val = v
    /\ \A j \in DOMAIN Waiting(ById(o)) : i < j => ~Sets(Waiting(ById(o))[j], o)
QueueNone(o) == \A i \in DOMAIN Waiting(ById(o)) : ~Sets(Waiting(ById(o))[i], o)

BatchLast(o, v) ==
  \E i \in DOMAIN batch : /\ Sets(batch[i], o) /\ batch[i].val = v
                          /\ \A j \in DOMAIN batch : i < j => ~Sets(batch[j], o)
BatchNone(o) == \A i \in DOMAIN batch : ~Sets(batch[i], o)

DownLast(o, v) ==
  \E i \in DOMAIN down : /\ Brings(down[i], o) /\ down[i].body.val = v
                         /\ \A j \in DOMAIN down : i < j => ~Brings(down[j], o)
DownNone(o) == \A i \in DOMAIN down : ~Brings(down[i], o)

MirrorHas(o, v) == mirror[o] # Null => mirror[o].val = v

UpToDate(o, v) ==
  \/ QueueLast(o, v)
  \/ QueueNone(o) /\ BatchLast(o, v)
  \/ QueueNone(o) /\ BatchNone(o) /\ DownLast(o, v)
  \/ QueueNone(o) /\ BatchNone(o) /\ DownNone(o) /\ MirrorHas(o, v)

Current(o) ==
  o \in seen => /\ stage = "loop" /\ Watched(o)
                /\ \E v \in Vals \cup {Birth} : v = value[o] /\ UpToDate(o, v)

LEMMA QueueGrows ==
  ASSUME Typed, NEW o \in Objs, NEW event \in Events, Watched(o), Publish(event)
  PROVE  /\ Sets(event, o) => QueueLast(o, event.val)'
         /\ ~Sets(event, o) => /\ \A v : QueueLast(o, v) => QueueLast(o, v)'
                               /\ QueueNone(o) => QueueNone(o)'
<1>1. PICK k \in SubKeys : k = ById(o)
  BY KeysDiffer
<1>2. PICK q \in Seq(Events) : q = Waiting(k)
  BY WaitingTypes
<1>3. /\ Append(q, event)[Len(q) + 1] = event /\ Len(q) \in Nat /\ DOMAIN q = 1 .. Len(q)
      /\ DOMAIN Append(q, event) = 1 .. Len(q) + 1
      /\ \A i \in DOMAIN q : Append(q, event)[i] = q[i]
      /\ \A i \in DOMAIN Append(q, event) : i = Len(q) + 1 \/ i \in DOMAIN q
  BY <1>2, AppendFacts
<1>4. ASSUME Sets(event, o) PROVE QueueLast(o, event.val)'
  <2>1. Hears(k, event)
    BY <1>1, <1>4 DEF Hears, Sets
  <2>2. Waiting(k)' = Append(q, event)
    BY <1>1, <1>2, <2>1, PublishAdds DEF Watched
  <2>3. PICK n \in Nat : n = Len(q) + 1
    BY <1>3
  <2>4. n \in DOMAIN Append(q, event) /\ Append(q, event)[n] = event
    BY <1>3, <2>3
  <2>5. \A j \in DOMAIN Append(q, event) : ~(n < j)
    BY <1>3, <2>3
  <2>6. QED
    BY <1>1, <1>4, <2>2, <2>4, <2>5 DEF QueueLast
<1>5. CASE Waiting(k)' = Waiting(k)
  BY <1>1, <1>4, <1>5 DEF QueueLast, QueueNone
<1>6. ASSUME Waiting(k)' = Append(q, event), ~Sets(event, o), NEW v, QueueLast(o, v)
      PROVE  QueueLast(o, v)'
  <2>1. PICK i \in DOMAIN q : /\ Sets(q[i], o) /\ q[i].val = v
                              /\ \A j \in DOMAIN q : i < j => ~Sets(q[j], o)
    BY <1>1, <1>2, <1>6 DEF QueueLast
  <2>2. i \in DOMAIN Append(q, event) /\ Append(q, event)[i] = q[i]
    BY <1>3
  <2>3. \A j \in DOMAIN Append(q, event) : i < j => ~Sets(Append(q, event)[j], o)
    BY <1>3, <1>6, <2>1
  <2>4. QED
    BY <1>1, <1>6, <2>1, <2>2, <2>3 DEF QueueLast
<1>7. ASSUME Waiting(k)' = Append(q, event), ~Sets(event, o), QueueNone(o)
      PROVE  QueueNone(o)'
  BY <1>1, <1>2, <1>3, <1>7 DEF QueueNone
<1>8. Waiting(k)' = Waiting(k) \/ Waiting(k)' = Append(q, event)
  BY <1>2, PublishAdds
<1>9. QED
  BY <1>4, <1>5, <1>6, <1>7, <1>8

(* The queue of another subscription tells of no change of this object.      *)
LEMMA OnlyItsQueue ==
  ASSUME Addressed, NEW o, NEW k \in SubKeys, k # ById(o)
  PROVE  \A i \in DOMAIN Waiting(k) : ~Sets(Waiting(k)[i], o)
BY DEF Addressed, Sets

LEMMA DownGrows ==
  ASSUME Typed, NEW o, NEW f \in Frames, down' = Append(down, f)
  PROVE  /\ Brings(f, o) => DownLast(o, f.body.val)'
         /\ ~Brings(f, o) => /\ \A v : DownLast(o, v) => DownLast(o, v)'
                             /\ DownNone(o) => DownNone(o)'
<1>1. down \in Seq(Frames)
  BY DEF Typed, TypeOK
<1>2. /\ Append(down, f)[Len(down) + 1] = f /\ Len(down) \in Nat /\ DOMAIN down = 1 .. Len(down)
      /\ DOMAIN Append(down, f) = 1 .. Len(down) + 1
      /\ \A i \in DOMAIN down : Append(down, f)[i] = down[i]
      /\ \A i \in DOMAIN Append(down, f) : i = Len(down) + 1 \/ i \in DOMAIN down
  BY <1>1, AppendFacts
<1>3. ASSUME Brings(f, o) PROVE DownLast(o, f.body.val)'
  <2>1. PICK n \in Nat : n = Len(down) + 1
    BY <1>2
  <2>2. n \in DOMAIN Append(down, f) /\ Append(down, f)[n] = f
    BY <1>2, <2>1
  <2>3. \A j \in DOMAIN Append(down, f) : ~(n < j)
    BY <1>2, <2>1
  <2>4. QED
    BY <1>3, <2>2, <2>3 DEF DownLast
<1>4. ASSUME ~Brings(f, o), NEW v, DownLast(o, v) PROVE DownLast(o, v)'
  <2>1. PICK i \in DOMAIN down : /\ Brings(down[i], o) /\ down[i].body.val = v
                                 /\ \A j \in DOMAIN down : i < j => ~Brings(down[j], o)
    BY <1>4 DEF DownLast
  <2>2. i \in DOMAIN Append(down, f) /\ Append(down, f)[i] = down[i]
    BY <1>2
  <2>3. \A j \in DOMAIN Append(down, f) : i < j => ~Brings(Append(down, f)[j], o)
    BY <1>2, <1>4, <2>1
  <2>4. QED
    BY <2>1, <2>2, <2>3 DEF DownLast
<1>5. ASSUME ~Brings(f, o), DownNone(o) PROVE DownNone(o)'
  BY <1>2, <1>5 DEF DownNone
<1>6. QED
  BY <1>3, <1>4, <1>5

(* Taking the first event of the batch.                                      *)
LEMMA BatchShrinks ==
  ASSUME Typed, NEW o, NEW v, batch # << >>, batch' = Tail(batch)
  PROVE  /\ BatchLast(o, v) => \/ BatchLast(o, v)'
                               \/ BatchNone(o)' /\ Sets(Head(batch), o) /\ Head(batch).val = v
         /\ BatchNone(o) => BatchNone(o)' /\ ~Sets(Head(batch), o)
<1>1. batch \in Seq(Events)
  BY DEF Typed, TypeOK
<1>2. /\ \A i \in DOMAIN Tail(batch) : i \in Nat /\ i + 1 \in DOMAIN batch /\ Tail(batch)[i] = batch[i + 1]
      /\ \A i \in DOMAIN batch :
           i = 1 \/ (i > 1 /\ i - 1 \in DOMAIN Tail(batch) /\ batch[i] = Tail(batch)[i - 1])
      /\ 1 \in DOMAIN batch /\ Head(batch) = batch[1] /\ DOMAIN batch = 1 .. Len(batch) /\ Len(batch) \in Nat
  BY <1>1, TailFacts
<1>3. BatchNone(o) => BatchNone(o)' /\ ~Sets(Head(batch), o)
  BY <1>2 DEF BatchNone
<1>4. ASSUME BatchLast(o, v)
      PROVE  \/ BatchLast(o, v)'
             \/ BatchNone(o)' /\ Sets(Head(batch), o) /\ Head(batch).val = v
  <2>1. PICK i \in DOMAIN batch : /\ Sets(batch[i], o) /\ batch[i].val = v
                                  /\ \A j \in DOMAIN batch : i < j => ~Sets(batch[j], o)
    BY <1>4 DEF BatchLast
  <2>2. CASE i = 1
    <3>1. \A j \in DOMAIN Tail(batch) : ~Sets(Tail(batch)[j], o)
      <4>1. ASSUME NEW j \in DOMAIN Tail(batch) PROVE ~Sets(Tail(batch)[j], o)
        <5>1. j \in Nat /\ j + 1 \in DOMAIN batch /\ Tail(batch)[j] = batch[j + 1]
          BY <1>2
        <5>2. j # 0
          BY <1>1, TailFacts
        <5>3. i < j + 1
          BY <2>2, <5>1, <5>2
        <5>4. QED
          BY <2>1, <5>1, <5>3
      <4>2. QED
        BY <4>1
    <3>2. QED
      BY <1>2, <2>1, <2>2, <3>1 DEF BatchNone
  <2>3. CASE i # 1
    <3>1. PICK n \in DOMAIN Tail(batch) : n = i - 1 /\ Tail(batch)[n] = batch[i]
      BY <1>2, <2>3
    <3>2. \A j \in DOMAIN Tail(batch) : n < j => ~Sets(Tail(batch)[j], o)
      BY <1>2, <2>1, <3>1
    <3>3. QED
      BY <2>1, <3>1, <3>2 DEF BatchLast
  <2>4. QED
    BY <2>2, <2>3
<1>5. QED
  BY <1>3, <1>4

(* Taking the first frame.                                                   *)
LEMMA DownShrinks ==
  ASSUME Typed, NEW o, NEW v, down # << >>, down' = Tail(down)
  PROVE  /\ DownLast(o, v) => \/ DownLast(o, v)'
                              \/ DownNone(o)' /\ Brings(Head(down), o) /\ Head(down).body.val = v
         /\ DownNone(o) => DownNone(o)' /\ ~Brings(Head(down), o)
<1>1. down \in Seq(Frames)
  BY DEF Typed, TypeOK
<1>2. /\ \A i \in DOMAIN Tail(down) : i \in Nat /\ i + 1 \in DOMAIN down /\ Tail(down)[i] = down[i + 1]
      /\ \A i \in DOMAIN down :
           i = 1 \/ (i > 1 /\ i - 1 \in DOMAIN Tail(down) /\ down[i] = Tail(down)[i - 1])
      /\ 1 \in DOMAIN down /\ Head(down) = down[1] /\ DOMAIN down = 1 .. Len(down) /\ Len(down) \in Nat
  BY <1>1, TailFacts
<1>3. DownNone(o) => DownNone(o)' /\ ~Brings(Head(down), o)
  BY <1>2 DEF DownNone
<1>4. ASSUME DownLast(o, v)
      PROVE  \/ DownLast(o, v)'
             \/ DownNone(o)' /\ Brings(Head(down), o) /\ Head(down).body.val = v
  <2>1. PICK i \in DOMAIN down : /\ Brings(down[i], o) /\ down[i].body.val = v
                                 /\ \A j \in DOMAIN down : i < j => ~Brings(down[j], o)
    BY <1>4 DEF DownLast
  <2>2. CASE i = 1
    <3>1. \A j \in DOMAIN Tail(down) : ~Brings(Tail(down)[j], o)
      <4>1. ASSUME NEW j \in DOMAIN Tail(down) PROVE ~Brings(Tail(down)[j], o)
        <5>1. j \in Nat /\ j + 1 \in DOMAIN down /\ Tail(down)[j] = down[j + 1]
          BY <1>2
        <5>2. j # 0
          BY <1>1, TailFacts
        <5>3. i < j + 1
          BY <2>2, <5>1, <5>2
        <5>4. QED
          BY <2>1, <5>1, <5>3
      <4>2. QED
        BY <4>1
    <3>2. QED
      BY <1>2, <2>1, <2>2, <3>1 DEF DownNone
  <2>3. CASE i # 1
    <3>1. PICK n \in DOMAIN Tail(down) : n = i - 1 /\ Tail(down)[n] = down[i]
      BY <1>2, <2>3
    <3>2. \A j \in DOMAIN Tail(down) : n < j => ~Brings(Tail(down)[j], o)
      BY <1>2, <2>1, <3>1
    <3>3. QED
      BY <2>1, <3>1, <3>2 DEF DownLast
  <2>4. QED
    BY <2>2, <2>3
<1>5. QED
  BY <1>3, <1>4

(* What is shown stays the last change, step by step.                        *)
LEMMA CurrentOthers ==
  ASSUME Base, NEW x \in Objs, Mount(x) \/ Destroy(x) \/ \E v \in Vals : SetState(x, v),
         NEW o \in Objs, Current(o)
  PROVE  Current(o)'
<1>1. Typed /\ value \in [Objs -> Vals \cup {Birth}]
  BY DEF Base, Typed, TypeOK
<1>2. UNCHANGED <<batch, down, stage, mirror>>
  BY DEF Mount, Destroy, SetState, clientVars, treeVars
<1>3. \A v : /\ BatchLast(o, v)' = BatchLast(o, v) /\ BatchNone(o)' = BatchNone(o)
             /\ DownLast(o, v)' = DownLast(o, v) /\ DownNone(o)' = DownNone(o)
             /\ MirrorHas(o, v)' = MirrorHas(o, v)
  BY <1>2 DEF BatchLast, BatchNone, DownLast, DownNone, MirrorHas
<1>4. ASSUME o \in seen', NEW event \in Events, Publish(event), ~Sets(event, o), o \in seen, UNCHANGED value[o]
      PROVE  Current(o)'
  <2>1. stage = "loop" /\ Watched(o)
    BY <1>4 DEF Current
  <2>2. PICK v \in Vals \cup {Birth} : v = value[o] /\ UpToDate(o, v)
    BY <1>4 DEF Current
  <2>3. (\A w : QueueLast(o, w) => QueueLast(o, w)') /\ (QueueNone(o) => QueueNone(o)')
    BY <1>1, <1>4, <2>1, QueueGrows
  <2>4. UpToDate(o, v)'
    BY <1>3, <2>2, <2>3 DEF UpToDate
  <2>5. Watched(o)'
    <3>1. PICK k \in SubKeys : k = ById(o)
      BY KeysDiffer
    <3>2. queues'[k] = Null <=> queues[k] = Null
      BY <1>1, <1>4, PublishAdds
    <3>3. QED
      BY <2>1, <3>1, <3>2 DEF Watched
  <2>6. value'[o] = v
    BY <1>4, <2>2
  <2>7. QED
    BY <1>2, <2>1, <2>4, <2>5, <2>6 DEF Current
<1> SUFFICES ASSUME o \in seen' PROVE Current(o)'
  BY DEF Current
<1>5. CASE Mount(x) \/ Destroy(x)
  <2>1. UNCHANGED <<value, seen>>
    BY <1>5 DEF Mount, Destroy
  <2>2. PICK event \in Events : Publish(event) /\ event.kind # "StateSet"
    BY <1>5, EventTypes DEF Mount, Destroy, Lifecycle
  <2>3. QED
    BY <1>4, <2>1, <2>2 DEF Sets
<1>6. CASE \E v \in Vals : SetState(x, v)
  <2>1. PICK v \in Vals : SetState(x, v)
    BY <1>6
  <2>2. PICK event \in Events : event = Changed(x, v)
    BY EventTypes
  <2>3. Publish(event) /\ event.kind = "StateSet" /\ event.id = x /\ event.val = v
    BY <2>1, <2>2 DEF SetState, Changed
  <2>4. /\ value' = [value EXCEPT ![x] = v]
        /\ seen' = IF queues[ById(x)] # Null /\ stage = "loop" THEN seen \cup {x} ELSE seen \ {x}
    BY <2>1 DEF SetState
  <2>5. CASE o # x
    <3>1. o \in seen /\ UNCHANGED value[o] /\ ~Sets(event, o)
      BY <1>1, <2>3, <2>4, <2>5 DEF Sets
    <3>2. QED
      BY <1>4, <2>3, <3>1
  <2>6. CASE o = x
    <3>1. Watched(o) /\ stage = "loop"
      BY <2>4, <2>6 DEF Watched
    <3>2. QueueLast(o, v)'
      BY <1>1, <2>3, <2>6, <3>1, QueueGrows DEF Sets
    <3>3. Watched(o)'
      <4>1. PICK k \in SubKeys : k = ById(o)
        BY KeysDiffer
      <4>2. queues'[k] = Null <=> queues[k] = Null
        BY <1>1, <2>3, PublishAdds
      <4>3. QED
        BY <3>1, <4>1, <4>2 DEF Watched
    <3>4. value'[o] = v /\ UpToDate(o, v)'
      BY <1>1, <2>4, <2>6, <3>2 DEF UpToDate
    <3>5. QED
      BY <1>2, <3>1, <3>3, <3>4 DEF Current
  <2>7. QED
    BY <2>5, <2>6
<1>7. QED
  BY <1>5, <1>6

(* A step that changes neither the object, nor what is seen, nor the stage.  *)
LEMMA CurrentKept ==
  ASSUME NEW o \in Objs, Current(o), UNCHANGED <<serverVars, stage>>, Watched(o) => Watched(o)',
         \A v \in Vals \cup {Birth} : stage = "loop" /\ Watched(o) /\ UpToDate(o, v) => UpToDate(o, v)'
  PROVE  Current(o)'
<1> SUFFICES ASSUME o \in seen' PROVE Current(o)'
  BY DEF Current
<1>1. o \in seen /\ value'[o] = value[o] /\ stage' = stage
  BY DEF serverVars
<1>2. stage = "loop" /\ Watched(o)
  BY <1>1 DEF Current
<1>3. PICK v \in Vals \cup {Birth} : v = value[o] /\ UpToDate(o, v)
  BY <1>1 DEF Current
<1>4. UpToDate(o, v)'
  BY <1>2, <1>3
<1>5. v = value'[o]
  BY <1>1, <1>3
<1>6. QED
  BY <1>1, <1>2, <1>4, <1>5 DEF Current

LEMMA CurrentLink ==
  ASSUME Base, ServerStep \/ PushStep, NEW o \in Objs, Current(o)
  PROVE  Current(o)'
<1>1. /\ Typed /\ Addressed /\ Once(o) /\ UNCHANGED <<serverVars, stage, mirror>>
  BY DEF Base, ServerStep, PushStep, TakeRequest, WriteReply, WriteEvent, DrainOne, clientVars, treeVars
<1>2. Watched(o) => Watched(o)'
  BY WatchSteps DEF Base, Once, Next
<1>3. PICK k \in SubKeys : k = ById(o)
  BY KeysDiffer
<1>4. /\ up \in Seq(Requests) /\ batch \in Seq(Events) /\ queues \in [SubKeys -> Seq(Events) \cup {Null}]
      /\ reply \in Answers \cup {Null}
  BY <1>1 DEF Typed, TypeOK
<1>5. \A v : MirrorHas(o, v)' = MirrorHas(o, v)
  BY <1>1 DEF MirrorHas
<1>6. ASSUME UNCHANGED batch PROVE \A v : BatchLast(o, v)' = BatchLast(o, v) /\ BatchNone(o)' = BatchNone(o)
  BY <1>6 DEF BatchLast, BatchNone
<1>7. ASSUME UNCHANGED down PROVE \A v : DownLast(o, v)' = DownLast(o, v) /\ DownNone(o)' = DownNone(o)
  BY <1>7 DEF DownLast, DownNone
<1>8. ASSUME Waiting(k)' = Waiting(k)
      PROVE  \A v : QueueLast(o, v)' = QueueLast(o, v) /\ QueueNone(o)' = QueueNone(o)
  BY <1>3, <1>8 DEF QueueLast, QueueNone
<1>9. ASSUME queues'[k] = queues[k] PROVE Waiting(k)' = Waiting(k)
  BY <1>9 DEF Waiting
<1>10. CASE TakeRequest
  <2>1. /\ up # << >> /\ UNCHANGED <<batch, down>>
        /\ \/ Head(up).kind = "Subscribe" /\ queues' = [queues EXCEPT ![Head(up).of] = << >>]
           \/ queues' = queues
    BY <1>10 DEF TakeRequest
  <2>2. PICK r \in Requests : r = Head(up) /\ r = up[1] /\ 1 \in DOMAIN up
    BY <1>4, <2>1, TailFacts
  <2>3. ASSUME Watched(o) PROVE queues'[k] = queues[k]
    <3>1. ~InAsked(o, 1)
      BY <1>1, <2>3 DEF Once, AskedToWatch
    <3>2. ~(r.kind = "Subscribe" /\ r.of = k)
      BY <1>3, <2>2, <3>1, RequestForms DEF InAsked
    <3>3. QED
      BY <1>4, <2>1, <2>2, <3>2, RequestTypes
  <2>4. ASSUME Watched(o), NEW v, UpToDate(o, v) PROVE UpToDate(o, v)'
    <3>1. QueueLast(o, v)' = QueueLast(o, v) /\ QueueNone(o)' = QueueNone(o)
      BY <1>8, <1>9, <2>3, <2>4
    <3>2. QED
      BY <1>5, <1>6, <1>7, <2>1, <2>4, <3>1 DEF UpToDate
  <2>5. QED
    BY <1>1, <1>2, <2>4, CurrentKept
<1>11. CASE WriteReply
  <2>1. reply # Null /\ down' = Append(down, reply) /\ UNCHANGED <<queues, batch>>
    BY <1>11 DEF WriteReply
  <2>2. PICK f \in Frames : f = reply /\ f.kind # "Event"
    BY <1>4, <2>1, FrameTypes
  <2>3. (\A v : DownLast(o, v) => DownLast(o, v)') /\ (DownNone(o) => DownNone(o)')
    BY <1>1, <2>1, <2>2, DownGrows DEF Brings
  <2>4. ASSUME NEW v, UpToDate(o, v) PROVE UpToDate(o, v)'
    BY <1>5, <1>6, <1>8, <1>9, <2>1, <2>3, <2>4 DEF UpToDate
  <2>5. QED
    BY <1>1, <1>2, <2>4, CurrentKept
<1>12. CASE WriteEvent
  <2>1. /\ batch # << >> /\ down' = Append(down, Frame("Event", Head(batch).id, Head(batch)))
        /\ batch' = Tail(batch) /\ UNCHANGED queues
    BY <1>12 DEF WriteEvent
  <2>2. PICK e \in Events : e = Head(batch)
    BY <1>4, <2>1, TailFacts
  <2>3. PICK f \in Frames : f = Frame("Event", e.id, e)
    BY EventTypes
  <2>4. f.body = e /\ (Brings(f, o) <=> Sets(e, o))
    BY <2>3 DEF Frame, Brings
  <2>5. /\ Sets(e, o) => DownLast(o, e.val)'
        /\ ~Sets(e, o) => (\A v : DownLast(o, v) => DownLast(o, v)') /\ (DownNone(o) => DownNone(o)')
    BY <1>1, <2>1, <2>2, <2>3, <2>4, DownGrows
  <2>6. \A v : /\ BatchLast(o, v) => \/ BatchLast(o, v)'
                                     \/ BatchNone(o)' /\ Sets(e, o) /\ e.val = v
               /\ BatchNone(o) => BatchNone(o)' /\ ~Sets(e, o)
    BY <1>1, <2>1, <2>2, BatchShrinks
  <2>7. ASSUME NEW v, UpToDate(o, v) PROVE UpToDate(o, v)'
    <3>1. QueueLast(o, v)' = QueueLast(o, v) /\ QueueNone(o)' = QueueNone(o)
      BY <1>8, <1>9, <2>1
    <3>2. CASE QueueLast(o, v)
      BY <3>1, <3>2 DEF UpToDate
    <3>3. CASE QueueNone(o) /\ BatchLast(o, v)
      <4>1. CASE BatchLast(o, v)'
        BY <3>1, <3>3, <4>1 DEF UpToDate
      <4>2. CASE BatchNone(o)' /\ Sets(e, o) /\ e.val = v
        <5>1. DownLast(o, v)'
          BY <2>5, <4>2
        <5>2. QED
          BY <3>1, <3>3, <4>2, <5>1 DEF UpToDate
      <4>3. QED
        BY <2>6, <3>3, <4>1, <4>2
    <3>4. CASE QueueNone(o) /\ BatchNone(o) /\ DownLast(o, v)
      BY <2>5, <2>6, <3>1, <3>4 DEF UpToDate
    <3>5. CASE QueueNone(o) /\ BatchNone(o) /\ DownNone(o) /\ MirrorHas(o, v)
      BY <1>5, <2>5, <2>6, <3>1, <3>5 DEF UpToDate
    <3>6. QED
      BY <2>7, <3>2, <3>3, <3>4, <3>5 DEF UpToDate
  <2>8. QED
    BY <1>1, <1>2, <2>7, CurrentKept
<1>13. CASE \E m \in SubKeys : DrainOne(m)
  <2>1. PICK m \in SubKeys : DrainOne(m)
    BY <1>13
  <2>2. /\ batch = << >> /\ batch' = queues[m] /\ queues' = [queues EXCEPT ![m] = << >>]
        /\ UNCHANGED down /\ Waiting(m) = queues[m]
    BY <2>1 DEF DrainOne, Waiting
  <2>3. \A i : i \notin DOMAIN << >>
    OBVIOUS
  <2>4. \A v : ~BatchLast(o, v)
    BY <2>2, <2>3 DEF BatchLast
  <2>5. CASE m = k
    <3>1. Waiting(k)' = << >>
      <4>1. queues'[k] = << >>
        BY <1>4, <2>2, <2>5
      <4>2. QED
        BY <4>1 DEF Waiting
    <3>2. QueueNone(o)'
      BY <1>3, <2>3, <3>1 DEF QueueNone
    <3>3. \A v : QueueLast(o, v) => BatchLast(o, v)'
      BY <1>3, <2>2, <2>5 DEF QueueLast, BatchLast
    <3>4. QueueNone(o) => BatchNone(o)'
      BY <1>3, <2>2, <2>5 DEF QueueNone, BatchNone
    <3>5. ASSUME NEW v, UpToDate(o, v) PROVE UpToDate(o, v)'
      BY <1>5, <1>7, <2>2, <2>4, <3>2, <3>3, <3>4, <3>5 DEF UpToDate
    <3>6. QED
      BY <1>1, <1>2, <3>5, CurrentKept
  <2>6. CASE m # k
    <3>1. queues'[k] = queues[k]
      BY <1>4, <2>2, <2>6
    <3>2. BatchNone(o)'
      BY <1>1, <1>3, <2>2, <2>6, OnlyItsQueue DEF BatchNone
    <3>3. ASSUME NEW v, UpToDate(o, v) PROVE UpToDate(o, v)'
      <4>1. QueueLast(o, v)' = QueueLast(o, v) /\ QueueNone(o)' = QueueNone(o)
        BY <1>8, <1>9, <3>1
      <4>2. QED
        BY <1>5, <1>7, <2>2, <2>4, <3>2, <3>3, <4>1 DEF UpToDate
    <3>4. QED
      BY <1>1, <1>2, <3>3, CurrentKept
  <2>7. QED
    BY <2>5, <2>6
<1>14. QED
  BY <1>10, <1>11, <1>12, <1>13 DEF ServerStep, PushStep

LEMMA CurrentFrame ==
  ASSUME Base, TakesFrame, NEW o \in Objs, Current(o)
  PROVE  Current(o)'
<1>1. Typed /\ Startup /\ Addressed /\ Once(o)
  BY DEF Base
<1>2. /\ down # << >> /\ down' = Tail(down) /\ Head(down) \in Frames
      /\ UNCHANGED <<serverVars, queues, batch>>
  BY <1>1, FrameTaken
<1>3. CASE o \notin seen
  BY <1>2, <1>3 DEF Current, serverVars
<1>4. CASE o \in seen
  <2>1. stage = "loop" /\ ~waiting /\ Watched(o) /\ ~Coming(o)
    BY <1>1, <1>4 DEF Current, Startup, Once
  <2>2. ~ReadFrame
    BY <1>1, <2>1, ReadCases
  <2>3. UNCHANGED stage
    BY <1>1, <2>2, HandleCases
  <2>4. Watched(o) => Watched(o)'
    BY <1>2 DEF Watched
  <2>5. /\ \A v : QueueLast(o, v)' = QueueLast(o, v) /\ BatchLast(o, v)' = BatchLast(o, v)
        /\ QueueNone(o)' = QueueNone(o) /\ BatchNone(o)' = BatchNone(o)
    BY <1>2 DEF QueueLast, QueueNone, BatchLast, BatchNone, Waiting
  <2>6. PICK f \in Frames : f = Head(down) /\ f = down[1] /\ 1 \in DOMAIN down
    <3>1. down \in Seq(Frames)
      BY <1>1, TypedParts DEF LinkTypes
    <3>2. QED
      BY <1>2, <3>1, TailFacts
  <2>7. \A v : /\ DownLast(o, v) => \/ DownLast(o, v)'
                                    \/ DownNone(o)' /\ Brings(f, o) /\ f.body.val = v
               /\ DownNone(o) => DownNone(o)' /\ ~Brings(f, o)
    BY <1>1, <1>2, <2>6, DownShrinks
  <2>8. Brings(f, o) => f.kind = "Event" /\ f.body.kind = "StateSet" /\ f.of = o
    BY <1>1, <2>6 DEF Brings, Sets, Addressed
  <2>9. mirror \in [Objs -> Bodies \cup {Null}] /\ roots \subseteq Objs /\ orphans \in [Objs -> SUBSET Objs]
    BY <1>1, TypedParts DEF TreeTypes
  <2>10. ASSUME Brings(f, o) PROVE MirrorHas(o, f.body.val)'
    <3>1. SetInMirror(o, f.body.val)
      BY <1>1, <2>2, <2>6, <2>8, <2>10, HandleCases
    <3>2. f.body \in Events
      BY <2>8, <2>10, FrameTypes
    <3>3. PICK v \in Vals : v = f.body.val
      BY <2>8, <2>10, <3>2, EventTypes
    <3>4. mirror'[o] # Null => mirror'[o].val = v
      BY <2>9, <3>1, <3>3, SetFacts
    <3>5. QED
      BY <3>3, <3>4, <1>2, <2>6 DEF MirrorHas
  <2>11. ASSUME ~Brings(f, o), NEW v, MirrorHas(o, v) PROVE MirrorHas(o, v)'
    <3>1. CASE UNCHANGED treeVars
      BY <2>11, <3>1 DEF MirrorHas, treeVars
    <3>2. CASE Fills
      <4>1. PICK x \in Objs, obj \in Bodies : x = f.of /\ obj = f.body
        BY <2>6, <3>2 DEF Fills
      <4>2. Upsert(x, obj)
        BY <2>6, <3>2, <4>1 DEF Fills
      <4>3. x # o
        BY <1>1, <2>1, <2>6, <3>2, <4>1, TicketsFrame DEF Fills, Carries, Once
      <4>4. /\ mirror'[o] = Null <=> mirror[o] = Null
            /\ mirror[o] # Null => mirror'[o].val = mirror[o].val
        BY <2>9, <4>2, <4>3, UpsertFacts
      <4>5. QED
        BY <2>11, <4>4 DEF MirrorHas
    <3>3. CASE Drops
      <4>1. PICK x \in Objs : x = Head(down).of
        BY <3>3 DEF Drops
      <4>2. Remove(x)
        BY <3>3, <4>1 DEF Drops
      <4>3. mirror'[o] = Null \/ mirror'[o] = mirror[o]
        BY <2>9, <4>2, RemoveFacts
      <4>4. QED
        BY <2>11, <4>3 DEF MirrorHas
    <3>4. CASE Revalues
      <4>1. PICK x \in Objs, w \in Vals : x = f.of /\ w = f.body.val
        BY <2>6, <3>4 DEF Revalues
      <4>2. SetInMirror(x, w)
        BY <2>6, <3>4, <4>1 DEF Revalues
      <4>3. x # o
        BY <1>1, <2>6, <2>11, <3>4, <4>1 DEF Revalues, Brings, Sets, Addressed
      <4>4. mirror'[o] = mirror[o]
        BY <2>9, <4>2, <4>3, SetFacts
      <4>5. QED
        BY <2>11, <4>4 DEF MirrorHas
    <3>5. [Next]_vars
      BY DEF Next, ClientStep, TakesFrame
    <3>6. QED
      BY <1>1, <3>1, <3>2, <3>3, <3>4, <3>5, TreeSteps
  <2>12. ASSUME NEW v, UpToDate(o, v) PROVE UpToDate(o, v)'
    <3>1. CASE QueueLast(o, v) \/ (QueueNone(o) /\ BatchLast(o, v))
      BY <2>5, <3>1 DEF UpToDate
    <3>2. CASE QueueNone(o) /\ BatchNone(o) /\ DownLast(o, v)
      BY <2>5, <2>7, <2>10, <3>2 DEF UpToDate
    <3>3. CASE QueueNone(o) /\ BatchNone(o) /\ DownNone(o) /\ MirrorHas(o, v)
      BY <2>5, <2>7, <2>11, <3>3 DEF UpToDate
    <3>4. QED
      BY <2>12, <3>1, <3>2, <3>3 DEF UpToDate
  <2>13. QED
    BY <1>2, <2>3, <2>4, <2>12, CurrentKept
<1>5. QED
  BY <1>3, <1>4

LEMMA CurrentNext ==
  ASSUME Base, [Next]_vars, NEW o \in Objs, Current(o)
  PROVE  Current(o)'
<1>1. CASE \E x \in Objs : Mount(x) \/ Destroy(x) \/ \E v \in Vals : SetState(x, v)
  BY <1>1, CurrentOthers
<1>2. CASE ServerStep \/ PushStep
  BY <1>2, CurrentLink
<1>3. CASE TakesFrame
  BY <1>3, CurrentFrame
<1>4. CASE AskNext \/ NextStage
  <2>1. stage # "loop"
    BY <1>4 DEF AskNext, NextStage
  <2>2. UNCHANGED serverVars
    BY <1>4 DEF AskNext, NextStage
  <2>3. QED
    BY <2>1, <2>2 DEF Current, serverVars
<1>5. CASE UNCHANGED vars
  BY <1>5 DEF vars, serverVars, clientVars, treeVars, Current, Watched, UpToDate, QueueLast, QueueNone,
     BatchLast, BatchNone, DownLast, DownNone, MirrorHas, Waiting
<1>6. QED
  BY <1>1, <1>2, <1>3, <1>4, <1>5 DEF Next, ClientStep, TakesFrame

SeenInv == Base /\ Doomed /\ \A o \in Objs : Shows(o) /\ Current(o)

LEMMA SeenInvInit == Init => SeenInv
<1> SUFFICES ASSUME Init PROVE SeenInv
  OBVIOUS
<1>1. Base
  BY BaseInit
<1>2. \A k \in SubKeys : Waiting(k) = << >>
  BY DEF Init, Waiting
<1>3. \A i : i \notin DOMAIN << >>
  OBVIOUS
<1>4. Doomed
  BY <1>2, <1>3 DEF Init, Doomed
<1>5. ASSUME NEW o \in Objs PROVE Shows(o) /\ Current(o)
  <2>1. ~AskedToWatch(o) /\ ~Watched(o)
    BY <1>1, NotWatchedEarly DEF Init, Base
  <2>2. stage = "query" /\ seen = {}
    BY DEF Init
  <2>3. QED
    BY <2>1, <2>2 DEF Shows, Current
<1>6. QED
  BY <1>1, <1>4, <1>5 DEF SeenInv

LEMMA SeenInvNext == SeenInv /\ [Next]_vars => SeenInv'
<1> SUFFICES ASSUME SeenInv, [Next]_vars PROVE SeenInv'
  OBVIOUS
<1>1. Base'
  BY BaseNext DEF SeenInv
<1>2. Doomed'
  BY DoomedNext DEF SeenInv, Base
<1>3. \A o \in Objs : Shows(o)' /\ Current(o)'
  BY ShowsNext, CurrentNext DEF SeenInv
<1>4. QED
  BY <1>1, <1>2, <1>3 DEF SeenInv

LEMMA SeenWhenQuiet == SeenInv => SeenIsShown
<1> SUFFICES ASSUME SeenInv, Quiet, NEW o \in seen, life[o] = "live"
             PROVE  mirror[o] # Null /\ mirror[o].val = value[o]
  BY DEF SeenIsShown
<1>1. o \in Objs /\ Shows(o) /\ Current(o)
  <2>1. seen \subseteq Objs
    BY TypedParts DEF SeenInv, Base, ServerTypes
  <2>2. QED
    BY <2>1 DEF SeenInv
<1>2. Watched(o)
  BY <1>1 DEF Current
<1>3. mirror[o] # Null
  BY <1>1, <1>2 DEF Shows, Shown
<1>4. PICK v \in Vals \cup {Birth} : v = value[o] /\ UpToDate(o, v)
  BY <1>1 DEF Current
<1>5. \A i : i \notin DOMAIN << >>
  OBVIOUS
<1>6. Waiting(ById(o)) = << >> /\ batch = << >> /\ down = << >>
  <2>1. PICK k \in SubKeys : k = ById(o)
    BY <1>1, KeysDiffer
  <2>2. queues[k] \in {Null, << >>}
    BY DEF Quiet
  <2>3. QED
    BY <2>1, <2>2 DEF Quiet, Waiting
<1>7. MirrorHas(o, v)
  BY <1>4, <1>5, <1>6 DEF UpToDate, QueueLast, BatchLast, DownLast
<1>8. QED
  BY <1>3, <1>4, <1>7 DEF MirrorHas

(* A change of an object the compositor is subscribed to while its loop runs *)
(* is what the mirror shows once nothing is on its way, however requests,    *)
(* answers and drained events were interleaved: for any objects, types and   *)
(* number of changes.                                                        *)
THEOREM SeenIsShownCorrect == Spec => []SeenIsShown
<1>1. Spec => []SeenInv
  BY SeenInvInit, SeenInvNext, PTL DEF Spec
<1>2. QED
  BY <1>1, SeenWhenQuiet, PTL
=============================================================================
