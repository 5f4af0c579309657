--------------------------- MODULE CompositorClient ---------------------------
(***************************************************************************)
(* The compositor's copy of the object tree: the wire client that fills it *)
(* (compositor/src/server_client.rs) and the tree itself                   *)
(* (compositor/src/tree_model.rs).                                         *)
(*                                                                         *)
(* At startup the client queries every standard type, gets every object it *)
(* learnt of, subscribes to each of them and then to each type; each of    *)
(* these requests waits for one frame.  From then on it only reacts: a     *)
(* Created event makes it send a Get, the GetResult fills the tree and     *)
(* makes it subscribe to the object, and it waits for no reply.            *)
(*                                                                         *)
(* The server's end is the connection of Connection: requests are taken in *)
(* order and the answer is worked out before it is written, while the push *)
(* task drains one subscription after the other, in the order of a hash    *)
(* map, and writes what it drained event by event.                         *)
(*                                                                         *)
(* An object's state is one value.  Types the compositor does not list are *)
(* left out, and so are Invoke events, which it ignores.  The channel to   *)
(* the window thread is in order and has one reader, so the tree is        *)
(* updated where the code sends to it.                                     *)
(***************************************************************************)
EXTENDS Naturals, Sequences

CONSTANTS Objs, Types,
          Birth,     \* the state an object is mounted with
          Vals,      \* the states it can be set to
          TypeOf,    \* [Objs -> Types]
          ParentOf,  \* [Objs -> Objs \cup {Null}]
          MaxSets,   \* bound on the state changes of a behaviour
          Null

ASSUME TreeAssumption ==
  /\ TypeOf \in [Objs -> Types]
  /\ ParentOf \in [Objs -> Objs \cup {Null}]
  /\ \A o \in Objs : ParentOf[o] # o
  /\ MaxSets \in Nat /\ Null \notin Objs

Stages  == {"query", "get", "watch", "watch types", "loop", "dead"}
Bodies   == [val : Vals \cup {Birth}, kids : SUBSET Objs]
Events   == [kind : {"Created", "Destroyed"}, id : Objs, val : {Null}]
              \cup [kind : {"StateSet"}, id : Objs, val : Vals]

SubKeys == [by : {"Id"}, of : Objs] \cup [by : {"Type"}, of : Types]
ById(o)   == [by |-> "Id", of |-> o]
ByType(t) == [by |-> "Type", of |-> t]

Requests == [kind : {"Query"}, of : Types] \cup [kind : {"Get"}, of : Objs]
              \cup [kind : {"Subscribe"}, of : SubKeys]
Answers  == [kind : {"QueryResult"}, of : Types, body : SUBSET Objs]
              \cup [kind : {"GetResult"}, of : Objs, body : Bodies]
              \cup [kind : {"SubscribeAck"}, of : SubKeys, body : {Null}]
Frames   == Answers \cup [kind : {"Event"}, of : Objs, body : Events]

ASSUME NullAssumption == Null \notin Bodies \cup Answers \cup Seq(Events)

VARIABLES
  life,      \* the server's objects: "absent", "live" or "gone"
  value,     \* and their state
  listed,    \* and their children
  queues,    \* the connection's subscriptions: the queue of each, or Null
  batch,     \* events the push task has drained and not written
  up,        \* requests the server has not taken
  reply,     \* the answer it has worked out and not written, or Null
  down,      \* frames the client has not decoded
  held,      \* how many of them lie in accum already
  stage,     \* how far run_server_client is
  todo,      \* what is left to ask for in this stage
  waiting,   \* is a request of a startup stage waiting for its frame?
  ids,       \* all_ids
  pending,   \* pending_gets
  mirror,    \* TreeModel.objects
  roots,     \* TreeModel.roots
  orphans,   \* TreeModel.orphans
  sets,      \* how many state changes there were
  announced, \* history: objects mounted with the loop running and a
             \* subscription to their type in place
  seen       \* history: objects whose last change came with the loop running
             \* and a subscription to the object in place

serverVars == <<life, value, listed, sets, announced, seen>>
treeVars   == <<mirror, roots, orphans>>
clientVars == <<held, stage, todo, waiting, ids, pending, treeVars>>
vars == <<serverVars, queues, batch, up, reply, down, clientVars>>

Lifecycle(kind, o) == [kind |-> kind, id |-> o, val |-> Null]
Changed(o, v)      == [kind |-> "StateSet", id |-> o, val |-> v]

Ask(kind, of)  == [kind |-> kind, of |-> of]
Frame(kind, of, body) == [kind |-> kind, of |-> of, body |-> body]

-----------------------------------------------------------------------------
(* The server and its other clients.                                        *)

Publish(event) ==
  queues' = [k \in SubKeys |->
    IF /\ queues[k] # Null
       /\ \/ k = ById(event.id)
          \/ k = ByType(TypeOf[event.id]) /\ event.kind # "StateSet"
    THEN Append(queues[k], event) ELSE queues[k]]

Mount(o) ==
  /\ life[o] = "absent"
  /\ life' = [life EXCEPT ![o] = "live"]
  /\ listed' = IF ParentOf[o] # Null /\ life[ParentOf[o]] # "absent"
               THEN [listed EXCEPT ![ParentOf[o]] = @ \cup {o}] ELSE listed
  /\ Publish(Lifecycle("Created", o))
  /\ announced' = IF stage = "loop" /\ queues[ByType(TypeOf[o])] # Null THEN announced \cup {o} ELSE announced
  /\ UNCHANGED <<value, sets, seen, batch, up, reply, down, clientVars>>

SetState(o, v) ==
  /\ life[o] = "live"
  /\ sets < MaxSets
  /\ sets' = sets + 1
  /\ value' = [value EXCEPT ![o] = v]
  /\ Publish(Changed(o, v))
  /\ seen' = IF queues[ById(o)] # Null /\ stage = "loop" THEN seen \cup {o} ELSE seen \ {o}
  /\ UNCHANGED <<life, listed, announced, batch, up, reply, down, clientVars>>

(* The owner's connection ends.                                             *)
Destroy(o) ==
  /\ life[o] = "live"
  /\ life' = [life EXCEPT ![o] = "gone"]
  /\ Publish(Lifecycle("Destroyed", o))
  /\ UNCHANGED <<value, listed, sets, announced, seen, batch, up, reply, down, clientVars>>

-----------------------------------------------------------------------------
(* The server's end of the connection.                                      *)

Answer(r) ==
  CASE r.kind = "Query"     -> Frame("QueryResult", r.of,
                                     {o \in Objs : TypeOf[o] = r.of /\ life[o] = "live"})
    [] r.kind = "Get"       -> Frame("GetResult", r.of,
                                     [val |-> value[r.of], kids |-> listed[r.of]])
    [] r.kind = "Subscribe" -> Frame("SubscribeAck", r.of, Null)

TakeRequest ==
  /\ up # << >> /\ reply = Null
  /\ reply' = Answer(Head(up))
  /\ queues' = IF Head(up).kind = "Subscribe"
               THEN [queues EXCEPT ![Head(up).of] = << >>] ELSE queues
  /\ up' = Tail(up)
  /\ UNCHANGED <<serverVars, batch, down, clientVars>>

WriteReply ==
  /\ reply # Null
  /\ down' = Append(down, reply)
  /\ reply' = Null
  /\ UNCHANGED <<serverVars, queues, batch, up, clientVars>>

DrainOne(k) ==
  /\ batch = << >>
  /\ queues[k] # Null /\ queues[k] # << >>
  /\ batch' = queues[k]
  /\ queues' = [queues EXCEPT ![k] = << >>]
  /\ UNCHANGED <<serverVars, up, reply, down, clientVars>>

WriteEvent ==
  /\ batch # << >>
  /\ down' = Append(down, Frame("Event", Head(batch).id, Head(batch)))
  /\ batch' = Tail(batch)
  /\ UNCHANGED <<serverVars, queues, up, reply, clientVars>>

-----------------------------------------------------------------------------
(* The tree.                                                                *)

(* Mutant: children that came first are not given to their parent.          *)
UpsertForgetful(o, obj) ==
  LET kept == [mirror EXCEPT ![o] = obj]
      p    == ParentOf[o]
      up_  == p # Null /\ kept[p] # Null
  IN  /\ mirror' = IF up_ THEN [kept EXCEPT ![p].kids = @ \cup {o}] ELSE kept
      /\ roots' = IF p = Null THEN roots \cup {o} ELSE roots
      /\ orphans' = [q \in Objs |-> IF q = o THEN {}
                                    ELSE IF q = p /\ ~up_ THEN orphans[q] \cup {o}
                                    ELSE orphans[q]]

(* upsert: the object gets the children that were waiting for it, and its   *)
(* parent gets it, now or when the parent comes.                            *)
Upsert(o, obj) ==
  LET kept == [mirror EXCEPT ![o] = [obj EXCEPT !.kids = @ \cup orphans[o]]]
      p    == ParentOf[o]
      up_  == p # Null /\ kept[p] # Null
  IN  /\ mirror' = IF up_ THEN [kept EXCEPT ![p].kids = @ \cup {o}] ELSE kept
      /\ roots' = IF p = Null THEN roots \cup {o} ELSE roots
      /\ orphans' = [q \in Objs |-> IF q = o THEN {}
                                    ELSE IF q = p /\ ~up_ THEN orphans[q] \cup {o}
                                    ELSE orphans[q]]

Remove(o) ==
  /\ mirror' = [mirror EXCEPT ![o] = Null]
  /\ roots' = roots \ {o}
  /\ UNCHANGED orphans

SetInMirror(o, v) ==
  /\ mirror' = IF mirror[o] = Null THEN mirror ELSE [mirror EXCEPT ![o].val = v]
  /\ UNCHANGED <<roots, orphans>>

-----------------------------------------------------------------------------
(* Startup: four stages, each a loop of one request and one frame.          *)

AskNext ==
  /\ stage \in {"query", "get", "watch", "watch types"}
  /\ ~waiting
  /\ \E x \in todo :
       /\ todo' = todo \ {x}
       /\ up' = Append(up, CASE stage = "query"       -> Ask("Query", x)
                             [] stage = "get"         -> Ask("Get", x)
                             [] stage = "watch"       -> Ask("Subscribe", ById(x))
                             [] stage = "watch types" -> Ask("Subscribe", ByType(x)))
  /\ waiting' = TRUE
  /\ UNCHANGED <<serverVars, queues, batch, reply, down, held, stage, ids, pending, treeVars>>

NextStage ==
  /\ ~waiting /\ todo = {}
  /\ \/ stage = "query" /\ stage' = "get" /\ todo' = ids
     \/ stage = "get" /\ stage' = "watch" /\ todo' = ids
     \/ stage = "watch" /\ stage' = "watch types" /\ todo' = Types
     \/ stage = "watch types" /\ stage' = "loop" /\ todo' = {}
  /\ UNCHANGED <<serverVars, queues, batch, up, reply, down, held, waiting, ids, pending, treeVars>>

(* read_response_body: one frame of accum, which a read fills when it is     *)
(* empty with whatever has arrived.                                         *)
TakeFrame ==
  /\ waiting /\ down # << >>
  /\ down' = Tail(down)
  /\ IF held > 0 THEN held' = held - 1 ELSE held' \in 0 .. Len(down) - 1

(* read_typed ends the client when the frame is another; the frame taken    *)
(* for the ack of a Subscribe may be any.                                   *)
ReadFrame ==
  /\ TakeFrame
  /\ LET f == Head(down) IN
       \/ /\ stage = "query" /\ f.kind = "QueryResult"
          /\ ids' = ids \cup f.body
          /\ UNCHANGED <<stage, treeVars>>
       \/ /\ stage = "get" /\ f.kind = "GetResult"
          /\ Upsert(f.of, f.body)
          /\ UNCHANGED <<stage, ids>>
       \/ /\ stage \in {"watch", "watch types"}
          /\ UNCHANGED <<stage, ids, treeVars>>
       \/ /\ stage = "query" => f.kind # "QueryResult"
          /\ stage = "get" => f.kind # "GetResult"
          /\ stage \notin {"watch", "watch types"}
          /\ stage' = "dead"
          /\ UNCHANGED <<ids, treeVars>>
  /\ waiting' = FALSE
  /\ UNCHANGED <<serverVars, queues, batch, up, reply, todo, pending>>

-----------------------------------------------------------------------------
(* The loop: handle_server_frame and handle_event_frame.  A read decodes all *)
(* there is, but what startup left in accum waits for the first of them.    *)

Decode ==
  /\ stage = "loop"
  /\ Len(down) > held
  /\ down' = Tail(down)
  /\ held' = 0

Handle(kind) ==
  /\ Decode
  /\ Head(down).kind = kind
  /\ UNCHANGED <<serverVars, queues, batch, reply, stage, todo, waiting, ids>>

HandleCreated ==
  /\ Handle("Event") /\ Head(down).body.kind = "Created"
  /\ up' = Append(up, Ask("Get", Head(down).of))
  /\ pending' = pending \cup {Head(down).of}
  /\ UNCHANGED treeVars

HandleDestroyed ==
  /\ Handle("Event") /\ Head(down).body.kind = "Destroyed"
  /\ Remove(Head(down).of)
  /\ UNCHANGED <<up, pending>>

HandleStateSet ==
  /\ Handle("Event") /\ Head(down).body.kind = "StateSet"
  /\ SetInMirror(Head(down).of, Head(down).body.val)
  /\ UNCHANGED <<up, pending>>

(* Mutant: subscribe first, then wait for the next result to fill the tree. *)
HandleGetResultLate ==
  /\ Handle("GetResult")
  /\ Head(down).of \in pending
  /\ pending' = pending \ {Head(down).of}
  /\ up' = Append(up, Ask("Subscribe", ById(Head(down).of)))
  /\ UNCHANGED treeVars

HandleGetResult ==
  /\ Handle("GetResult")
  /\ IF Head(down).of \in pending
     THEN /\ pending' = pending \ {Head(down).of}
          /\ Upsert(Head(down).of, Head(down).body)
          /\ up' = Append(up, Ask("Subscribe", ById(Head(down).of)))
     ELSE UNCHANGED <<pending, treeVars, up>>

HandleOther ==
  /\ Decode
  /\ Head(down).kind \notin {"Event", "GetResult"}
  /\ UNCHANGED <<serverVars, queues, batch, reply, up, stage, todo, waiting, ids, pending, treeVars>>

-----------------------------------------------------------------------------
Init ==
  /\ life = [o \in Objs |-> "absent"] /\ value = [o \in Objs |-> Birth]
  /\ listed = [o \in Objs |-> {}]
  /\ queues = [k \in SubKeys |-> Null] /\ batch = << >>
  /\ up = << >> /\ reply = Null /\ down = << >> /\ held = 0
  /\ stage = "query" /\ todo = Types /\ waiting = FALSE /\ ids = {} /\ pending = {}
  /\ mirror = [o \in Objs |-> Null] /\ roots = {} /\ orphans = [o \in Objs |-> {}]
  /\ sets = 0 /\ announced = {} /\ seen = {}

ServerStep == TakeRequest \/ WriteReply
PushStep   == WriteEvent \/ \E k \in SubKeys : DrainOne(k)
ClientStep ==
  \/ AskNext \/ NextStage \/ ReadFrame
  \/ HandleCreated \/ HandleDestroyed \/ HandleStateSet \/ HandleGetResult \/ HandleOther

Next ==
  \/ \E o \in Objs : Mount(o) \/ Destroy(o) \/ \E v \in Vals : SetState(o, v)
  \/ ServerStep
  \/ PushStep
  \/ ClientStep

Spec == Init /\ [][Next]_vars

(* Both processes poll their tasks; nothing is assumed of the other clients. *)
FairSpec == Spec /\ WF_vars(ServerStep) /\ WF_vars(PushStep) /\ WF_vars(ClientStep)

-----------------------------------------------------------------------------
(* Properties.                                                              *)

TypeOK ==
  /\ life \in [Objs -> {"absent", "live", "gone"}]
  /\ value \in [Objs -> Vals \cup {Birth}] /\ listed \in [Objs -> SUBSET Objs]
  /\ queues \in [SubKeys -> Seq(Events) \cup {Null}] /\ batch \in Seq(Events)
  /\ up \in Seq(Requests) /\ reply \in Answers \cup {Null} /\ down \in Seq(Frames)
  /\ held \in 0 .. Len(down)
  /\ stage \in Stages /\ waiting \in BOOLEAN /\ ids \subseteq Objs /\ pending \subseteq Objs
  /\ mirror \in [Objs -> Bodies \cup {Null}]
  /\ roots \subseteq Objs /\ orphans \in [Objs -> SUBSET Objs]
  /\ sets \in 0 .. MaxSets /\ announced \subseteq Objs /\ seen \subseteq Objs

(* Whatever order parents and children arrive in (tree_model.rs:17), a walk  *)
(* down the mirror finds every object in it whose parents are in it: it is   *)
(* a root or among its parent's children.                                    *)
MirrorTree ==
  /\ TypeOK
  /\ \A o \in Objs : mirror[o] # Null =>
       IF ParentOf[o] = Null THEN o \in roots
       ELSE mirror[ParentOf[o]] # Null => o \in mirror[ParentOf[o]].kids

(* Nothing is on its way between the server and the mirror.                  *)
Quiet ==
  /\ stage = "loop"
  /\ up = << >> /\ reply = Null /\ down = << >> /\ batch = << >>
  /\ \A k \in SubKeys : queues[k] \in {Null, << >>}

(* A change made while the loop runs and the object is subscribed to reaches *)
(* the mirror, and later than anything the mirror had of the object.         *)
SeenIsShown ==
  Quiet => \A o \in seen : life[o] = "live" => mirror[o] # Null /\ mirror[o].val = value[o]

(* KI-004: startup ends in the loop, whatever events come between the acks,  *)
(* and an object mounted while the loop runs and its type is subscribed to    *)
(* is shown in the end.  (The loop may run before the server has taken the    *)
(* last subscriptions: an event taken for an ack puts the client ahead.)      *)
EventuallyShown ==
  /\ <>[](stage = "loop")
  /\ \A o \in Objs : (o \in announced) ~> (life[o] = "gone" \/ mirror[o] # Null)
=============================================================================
