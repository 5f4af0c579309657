-------------------------- MODULE ObjectServer_proofs --------------------------
(***************************************************************************)
(* Proofs about ObjectServer, for any objects, actors, ACLs, blueprints    *)
(* and bounds.                                                             *)
(***************************************************************************)
EXTENDS ObjectServer, FiniteSetTheorems, TLAPS

(* An event emitted by a well-typed server leaves the log and the queues     *)
(* well typed.                                                               *)
LEMMA EmitType ==
  ASSUME TypeOK, NEW e \in Events, NEW type, Emit(e, type)
  PROVE  /\ log' \in Seq(Events)
         /\ subs' \in [SubIds -> Subscriptions \cup {Null}]
<1>1. log' \in Seq(Events)
  BY DEF TypeOK, Emit
<1>2. Len(log) + 1 \in Nat
  BY DEF TypeOK
<1>3. ASSUME NEW sub \in Subscriptions
      PROVE  [sub EXCEPT !.queue = Append(@, Len(log) + 1)] \in Subscriptions
  <2>1. Append(sub.queue, Len(log) + 1) \in Seq(Nat)
    BY <1>2 DEF Subscriptions
  <2>2. QED
    BY <2>1 DEF Subscriptions
<1>4. subs \in [SubIds -> Subscriptions \cup {Null}]
  BY DEF TypeOK
<1>5. subs' \in [SubIds -> Subscriptions \cup {Null}]
  BY <1>3, <1>4 DEF Emit
<1>6. QED
  BY <1>1, <1>5

(* Attaching an object keeps the store and the roots well typed.             *)
LEMMA AttachType ==
  ASSUME TypeOK, NEW id \in ObjectIds, NEW obj \in Objects, Attach(id, obj)
  PROVE  /\ objects' \in [ObjectIds -> Objects \cup {Null}]
         /\ roots' \in Seq(ObjectIds)
<1> DEFINE stored == [objects EXCEPT ![id] = obj]
<1>1. stored \in [ObjectIds -> Objects \cup {Null}]
  BY DEF TypeOK
<1>2. ASSUME NEW p \in ObjectIds, stored[p] # Null
      PROVE  [stored EXCEPT ![p].children = Append(@, id)] \in [ObjectIds -> Objects \cup {Null}]
  <2>1. stored[p] \in Objects
    BY <1>1, <1>2
  <2>2. Append(stored[p].children, id) \in Seq(ObjectIds)
    BY <2>1 DEF Objects
  <2>3. [stored[p] EXCEPT !.children = Append(@, id)] \in Objects
    BY <2>1, <2>2 DEF Objects
  <2>4. QED
    BY <1>1, <2>3
<1>3. obj.parent \in ObjectIds \cup {Null}
  BY DEF Objects
<1>4. roots \in Seq(ObjectIds) /\ Append(roots, id) \in Seq(ObjectIds)
  BY DEF TypeOK
<1> HIDE DEF stored
<1>5. CASE obj.parent = Null \/ (obj.parent # Null /\ stored[obj.parent] = Null)
  BY <1>1, <1>4, <1>5 DEF Attach, stored
<1>6. CASE ~(obj.parent = Null \/ (obj.parent # Null /\ stored[obj.parent] = Null))
  BY <1>1, <1>2, <1>3, <1>4, <1>6 DEF Attach, stored
<1>7. QED
  BY <1>5, <1>6

(* A blueprint is an object, and what it names are ids.                      *)
LEMMA BlueprintType ==
  ASSUME NEW id \in ObjectIds, NEW obj \in Blueprints[id]
  PROVE  /\ obj \in Objects
         /\ ~obj.destroyed
         /\ Range(obj.children) \subseteq ObjectIds
         /\ obj.type \in Types /\ obj.owner \in Actors
<1>1. obj \in Objects /\ ~obj.destroyed
  BY InputAssumption
<1>2. obj.children \in Seq(ObjectIds)
  BY <1>1 DEF Objects
<1>3. QED
  BY <1>1, <1>2 DEF Objects, Range

(* The steps that only touch one variable besides the log.                   *)
LEMMA EventIn ==
  ASSUME NEW kind \in Kinds, NEW actor \in Actors, NEW id \in ObjectIds,
         NEW name \in MethodNames \cup Keys \cup {Null}, NEW value \in Values \cup {Null}
  PROVE  Event(kind, actor, id, name, value) \in Events
BY DEF Event, Events

(* The loop of DisconnectActor only visits objects that are there and belong *)
(* to the actor it is run for.                                               *)
SweepOK == sweeping # Null =>
  \A id \in sweeping.left : objects[id] # Null /\ objects[id].owner = sweeping.actor

(* Type correctness is inductive together with SweepOK.                      *)
LEMMA TypeStep == TypeOK /\ SweepOK /\ [Next]_vars => TypeOK'
<1> SUFFICES ASSUME TypeOK, SweepOK, [Next]_vars PROVE TypeOK'
  OBVIOUS
<1>1. CASE UNCHANGED vars
  BY <1>1 DEF vars, TypeOK
<1>2. ASSUME NEW target \in Targets, NEW filters \in Filters, Register(target, filters)
      PROVE  TypeOK'
  <2>1. [target |-> target, filters |-> filters, queue |-> << >>] \in Subscriptions
    BY InputAssumption DEF Subscriptions
  <2>2. Len(log) \in Nat
    BY DEF TypeOK
  <2>3. [since |-> Len(log), cursor |-> Len(log), got |-> << >>] \in Readers
    BY <2>2 DEF Readers
  <2>4. subs' \in [SubIds -> Subscriptions \cup {Null}]
    BY <1>2, <2>1 DEF Register, TypeOK
  <2>5. reader' \in [SubIds -> Readers]
    BY <1>2, <2>3 DEF Register, TypeOK
  <2>6. nextSub' \in 1 .. MaxSubs + 1
    BY <1>2, BoundAssumption DEF Register, TypeOK
  <2>7. UNCHANGED <<objects, roots, log, grants, sweeping, grafting>>
    BY <1>2 DEF Register
  <2>8. QED
    BY <2>4, <2>5, <2>6, <2>7 DEF TypeOK
<1>3. CASE Subscribe
  BY <1>2, <1>3 DEF Subscribe, Targets
<1>4. CASE SubscribeByType
  BY <1>2, <1>4 DEF SubscribeByType, Targets
<1>5. ASSUME NEW s \in SubIds, Unsubscribe(s) PROVE TypeOK'
  BY <1>5 DEF Unsubscribe, TypeOK
<1>6. ASSUME NEW s \in SubIds, Drain(s) PROVE TypeOK'
  <2>1. subs[s] \in Subscriptions /\ reader[s] \in Readers /\ Len(log) \in Nat
    BY <1>6 DEF Drain, TypeOK
  <2>2. [subs[s] EXCEPT !.queue = << >>] \in Subscriptions
    <3>1. << >> \in Seq(Nat)
      OBVIOUS
    <3>2. ASSUME NEW sub \in Subscriptions
          PROVE  [sub EXCEPT !.queue = << >>] \in Subscriptions
      BY <3>1 DEF Subscriptions
    <3>3. QED
      BY <2>1, <3>2
  <2>3. reader[s].got \o subs[s].queue \in Seq(Nat)
    BY <2>1 DEF Subscriptions, Readers
  <2>4. [reader[s] EXCEPT !.got = reader[s].got \o subs[s].queue, !.cursor = Len(log)] \in Readers
    BY <2>1, <2>3 DEF Readers
  <2>5. subs' \in [SubIds -> Subscriptions \cup {Null}]
    BY <1>6, <2>2 DEF Drain, TypeOK
  <2>6. reader' \in [SubIds -> Readers]
    BY <1>6, <2>4 DEF Drain, TypeOK
  <2>7. QED
    BY <1>6, <2>5, <2>6 DEF Drain, TypeOK
<1>7. ASSUME NEW id \in ObjectIds, Mount(id) PROVE TypeOK'
  <2>1. PICK obj \in Blueprints[id] :
          Attach(id, obj) /\ Emit(Event("Created", obj.owner, id, Null, Null), obj.type)
    BY <1>7 DEF Mount
  <2>2. obj \in Objects /\ obj.owner \in Actors
    BY BlueprintType
  <2>3. Event("Created", obj.owner, id, Null, Null) \in Events
    BY <2>2, EventIn DEF Kinds
  <2>4. log' \in Seq(Events) /\ subs' \in [SubIds -> Subscriptions \cup {Null}]
    BY <2>1, <2>3, EmitType
  <2>5. objects' \in [ObjectIds -> Objects \cup {Null}] /\ roots' \in Seq(ObjectIds)
    BY <2>1, <2>2, AttachType
  <2>6. QED
    BY <1>7, <2>4, <2>5 DEF Mount, TypeOK
<1>8. ASSUME NEW id \in ObjectIds, MountWithDescendants(id) PROVE TypeOK'
  <2>0. PICK obj \in Blueprints[id] :
          \E pick \in [Range(obj.children) -> UNION {Blueprints[c] : c \in Range(obj.children)}] :
            /\ \A c \in Range(obj.children) : pick[c] \in Blueprints[c]
            /\ objects' = [objects EXCEPT ![id] = obj]
            /\ grafting' = [i \in DOMAIN obj.children |->
                              [id |-> obj.children[i], obj |-> pick[obj.children[i]]]]
            /\ Emit(Event("Created", obj.owner, id, Null, Null), obj.type)
    BY <1>8 DEF MountWithDescendants
  <2>1. PICK pick \in [Range(obj.children) -> UNION {Blueprints[c] : c \in Range(obj.children)}] :
          /\ \A c \in Range(obj.children) : pick[c] \in Blueprints[c]
          /\ objects' = [objects EXCEPT ![id] = obj]
          /\ grafting' = [i \in DOMAIN obj.children |->
                            [id |-> obj.children[i], obj |-> pick[obj.children[i]]]]
          /\ Emit(Event("Created", obj.owner, id, Null, Null), obj.type)
    BY <2>0
  <2>2. obj \in Objects /\ obj.owner \in Actors /\ Range(obj.children) \subseteq ObjectIds
    BY BlueprintType
  <2>3. Event("Created", obj.owner, id, Null, Null) \in Events
    BY <2>2, EventIn DEF Kinds
  <2>4. log' \in Seq(Events) /\ subs' \in [SubIds -> Subscriptions \cup {Null}]
    BY <2>1, <2>3, EmitType
  <2>5. objects' \in [ObjectIds -> Objects \cup {Null}] /\ roots' \in Seq(ObjectIds)
    BY <1>8, <2>1, <2>2 DEF MountWithDescendants, TypeOK
  <2>6. ASSUME NEW i \in DOMAIN obj.children
        PROVE  [id |-> obj.children[i], obj |-> pick[obj.children[i]]] \in Grafts
    <3>1. obj.children[i] \in Range(obj.children)
      BY DEF Range
    <3>2. pick[obj.children[i]] \in Blueprints[obj.children[i]] /\ obj.children[i] \in ObjectIds
      BY <2>1, <2>2, <3>1
    <3>3. pick[obj.children[i]] \in Objects
      BY <3>2, BlueprintType
    <3>4. QED
      BY <3>2, <3>3 DEF Grafts
  <2>7. grafting' \in Seq(Grafts)
    <3>1. obj.children \in Seq(ObjectIds)
      BY <2>2 DEF Objects
    <3>2. DOMAIN obj.children = 1 .. Len(obj.children) /\ Len(obj.children) \in Nat
      BY <3>1
    <3>3. grafting' \in [1 .. Len(obj.children) -> Grafts]
      BY <2>1, <2>6, <3>2
    <3>4. QED
      BY <3>2, <3>3
  <2>8. QED
    BY <1>8, <2>4, <2>5, <2>7 DEF MountWithDescendants, TypeOK
<1>9. CASE Graft
  <2>1. Head(grafting) \in Grafts /\ Tail(grafting) \in Seq(Grafts)
    BY <1>9 DEF Graft, TypeOK
  <2> DEFINE d == Head(grafting)
  <2>2. d.id \in ObjectIds /\ d.obj \in Objects /\ d.obj.owner \in Actors
    BY <2>1 DEF Grafts, Objects
  <2>3. Event("Created", d.obj.owner, d.id, Null, Null) \in Events
    BY <2>2, EventIn DEF Kinds
  <2>4. log' \in Seq(Events) /\ subs' \in [SubIds -> Subscriptions \cup {Null}]
    BY <1>9, <2>3, EmitType DEF Graft
  <2>5. objects' \in [ObjectIds -> Objects \cup {Null}]
    BY <1>9, <2>2 DEF Graft, TypeOK
  <2>6. QED
    BY <1>9, <2>1, <2>4, <2>5 DEF Graft, TypeOK
<1>10. ASSUME NEW a \in Actors, NEW id \in ObjectIds, NEW m \in MethodNames, Invoke(a, id, m)
       PROVE  TypeOK'
  <2>1. Event("Invoke", a, id, m, Null) \in Events
    BY EventIn DEF Kinds
  <2>2. log' \in Seq(Events) /\ subs' \in [SubIds -> Subscriptions \cup {Null}]
    BY <1>10, <2>1, EmitType DEF Invoke
  <2>3. QED
    BY <1>10, <2>2 DEF Invoke, TypeOK
<1>11. ASSUME NEW a \in Actors, NEW id \in ObjectIds, NEW k \in Keys, NEW v \in Values,
              SetState(a, id, k, v)
       PROVE  TypeOK'
  <2>1. Event("StateSet", a, id, k, v) \in Events
    BY EventIn DEF Kinds
  <2>2. log' \in Seq(Events) /\ subs' \in [SubIds -> Subscriptions \cup {Null}]
    BY <1>11, <2>1, EmitType DEF SetState
  <2>3. objects[id] \in Objects
    BY <1>11 DEF SetState, Live, Registered, TypeOK
  <2>4. [objects[id] EXCEPT !.state[k] = v] \in Objects
    BY <2>3 DEF Objects
  <2>5. objects' \in [ObjectIds -> Objects \cup {Null}]
    BY <1>11, <2>4 DEF SetState, TypeOK
  <2>6. QED
    BY <1>11, <2>2, <2>5 DEF SetState, TypeOK
<1>12. ASSUME NEW a \in Actors, DisconnectActor(a) PROVE TypeOK'
  <2>1. sweeping' \in Sweeps
    BY <1>12 DEF DisconnectActor, Sweeps, Registered
  <2>2. QED
    BY <1>12, <2>1 DEF DisconnectActor, TypeOK
<1>13. ASSUME NEW id \in ObjectIds, EmitDestroyed(id) PROVE TypeOK'
  <2>1. sweeping \in Sweeps
    BY <1>13 DEF EmitDestroyed, TypeOK
  <2>2. Event("Destroyed", sweeping.actor, id, Null, Null) \in Events
    BY <2>1, EventIn DEF Kinds, Sweeps
  <2>3. log' \in Seq(Events) /\ subs' \in [SubIds -> Subscriptions \cup {Null}]
    BY <1>13, <2>2, EmitType DEF EmitDestroyed
  <2>4. sweeping' \in Sweeps \cup {Null}
    BY <1>13, <2>1 DEF EmitDestroyed, Sweeps
  <2>5. objects[id] \in Objects
    BY <1>13 DEF EmitDestroyed, TypeOK, SweepOK
  <2>6. [objects[id] EXCEPT !.destroyed = TRUE] \in Objects
    BY <2>5 DEF Objects
  <2>7. objects' \in [ObjectIds -> Objects \cup {Null}]
    BY <1>13, <2>6 DEF EmitDestroyed, TypeOK
  <2>8. QED
    BY <1>13, <2>3, <2>4, <2>7 DEF EmitDestroyed, TypeOK
<1>14. ASSUME NEW a \in Grantees, NEW p \in Paths, AddGrant(a, p) \/ RemoveGrant(a, p)
       PROVE  TypeOK'
  BY <1>14, InputAssumption DEF AddGrant, RemoveGrant, TypeOK
<1>15. QED
  BY <1>1, <1>3, <1>4, <1>5, <1>6, <1>7, <1>8, <1>9, <1>10, <1>11, <1>12, <1>13, <1>14
     DEF Next

(* What no operation changes in an object: all an access decision reads.     *)
Alike(o, q) ==
  /\ o.type = q.type /\ o.owner = q.owner /\ o.path = q.path
  /\ o.methods = q.methods /\ o.acl = q.acl

(* Two versions of an object that differ in their children at most.          *)
Same(o, q) == Alike(o, q) /\ o.state = q.state /\ o.destroyed = q.destroyed

(* The store gains id, mounted as obj; children aside, nothing else changes. *)
Stores(id, obj) ==
  /\ objects[id] = Null
  /\ obj \in Blueprints[id]
  /\ objects'[id] # Null /\ Same(objects'[id], obj)
  /\ \A x \in ObjectIds \ {id} :
       /\ objects[x] = Null => objects'[x] = Null
       /\ objects[x] # Null => objects'[x] # Null /\ Same(objects'[x], objects[x])

LEMMA AttachStores ==
  ASSUME TypeOK, NEW id \in ObjectIds, NEW obj \in Blueprints[id], Attach(id, obj),
         objects[id] = Null
  PROVE  Stores(id, obj)
<1> DEFINE stored == [objects EXCEPT ![id] = obj]
<1>1. obj \in Objects /\ Null \notin Objects /\ obj.parent \in ObjectIds \cup {Null}
  BY BlueprintType, InputAssumption DEF Objects
<1>2. stored \in [ObjectIds -> Objects \cup {Null}]
  BY <1>1 DEF TypeOK
<1>3. ASSUME NEW x \in ObjectIds
      PROVE  \/ objects'[x] = stored[x]
             \/ /\ stored[x] # Null /\ objects'[x] \in Objects
                /\ Same(objects'[x], stored[x])
  <2>1. CASE objects' = stored
    BY <2>1
  <2>2. CASE /\ obj.parent \in ObjectIds /\ stored[obj.parent] # Null
             /\ objects' = [stored EXCEPT ![obj.parent].children = Append(@, id)]
    <3>1. CASE x # obj.parent
      BY <1>2, <2>2, <3>1
    <3>2. CASE x = obj.parent
      <4>1. stored[x] \in Objects
        BY <1>2, <2>2, <3>2
      <4>2. objects'[x] = [stored[x] EXCEPT !.children = Append(stored[x].children, id)]
        BY <1>2, <2>2, <3>2
      <4>3. Append(stored[x].children, id) \in Seq(ObjectIds)
        BY <4>1 DEF Objects
      <4>4. objects'[x] \in Objects /\ Same(objects'[x], stored[x])
        BY <4>1, <4>2, <4>3 DEF Objects, Same, Alike
      <4>5. QED
        BY <1>1, <4>1, <4>4
    <3>3. QED
      BY <3>1, <3>2
  <2>3. QED
    BY <1>1, <2>1, <2>2 DEF Attach
<1>4. Same(obj, obj) /\ \A x \in ObjectIds : Same(objects[x], objects[x])
  BY DEF Same, Alike
<1>5. stored[id] = obj /\ \A x \in ObjectIds \ {id} : stored[x] = objects[x]
  BY DEF TypeOK
<1> HIDE DEF stored
<1>6. objects'[id] # Null /\ Same(objects'[id], obj)
  BY <1>1, <1>3, <1>4, <1>5
<1>7. ASSUME NEW x \in ObjectIds \ {id}
      PROVE  /\ objects[x] = Null => objects'[x] = Null
             /\ objects[x] # Null => objects'[x] # Null /\ Same(objects'[x], objects[x])
  BY <1>1, <1>3, <1>4, <1>5
<1>8. QED
  BY <1>6, <1>7 DEF Stores

(* What mount_with_descendants still has to store is not stored yet.         *)
GraftOK ==
  /\ \A i \in DOMAIN grafting : /\ objects[grafting[i].id] = Null
                                /\ grafting[i].obj \in Blueprints[grafting[i].id]
  /\ \A i, j \in DOMAIN grafting : i # j => grafting[i].id # grafting[j].id

Shape == TypeOK /\ SweepOK /\ GraftOK

(* The kinds of step the invariants tell apart.                              *)
Created(id, obj) ==
  Stores(id, obj) /\ Emit(Event("Created", obj.owner, id, Null, Null), obj.type)

Destroyed(id) ==
  /\ objects[id] # Null
  /\ objects' = [objects EXCEPT ![id].destroyed = TRUE]
  /\ Emit(Event("Destroyed", objects[id].owner, id, Null, Null), objects[id].type)

Quiet  == UNCHANGED <<objects, log>>
Silent == Quiet /\ UNCHANGED <<subs, reader, nextSub>>
Opens  == Quiet /\ \E target \in Targets, filters \in Filters : Register(target, filters)
Serves == Quiet /\ \E s \in SubIds : Unsubscribe(s) \/ Drain(s)
Speaks == /\ UNCHANGED <<reader, nextSub>>
          /\ \/ \E id \in ObjectIds : \E obj \in Blueprints[id] : Created(id, obj)
             \/ \E id \in ObjectIds : Destroyed(id)
             \/ \E a \in Actors, id \in ObjectIds, m \in MethodNames : Invoke(a, id, m)
             \/ \E a \in Actors, id \in ObjectIds, k \in Keys, v \in Values :
                   SetState(a, id, k, v)

(* Every step that says something says one event, and about a stored object. *)
LEMMA StepKinds ==
  ASSUME Shape, [Next]_vars
  PROVE  Silent \/ Opens \/ Serves \/ Speaks
<1>1. CASE UNCHANGED vars
  BY <1>1 DEF vars, Quiet, Silent
<1>2. CASE Subscribe
  BY <1>2 DEF Subscribe, Register, Quiet, Opens, Targets
<1>3. CASE SubscribeByType
  BY <1>3 DEF SubscribeByType, Register, Quiet, Opens, Targets
<1>4. ASSUME NEW s \in SubIds, Unsubscribe(s) \/ Drain(s)
      PROVE  Serves
  <2>1. Quiet
    BY <1>4 DEF Unsubscribe, Drain, Quiet
  <2>2. QED
    BY <1>4, <2>1 DEF Serves
<1>5. ASSUME NEW id \in ObjectIds, Mount(id)
      PROVE  Speaks
  <2>1. UNCHANGED <<reader, nextSub>> /\ \E obj \in Blueprints[id] : Created(id, obj)
    BY <1>5, AttachStores DEF Mount, Created, Shape
  <2>2. QED
    BY <2>1 DEF Speaks
<1>6. ASSUME NEW id \in ObjectIds, NEW obj \in Blueprints[id], objects[id] = Null,
             objects' = [objects EXCEPT ![id] = obj]
      PROVE  Stores(id, obj)
  <2>1. obj \in Objects /\ Null \notin Objects
    BY BlueprintType, InputAssumption
  <2>2. objects'[id] = obj /\ \A x \in ObjectIds \ {id} : objects'[x] = objects[x]
    BY <1>6 DEF Shape, TypeOK
  <2>3. QED
    BY <1>6, <2>1, <2>2 DEF Stores, Same, Alike
<1>7. ASSUME NEW id \in ObjectIds, MountWithDescendants(id)
      PROVE  Speaks
  <2>1. UNCHANGED <<reader, nextSub>> /\ \E obj \in Blueprints[id] : Created(id, obj)
    BY <1>6, <1>7 DEF MountWithDescendants, Created
  <2>2. QED
    BY <2>1 DEF Speaks
<1>8. CASE Graft
  <2>1. grafting \in Seq(Grafts) /\ grafting # << >>
    BY <1>8 DEF Graft, Shape, TypeOK
  <2>2. 1 \in DOMAIN grafting /\ Head(grafting) = grafting[1] /\ grafting[1] \in Grafts
    BY <2>1
  <2> DEFINE d == Head(grafting)
  <2>3. d.id \in ObjectIds /\ d.obj \in Blueprints[d.id] /\ objects[d.id] = Null
    BY <2>2 DEF Grafts, Shape, GraftOK
  <2>4. Stores(d.id, d.obj)
    BY <1>6, <1>8, <2>3 DEF Graft
  <2>5. Created(d.id, d.obj) /\ UNCHANGED <<reader, nextSub>>
    BY <1>8, <2>4 DEF Graft, Created
  <2>6. QED
    BY <2>3, <2>5 DEF Speaks
<1>9. ASSUME NEW a \in Actors, NEW id \in ObjectIds, NEW m \in MethodNames, Invoke(a, id, m)
      PROVE  Speaks
  <2>1. UNCHANGED <<reader, nextSub>>
    BY <1>9 DEF Invoke
  <2>2. QED
    BY <1>9, <2>1 DEF Speaks
<1>10. ASSUME NEW a \in Actors, NEW id \in ObjectIds, NEW k \in Keys, NEW v \in Values,
              SetState(a, id, k, v)
       PROVE  Speaks
  <2>1. UNCHANGED <<reader, nextSub>>
    BY <1>10 DEF SetState
  <2>2. QED
    BY <1>10, <2>1 DEF Speaks
<1>11. ASSUME NEW a \in Actors, DisconnectActor(a) PROVE Silent
  BY <1>11 DEF DisconnectActor, Quiet, Silent
<1>12. ASSUME NEW id \in ObjectIds, EmitDestroyed(id) PROVE Speaks
  <2>1. Destroyed(id) /\ UNCHANGED <<reader, nextSub>>
    BY <1>12 DEF EmitDestroyed, Destroyed, Shape, SweepOK
  <2>2. QED
    BY <2>1 DEF Speaks
<1>13. ASSUME NEW a \in Grantees, NEW p \in Paths, AddGrant(a, p) \/ RemoveGrant(a, p)
       PROVE  Silent
  BY <1>13 DEF AddGrant, RemoveGrant, Quiet, Silent
<1>14. QED
  BY <1>1, <1>2, <1>3, <1>4, <1>5, <1>7, <1>8, <1>9, <1>10, <1>11, <1>12, <1>13 DEF Next

(* While nothing is being swept or grafted the loops' conditions are void.   *)
LEMMA IdleShape ==
  ASSUME Idle, UNCHANGED <<sweeping, grafting>>
  PROVE  SweepOK' /\ GraftOK'
BY DEF Idle, SweepOK, GraftOK

LEMMA ShapeStep == Shape /\ [Next]_vars => SweepOK' /\ GraftOK'
<1> SUFFICES ASSUME Shape, [Next]_vars PROVE SweepOK' /\ GraftOK'
  OBVIOUS
<1>1. CASE UNCHANGED vars
  BY <1>1 DEF vars, Shape, SweepOK, GraftOK
<1>2. CASE Subscribe \/ SubscribeByType
  BY <1>2, IdleShape DEF Subscribe, SubscribeByType, Register
<1>3. ASSUME NEW s \in SubIds, Unsubscribe(s) \/ Drain(s) PROVE SweepOK' /\ GraftOK'
  BY <1>3, IdleShape DEF Unsubscribe, Drain
<1>4. ASSUME NEW id \in ObjectIds, Mount(id) PROVE SweepOK' /\ GraftOK'
  BY <1>4, IdleShape DEF Mount
<1>5. ASSUME NEW id \in ObjectIds, MountWithDescendants(id) PROVE SweepOK' /\ GraftOK'
  <2>1. SweepOK'
    BY <1>5 DEF MountWithDescendants, Idle, SweepOK
  <2>2. PICK obj \in Blueprints[id] :
          \E pick \in [Range(obj.children) -> UNION {Blueprints[c] : c \in Range(obj.children)}] :
            /\ \A c \in Range(obj.children) : objects[c] = Null /\ pick[c] \in Blueprints[c]
            /\ objects' = [objects EXCEPT ![id] = obj]
            /\ grafting' = [i \in DOMAIN obj.children |->
                              [id |-> obj.children[i], obj |-> pick[obj.children[i]]]]
    BY <1>5 DEF MountWithDescendants
  <2>3. PICK pick \in [Range(obj.children) -> UNION {Blueprints[c] : c \in Range(obj.children)}] :
          /\ \A c \in Range(obj.children) : objects[c] = Null /\ pick[c] \in Blueprints[c]
          /\ objects' = [objects EXCEPT ![id] = obj]
          /\ grafting' = [i \in DOMAIN obj.children |->
                            [id |-> obj.children[i], obj |-> pick[obj.children[i]]]]
    BY <2>2
  <2>4. ASSUME NEW i \in DOMAIN obj.children
        PROVE  /\ grafting'[i].id = obj.children[i]
               /\ objects'[grafting'[i].id] = Null
               /\ grafting'[i].obj \in Blueprints[grafting'[i].id]
    <3>1. grafting'[i].id = obj.children[i] /\ grafting'[i].obj = pick[obj.children[i]]
      BY <2>3
    <3>2. obj.children[i] \in Range(obj.children)
      BY DEF Range
    <3>3. obj.children[i] \in ObjectIds \ {id}
      BY <3>2, BlueprintType, TreeAssumption
    <3>4. objects[obj.children[i]] = Null /\ pick[obj.children[i]] \in Blueprints[obj.children[i]]
      BY <2>3, <3>2
    <3>5. objects'[obj.children[i]] = Null
      BY <2>3, <3>3, <3>4 DEF Shape, TypeOK
    <3>6. QED
      BY <3>1, <3>4, <3>5
  <2>5. DOMAIN grafting' = DOMAIN obj.children
    BY <2>3
  <2>6. GraftOK'
    <3>1. \A i, j \in DOMAIN obj.children : i # j => obj.children[i] # obj.children[j]
      BY TreeAssumption
    <3>2. \A i, j \in DOMAIN grafting' : i # j => grafting'[i].id # grafting'[j].id
      BY <2>4, <2>5, <3>1
    <3>3. \A i \in DOMAIN grafting' : /\ objects'[grafting'[i].id] = Null
                                      /\ grafting'[i].obj \in Blueprints[grafting'[i].id]
      BY <2>4, <2>5
    <3>4. QED
      BY <3>2, <3>3 DEF GraftOK
  <2>7. QED
    BY <2>1, <2>6
<1>6. CASE Graft
  <2>1. grafting \in Seq(Grafts) /\ grafting # << >> /\ objects \in [ObjectIds -> Objects \cup {Null}]
    BY <1>6 DEF Graft, Shape, TypeOK
  <2> DEFINE d == Head(grafting)
  <2>2. /\ objects' = [objects EXCEPT ![d.id] = d.obj]
        /\ grafting' = Tail(grafting) /\ UNCHANGED sweeping
    BY <1>6 DEF Graft
  <2>3. 1 \in DOMAIN grafting /\ d = grafting[1] /\ objects[d.id] = Null
    BY <2>1 DEF Shape, GraftOK
  <2>4. ASSUME NEW i \in DOMAIN grafting'
        PROVE  i + 1 \in DOMAIN grafting /\ i + 1 # 1 /\ grafting'[i] = grafting[i + 1]
    BY <2>1, <2>2
  <2>5. ASSUME NEW i \in DOMAIN grafting, i # 1
        PROVE  grafting[i].id \in ObjectIds /\ grafting[i].id # d.id
    <3>1. grafting[i] \in Grafts
      BY <2>1
    <3>2. \A j, k \in DOMAIN grafting : j # k => grafting[j].id # grafting[k].id
      BY DEF Shape, GraftOK
    <3>3. grafting[i].id # grafting[1].id
      BY <2>3, <2>5, <3>2
    <3>4. QED
      BY <2>3, <3>1, <3>3 DEF Grafts
  <2>6. ASSUME NEW i \in DOMAIN grafting'
        PROVE  /\ objects'[grafting'[i].id] = Null
               /\ grafting'[i].obj \in Blueprints[grafting'[i].id]
    BY <2>1, <2>2, <2>4, <2>5 DEF Shape, GraftOK
  <2>7. ASSUME NEW i \in DOMAIN grafting', NEW j \in DOMAIN grafting', i # j
        PROVE  grafting'[i].id # grafting'[j].id
    <3>1. DOMAIN grafting' \subseteq Nat
      BY <2>1, <2>2
    <3>2. i + 1 # j + 1
      BY <2>7, <3>1
    <3>3. QED
      BY <2>4, <3>2 DEF Shape, GraftOK
  <2>8. GraftOK'
    BY <2>6, <2>7 DEF GraftOK
  <2>9. SweepOK'
    <3>1. SUFFICES ASSUME sweeping # Null, NEW x \in sweeping.left
                   PROVE  objects'[x] # Null /\ objects'[x].owner = sweeping.actor
      BY <2>2 DEF SweepOK
    <3>2. objects[x] # Null /\ objects[x].owner = sweeping.actor
      BY <3>1 DEF Shape, SweepOK
    <3>3. x \in ObjectIds
      BY <3>1 DEF Shape, TypeOK, Sweeps
    <3>4. x # d.id
      BY <2>3, <3>2
    <3>5. QED
      BY <2>1, <2>2, <3>2, <3>3, <3>4
  <2>10. QED
    BY <2>8, <2>9
<1>7. ASSUME NEW a \in Actors, NEW id \in ObjectIds, NEW m \in MethodNames, Invoke(a, id, m)
      PROVE  SweepOK' /\ GraftOK'
  BY <1>7, IdleShape DEF Invoke
<1>8. ASSUME NEW a \in Actors, NEW id \in ObjectIds, NEW k \in Keys, NEW v \in Values,
             SetState(a, id, k, v)
      PROVE  SweepOK' /\ GraftOK'
  BY <1>8, IdleShape DEF SetState
<1>9. ASSUME NEW a \in Actors, DisconnectActor(a) PROVE SweepOK' /\ GraftOK'
  BY <1>9 DEF DisconnectActor, Registered, Idle, SweepOK, GraftOK
<1>10. ASSUME NEW id \in ObjectIds, EmitDestroyed(id) PROVE SweepOK' /\ GraftOK'
  <2>1. /\ objects \in [ObjectIds -> Objects \cup {Null}] /\ sweeping \in Sweeps
        /\ objects' = [objects EXCEPT ![id].destroyed = TRUE] /\ UNCHANGED grafting
        /\ objects[id] # Null
    BY <1>10 DEF EmitDestroyed, Shape, TypeOK, SweepOK
  <2>2. objects'[id] \in Objects /\ objects'[id].owner = objects[id].owner
    <3>1. objects[id] \in Objects
      BY <2>1
    <3>2. QED
      BY <2>1, <3>1 DEF Objects
  <2>3. objects'[id] # Null
    BY <2>2, InputAssumption
  <2>4. ASSUME NEW x \in sweeping.left
        PROVE  objects'[x] # Null /\ objects'[x].owner = sweeping.actor
    <3>1. objects[x] # Null /\ objects[x].owner = sweeping.actor /\ x \in ObjectIds
      BY <2>1, InputAssumption DEF Shape, SweepOK, Sweeps
    <3>2. CASE x = id
      BY <2>2, <2>3, <3>1, <3>2
    <3>3. CASE x # id
      BY <2>1, <3>1, <3>3
    <3>4. QED
      BY <3>2, <3>3
  <2>5. sweeping' # Null => sweeping'.actor = sweeping.actor /\ sweeping'.left \subseteq sweeping.left
    BY <1>10, <2>1 DEF EmitDestroyed, Sweeps
  <2>6. SweepOK'
    BY <2>4, <2>5 DEF SweepOK
  <2>7. ASSUME NEW i \in DOMAIN grafting PROVE objects'[grafting[i].id] = Null
    <3>1. objects[grafting[i].id] = Null /\ grafting[i] \in Grafts
      BY DEF Shape, TypeOK, GraftOK
    <3>2. grafting[i].id \in ObjectIds /\ grafting[i].id # id
      BY <2>1, <3>1 DEF Grafts
    <3>3. QED
      BY <2>1, <3>1, <3>2
  <2>8. GraftOK'
    BY <2>1, <2>7 DEF Shape, GraftOK
  <2>9. QED
    BY <2>6, <2>8
<1>11. ASSUME NEW a \in Grantees, NEW p \in Paths, AddGrant(a, p) \/ RemoveGrant(a, p)
       PROVE  SweepOK' /\ GraftOK'
  BY <1>11, IdleShape DEF AddGrant, RemoveGrant
<1>12. QED
  BY <1>1, <1>2, <1>3, <1>4, <1>5, <1>6, <1>7, <1>8, <1>9, <1>10, <1>11 DEF Next

LEMMA ShapeInit == Init => Shape
<1> SUFFICES ASSUME Init PROVE Shape
  OBVIOUS
<1>1. [since |-> 0, cursor |-> 0, got |-> << >>] \in Readers
  BY DEF Readers
<1>2. reader \in [SubIds -> Readers]
  BY <1>1 DEF Init
<1>3. nextSub \in 1 .. MaxSubs + 1
  BY BoundAssumption DEF Init
<1>4. TypeOK
  BY <1>2, <1>3 DEF Init, TypeOK
<1>5. QED
  BY <1>4 DEF Init, Shape, SweepOK, GraftOK

(* The server's state keeps its shape, whatever is mounted, invoked,         *)
(* subscribed to, drained or torn down.                                      *)
THEOREM TypeCorrect == Spec => []TypeOK
<1>1. Shape /\ [Next]_vars => Shape'
  BY TypeStep, ShapeStep DEF Shape
<1>2. Shape => TypeOK
  BY DEF Shape
<1>3. QED
  BY ShapeInit, <1>1, <1>2, PTL DEF Spec

-----------------------------------------------------------------------------
(* What saying e does to the store and the log, whichever operation says it. *)
(* A stored object stays, and changes only in what e says of it; an object    *)
(* that comes is the one e creates, as its blueprint has it.                  *)
Keeps(e) == \A x \in ObjectIds : objects[x] # Null =>
  /\ objects'[x] # Null
  /\ Alike(objects'[x], objects[x])
  /\ objects'[x].destroyed <=> objects[x].destroyed \/ (e.kind = "Destroyed" /\ e.target = x)
  /\ \A k \in Keys :
       objects'[x].state[k] = IF e.kind = "StateSet" /\ e.target = x /\ e.name = k
                              THEN e.value ELSE objects[x].state[k]

Brings(e) == \A x \in ObjectIds : objects[x] = Null /\ objects'[x] # Null =>
  /\ x = e.target /\ e.kind = "Created"
  /\ ~objects'[x].destroyed
  /\ \E obj \in Blueprints[x] : obj.state = objects'[x].state

Says(e) ==
  /\ Emit(e, objects'[e.target].type)
  /\ Keeps(e)
  /\ Brings(e)
  /\ objects'[e.target] # Null
  /\ e.kind = "Created" <=> objects[e.target] = Null
  /\ e.kind \in {"Invoke", "StateSet"} => ~objects[e.target].destroyed
  /\ e.kind = "StateSet" => e.name \in Keys
  /\ Licensed(e, objects'[e.target], grants)

(* An access decision reads nothing but what Alike compares.                 *)
LEMMA LicensedAlike ==
  ASSUME NEW e, NEW o, NEW q, NEW held, Alike(o, q)
  PROVE  Licensed(e, o, held) <=> Licensed(e, q, held)
BY DEF Alike, Licensed, IsAllowed

(* Replacing one object by what e makes of it keeps the others.              *)
LEMMA ReplaceSays ==
  ASSUME Shape, NEW id \in ObjectIds, NEW obj \in Objects, NEW e \in Events,
         objects[id] # Null, objects' = [objects EXCEPT ![id] = obj],
         Alike(obj, objects[id]),
         obj.destroyed <=> objects[id].destroyed \/ e.kind = "Destroyed",
         \A k \in Keys : obj.state[k] = IF e.kind = "StateSet" /\ e.name = k
                                        THEN e.value ELSE objects[id].state[k],
         e.target = id, e.kind # "Created", Emit(e, obj.type),
         e.kind \in {"Invoke", "StateSet"} => ~objects[id].destroyed,
         e.kind = "StateSet" => e.name \in Keys,
         Licensed(e, objects[id], grants)
  PROVE  Says(e)
<1>1. objects'[id] = obj /\ \A x \in ObjectIds \ {id} : objects'[x] = objects[x]
  BY DEF Shape, TypeOK
<1>2. obj # Null
  BY InputAssumption
<1>3. Keeps(e)
  BY <1>1, <1>2 DEF Keeps, Alike
<1>4. Brings(e)
  BY <1>1 DEF Brings
<1>5. Licensed(e, objects'[id], grants)
  BY <1>1, LicensedAlike
<1>6. QED
  BY <1>1, <1>2, <1>3, <1>4, <1>5 DEF Says

LEMMA SpeaksSays ==
  ASSUME Shape, Speaks
  PROVE  \E e \in Events : Says(e)
<1>1. ASSUME NEW id \in ObjectIds, NEW obj \in Blueprints[id], Created(id, obj)
      PROVE  \E e \in Events : Says(e)
  <2> DEFINE e == Event("Created", obj.owner, id, Null, Null)
  <2>1. e \in Events
    BY BlueprintType, EventIn DEF Kinds
  <2>2. e.kind = "Created" /\ e.target = id /\ e.actor = obj.owner
    BY DEF Event
  <2>3. Stores(id, obj) /\ Emit(e, obj.type)
    BY <1>1 DEF Created
  <2>4. ~obj.destroyed
    BY BlueprintType
  <2> HIDE DEF e
  <2>5. objects'[id].type = obj.type /\ objects'[id].owner = obj.owner
    BY <2>3 DEF Stores, Same, Alike
  <2>6. Keeps(e)
    BY <2>2, <2>3 DEF Keeps, Stores, Same, Alike
  <2>7. Brings(e)
    BY <2>2, <2>3, <2>4 DEF Brings, Stores, Same
  <2>8. Licensed(e, objects'[id], grants)
    BY <2>2, <2>5 DEF Licensed
  <2>9. Says(e)
    BY <2>2, <2>3, <2>5, <2>6, <2>7, <2>8 DEF Says, Stores
  <2>10. QED
    BY <2>1, <2>9
<1>2. ASSUME NEW id \in ObjectIds, Destroyed(id) PROVE \E e \in Events : Says(e)
  <2> DEFINE e == Event("Destroyed", objects[id].owner, id, Null, Null)
             obj == [objects[id] EXCEPT !.destroyed = TRUE]
  <2>1. objects[id] \in Objects /\ objects[id] # Null
    BY <1>2 DEF Destroyed, Shape, TypeOK
  <2>2. obj \in Objects /\ Alike(obj, objects[id]) /\ obj.destroyed
        /\ obj.state = objects[id].state /\ objects[id].owner \in Actors
    BY <2>1 DEF Objects, Alike
  <2>3. objects' = [objects EXCEPT ![id] = obj] /\ Emit(e, obj.type)
    BY <1>2, <2>2 DEF Destroyed, Alike
  <2>4. e \in Events
    BY <2>2, EventIn DEF Kinds
  <2>5. e.kind = "Destroyed" /\ e.target = id /\ e.actor = objects[id].owner
    BY DEF Event
  <2> HIDE DEF e, obj
  <2>6. Licensed(e, objects[id], grants)
    BY <2>5 DEF Licensed
  <2>7. Says(e)
    BY <2>1, <2>2, <2>3, <2>4, <2>5, <2>6, ReplaceSays
  <2>8. QED
    BY <2>4, <2>7
<1>3. ASSUME NEW a \in Actors, NEW id \in ObjectIds, NEW m \in MethodNames, Invoke(a, id, m)
      PROVE  \E e \in Events : Says(e)
  <2> DEFINE e == Event("Invoke", a, id, m, Null)
  <2>1. e \in Events
    BY EventIn DEF Kinds
  <2>2. e.kind = "Invoke" /\ e.target = id /\ e.actor = a /\ e.name = m
    BY DEF Event
  <2>3. /\ objects[id] # Null /\ objects[id] \in Objects /\ ~objects[id].destroyed
        /\ Emit(e, objects[id].type)
        /\ m \in objects[id].methods /\ IsAllowed(objects[id], a, InvokeOp(m), grants)
        /\ UNCHANGED objects
    BY <1>3 DEF Invoke, Live, Registered, Shape, TypeOK
  <2>4. objects' = [objects EXCEPT ![id] = objects[id]]
    BY <2>3 DEF Shape, TypeOK
  <2> HIDE DEF e
  <2>5. Licensed(e, objects[id], grants) /\ Alike(objects[id], objects[id])
    BY <2>2, <2>3 DEF Licensed, Alike
  <2>6. Says(e)
    BY <2>1, <2>2, <2>3, <2>4, <2>5, ReplaceSays
  <2>7. QED
    BY <2>1, <2>6
<1>4. ASSUME NEW a \in Actors, NEW id \in ObjectIds, NEW k \in Keys, NEW v \in Values,
             SetState(a, id, k, v)
      PROVE  \E e \in Events : Says(e)
  <2> DEFINE e == Event("StateSet", a, id, k, v)
             obj == [objects[id] EXCEPT !.state[k] = v]
  <2>1. e \in Events
    BY EventIn DEF Kinds
  <2>2. e.kind = "StateSet" /\ e.target = id /\ e.actor = a /\ e.name = k /\ e.value = v
    BY DEF Event
  <2>3. /\ objects[id] # Null /\ objects[id] \in Objects /\ ~objects[id].destroyed
        /\ Emit(e, objects[id].type)
        /\ IsAllowed(objects[id], a, SetStateOp(k), grants)
        /\ objects' = [objects EXCEPT ![id].state[k] = v]
    BY <1>4 DEF SetState, Live, Registered, Shape, TypeOK
  <2>4. obj \in Objects /\ Alike(obj, objects[id]) /\ ~obj.destroyed
    BY <2>3 DEF Objects, Alike
  <2>5. \A x \in Keys : obj.state[x] = IF x = k THEN v ELSE objects[id].state[x]
    BY <2>3 DEF Objects
  <2>6. objects' = [objects EXCEPT ![id] = obj] /\ obj.type = objects[id].type
    BY <2>3, <2>4 DEF Alike
  <2> HIDE DEF e, obj
  <2>7. Licensed(e, objects[id], grants)
    BY <2>2, <2>3 DEF Licensed
  <2>8. \A x \in Keys : obj.state[x] = IF e.kind = "StateSet" /\ e.name = x
                                       THEN e.value ELSE objects[id].state[x]
    BY <2>2, <2>5
  <2>9. Says(e)
    <3>1. obj \in Objects /\ objects[id] # Null /\ objects' = [objects EXCEPT ![id] = obj]
          /\ Alike(obj, objects[id]) /\ Emit(e, obj.type)
      BY <2>3, <2>4, <2>6
    <3>2. /\ obj.destroyed <=> objects[id].destroyed \/ e.kind = "Destroyed"
          /\ e.target = id /\ e.kind # "Created"
          /\ e.kind \in {"Invoke", "StateSet"} => ~objects[id].destroyed
          /\ e.kind = "StateSet" => e.name \in Keys
      BY <2>2, <2>3, <2>4
    <3>3. QED
      BY <2>1, <2>7, <2>8, <3>1, <3>2, ReplaceSays
  <2>10. QED
    BY <2>1, <2>9
<1>5. QED
  BY <1>1, <1>2, <1>3, <1>4 DEF Speaks

(* Appending to the log leaves what it held where it was.                    *)
LEMMA Appended ==
  ASSUME TypeOK, NEW e, NEW type, Emit(e, type)
  PROVE  /\ Len(log) \in Nat
         /\ DOMAIN log = 1 .. Len(log)
         /\ DOMAIN log' = DOMAIN log \cup {Len(log) + 1}
         /\ log'[Len(log) + 1] = e
         /\ \A i \in DOMAIN log : log'[i] = log[i] /\ i <= Len(log)
         /\ Len(log') = Len(log) + 1
BY DEF TypeOK, Emit

(* The store remembers what the log says of it.                              *)
Recorded ==
  /\ \A x \in ObjectIds : objects[x] # Null =>
       \E i \in DOMAIN log : log[i].target = x /\ log[i].kind = "Created"
  /\ \A i \in DOMAIN log :
       /\ objects[log[i].target] # Null
       /\ log[i].kind = "Destroyed" => objects[log[i].target].destroyed

LogInv == Shape /\ Recorded /\ LifecycleOrder

LEMMA LogStep == LogInv /\ [Next]_vars => Recorded' /\ LifecycleOrder'
<1> SUFFICES ASSUME LogInv, [Next]_vars PROVE Recorded' /\ LifecycleOrder'
  OBVIOUS
<1>1. CASE Quiet
  BY <1>1 DEF Quiet, LogInv, Recorded, LifecycleOrder
<1>2. CASE Speaks
  <2>1. PICK e \in Events : Says(e)
    BY <1>2, SpeaksSays DEF LogInv
  <2>2. TypeOK /\ Emit(e, objects'[e.target].type)
    BY <2>1 DEF Says, LogInv, Shape
  <2> DEFINE n == Len(log) + 1
  <2>3. /\ Len(log) \in Nat /\ DOMAIN log = 1 .. Len(log)
        /\ DOMAIN log' = DOMAIN log \cup {n}
        /\ log'[n] = e
        /\ \A i \in DOMAIN log : log'[i] = log[i] /\ i <= Len(log)
    BY <2>2, Appended
  <2>4. ASSUME NEW i \in DOMAIN log PROVE log[i].target \in ObjectIds
    <3>1. log[i] \in Events
      BY <2>2 DEF TypeOK
    <3>2. QED
      BY <3>1 DEF Events
  <2>5. e.target \in ObjectIds /\ e.kind \in Kinds
    BY DEF Events
  <2>6. /\ n \in Nat /\ DOMAIN log \subseteq Nat
        /\ n \notin DOMAIN log /\ n <= n /\ \A i \in DOMAIN log : i < n /\ i <= n
    BY <2>3
  <2> HIDE DEF n
  <2>7. Recorded'
    <3>1. ASSUME NEW x \in ObjectIds, objects'[x] # Null
          PROVE  \E i \in DOMAIN log' : log'[i].target = x /\ log'[i].kind = "Created"
      <4>1. CASE objects[x] = Null
        BY <2>1, <2>3, <3>1, <4>1 DEF Says, Keeps, Brings
      <4>2. CASE objects[x] # Null
        BY <2>3, <4>2 DEF LogInv, Recorded
      <4>3. QED
        BY <4>1, <4>2
    <3>2. ASSUME NEW i \in DOMAIN log'
          PROVE  /\ objects'[log'[i].target] # Null
                 /\ log'[i].kind = "Destroyed" => objects'[log'[i].target].destroyed
      <4>1. CASE i = n
        BY <2>1, <2>3, <2>5, <4>1 DEF Says, Keeps
      <4>2. CASE i \in DOMAIN log
        BY <2>1, <2>3, <2>4, <4>2 DEF Says, Keeps, LogInv, Recorded
      <4>3. QED
        BY <2>3, <4>1, <4>2
    <3>3. QED
      BY <3>1, <3>2 DEF Recorded
  <2>8. ASSUME NEW j \in DOMAIN log'
        PROVE  \E i \in DOMAIN log' :
                 i <= j /\ log'[i].target = log'[j].target /\ log'[i].kind = "Created"
    <3>1. CASE j \in DOMAIN log
      BY <2>3, <3>1 DEF LogInv, LifecycleOrder
    <3>2. CASE j = n /\ e.kind = "Created"
      BY <2>3, <2>6, <3>2
    <3>3. CASE j = n /\ e.kind # "Created"
      <4>1. PICK i \in DOMAIN log : log[i].target = e.target /\ log[i].kind = "Created"
        BY <2>1, <2>5, <3>3 DEF Says, LogInv, Recorded
      <4>2. i \in DOMAIN log' /\ log'[i] = log[i] /\ i <= n
        BY <2>3, <2>6
      <4>3. log'[i].target = log'[j].target /\ log'[i].kind = "Created"
        BY <2>3, <3>3, <4>1, <4>2
      <4>4. QED
        BY <3>3, <4>2, <4>3
    <3>4. QED
      BY <2>3, <3>1, <3>2, <3>3
  <2>9. ASSUME NEW j \in DOMAIN log', NEW i \in DOMAIN log', i < j,
               log'[i].target = log'[j].target
        PROVE  /\ log'[j].kind # "Created"
               /\ log'[i].kind = "Destroyed" => log'[j].kind = "Destroyed"
    <3>1. i \in DOMAIN log
      BY <2>3, <2>6, <2>9
    <3>2. CASE j \in DOMAIN log
      BY <2>3, <2>9, <3>1, <3>2 DEF LogInv, LifecycleOrder
    <3>3. CASE j = n
      <4>1. objects[e.target] # Null
        BY <2>3, <2>9, <3>1, <3>3 DEF LogInv, Recorded
      <4>2. e.kind # "Created"
        BY <2>1, <4>1 DEF Says
      <4>3. log[i].kind = "Destroyed" => objects[e.target].destroyed
        BY <2>3, <2>9, <3>1, <3>3 DEF LogInv, Recorded
      <4>4. log[i].kind = "Destroyed" => e.kind = "Destroyed"
        BY <2>1, <2>5, <4>2, <4>3 DEF Says, Kinds
      <4>5. QED
        BY <2>3, <3>1, <3>3, <4>2, <4>4
    <3>4. QED
      BY <2>3, <3>2, <3>3
  <2>10. LifecycleOrder'
    BY <2>8, <2>9 DEF LifecycleOrder
  <2>11. QED
    BY <2>7, <2>10
<1>3. QED
  BY <1>1, <1>2, StepKinds DEF LogInv, Silent, Opens, Serves

LEMMA LogInit == Init => LogInv
<1>1. Init => Recorded /\ LifecycleOrder
  BY DEF Init, Recorded, LifecycleOrder
<1>2. QED
  BY <1>1, ShapeInit DEF LogInv

LEMMA LogInvStep == LogInv /\ [Next]_vars => LogInv'
BY TypeStep, ShapeStep, LogStep DEF LogInv, Shape

(* However operations interleave, an object's events in the log are one      *)
(* Created, then invokes and state changes, then nothing but Destroyed.      *)
THEOREM LifecycleCorrect == Spec => []LifecycleOrder
<1>1. LogInv => LifecycleOrder
  BY DEF LogInv
<1>2. QED
  BY LogInit, LogInvStep, <1>1, PTL DEF Spec

-----------------------------------------------------------------------------
(* No actor holds a grant it cannot be given.                                *)
GrantsOK == \A a \in Actors : grants[a] \subseteq AllGrants[a]

LEMMA GrantsStep == TypeOK /\ GrantsOK /\ [Next]_vars => GrantsOK'
<1> SUFFICES ASSUME TypeOK, GrantsOK, [Next]_vars PROVE GrantsOK'
  OBVIOUS
<1>1. CASE UNCHANGED grants
  BY <1>1 DEF GrantsOK, AllGrants
<1>2. ASSUME NEW a \in Grantees, NEW p \in Paths, AddGrant(a, p) \/ RemoveGrant(a, p)
      PROVE  GrantsOK'
  BY <1>2, InputAssumption DEF AddGrant, RemoveGrant, TypeOK, GrantsOK, AllGrants
<1>3. CASE UNCHANGED vars
  BY <1>1, <1>3 DEF vars
<1>4. CASE Subscribe \/ SubscribeByType
  BY <1>1, <1>4 DEF Subscribe, SubscribeByType, Register
<1>5. ASSUME NEW s \in SubIds, Unsubscribe(s) \/ Drain(s) PROVE GrantsOK'
  BY <1>1, <1>5 DEF Unsubscribe, Drain
<1>6. ASSUME NEW id \in ObjectIds, Mount(id) \/ MountWithDescendants(id) \/ EmitDestroyed(id)
      PROVE  GrantsOK'
  BY <1>1, <1>6 DEF Mount, MountWithDescendants, EmitDestroyed
<1>7. CASE Graft
  BY <1>1, <1>7 DEF Graft
<1>8. ASSUME NEW a \in Actors, NEW id \in ObjectIds, NEW m \in MethodNames, Invoke(a, id, m)
      PROVE  GrantsOK'
  BY <1>1, <1>8 DEF Invoke
<1>9. ASSUME NEW a \in Actors, NEW id \in ObjectIds, NEW k \in Keys, NEW v \in Values,
             SetState(a, id, k, v)
      PROVE  GrantsOK'
  BY <1>1, <1>9 DEF SetState
<1>10. ASSUME NEW a \in Actors, DisconnectActor(a) PROVE GrantsOK'
  BY <1>1, <1>10 DEF DisconnectActor
<1>11. QED
  BY <1>2, <1>3, <1>4, <1>5, <1>6, <1>7, <1>8, <1>9, <1>10 DEF Next

(* Access decisions are monotone in the grants held: a grant only ever adds   *)
(* to what an actor may do.                                                   *)
LEMMA MoreGrantsAllowMore ==
  ASSUME NEW obj, NEW a \in Actors, NEW op, NEW held, NEW more,
         held[a] \subseteq more[a], IsAllowed(obj, a, op, held)
  PROVE  IsAllowed(obj, a, op, more)
BY DEF IsAllowed, IsGranted

LEMMA MoreGrantsLicenseMore ==
  ASSUME GrantsOK, NEW e \in Events, NEW obj, Licensed(e, obj, grants)
  PROVE  Licensed(e, obj, AllGrants)
<1>1. e.actor \in Actors
  BY DEF Events
<1>2. grants[e.actor] \subseteq AllGrants[e.actor]
  BY <1>1 DEF GrantsOK
<1>3. /\ IsAllowed(obj, e.actor, InvokeOp(e.name), grants)
           => IsAllowed(obj, e.actor, InvokeOp(e.name), AllGrants)
      /\ IsAllowed(obj, e.actor, SetStateOp(e.name), grants)
           => IsAllowed(obj, e.actor, SetStateOp(e.name), AllGrants)
  BY <1>1, <1>2, MoreGrantsAllowMore
<1>4. e.kind \in Kinds
  BY DEF Events
<1>5. QED
  BY <1>3, <1>4 DEF Licensed, Kinds

(* What the log is and what it says of the store.                            *)
AuthInv == LogInv /\ GrantsOK /\ EventsAuthorised

LEMMA AuthStep == AuthInv /\ [Next]_vars => EventsAuthorised'
<1> SUFFICES ASSUME AuthInv, [Next]_vars PROVE EventsAuthorised'
  OBVIOUS
<1>1. AllGrants' = AllGrants
  BY DEF AllGrants
<1>2. CASE Quiet
  BY <1>1, <1>2 DEF Quiet, AuthInv, EventsAuthorised
<1>3. CASE Speaks
  <2>1. PICK e \in Events : Says(e)
    BY <1>3, SpeaksSays DEF AuthInv, LogInv
  <2>2. TypeOK /\ Emit(e, objects'[e.target].type)
    BY <2>1 DEF Says, AuthInv, LogInv, Shape
  <2> DEFINE n == Len(log) + 1
  <2>3. /\ DOMAIN log' = DOMAIN log \cup {n} /\ log'[n] = e
        /\ \A i \in DOMAIN log : log'[i] = log[i]
    BY <2>2, Appended
  <2> HIDE DEF n
  <2>4. Licensed(e, objects'[e.target], AllGrants)
    BY <2>1, MoreGrantsLicenseMore DEF Says, AuthInv
  <2>5. ASSUME NEW i \in DOMAIN log
        PROVE  Licensed(log[i], objects'[log[i].target], AllGrants)
    <3>0. log[i] \in Events
      BY <2>2 DEF TypeOK
    <3>1. log[i].target \in ObjectIds /\ objects[log[i].target] # Null
      BY <3>0 DEF Events, AuthInv, LogInv, Recorded
    <3>2. Alike(objects'[log[i].target], objects[log[i].target])
      BY <2>1, <3>1 DEF Says, Keeps
    <3>3. Licensed(log[i], objects[log[i].target], AllGrants)
      BY DEF AuthInv, EventsAuthorised
    <3>4. QED
      BY <3>2, <3>3, LicensedAlike
  <2>6. QED
    BY <1>1, <2>3, <2>4, <2>5 DEF EventsAuthorised
<1>4. QED
  BY <1>2, <1>3, StepKinds DEF AuthInv, LogInv, Silent, Opens, Serves

(* Every event of the log was allowed to its actor by the list of the object  *)
(* it is about, as that object still stands.                                  *)
THEOREM AuthorityCorrect == Spec => []EventsAuthorised
<1>1. Init => AuthInv
  <2>1. Init => GrantsOK /\ EventsAuthorised
    BY DEF Init, GrantsOK, EventsAuthorised
  <2>2. QED
    BY <2>1, LogInit DEF AuthInv
<1>2. AuthInv /\ [Next]_vars => AuthInv'
  BY LogInvStep, GrantsStep, AuthStep DEF AuthInv, LogInv, Shape
<1>3. AuthInv => EventsAuthorised
  BY DEF AuthInv
<1>4. QED
  BY <1>1, <1>2, <1>3, PTL DEF Spec

-----------------------------------------------------------------------------
(* The state value of a key is what the log's last StateSet of it says.      *)
Replays(id, k) ==
  \/ \E i \in DOMAIN log : LastSet(id, k, i) /\ objects[id].state[k] = log[i].value
  \/ /\ \A i \in DOMAIN log : ~LastSet(id, k, i)
     /\ \E obj \in Blueprints[id] : obj.state[k] = objects[id].state[k]

(* A tombstone was destroyed in the log (the converse is in Recorded).       *)
Buried == \A id \in Registered : objects[id].destroyed =>
  \E i \in DOMAIN log : log[i].target = id /\ log[i].kind = "Destroyed"

ReplayInv == LogInv /\ Buried /\ \A id \in Registered, k \in Keys : Replays(id, k)

LEMMA ReplayStep ==
  ReplayInv /\ [Next]_vars => Buried' /\ (\A id \in Registered, k \in Keys : Replays(id, k))'
<1> SUFFICES ASSUME ReplayInv, [Next]_vars
             PROVE  Buried' /\ (\A id \in Registered, k \in Keys : Replays(id, k))'
  OBVIOUS
<1>1. CASE Quiet
  BY <1>1 DEF Quiet, ReplayInv, Buried, Registered, Replays, LastSet
<1>2. CASE Speaks
  <2>1. PICK e \in Events : Says(e)
    BY <1>2, SpeaksSays DEF ReplayInv, LogInv
  <2>2. TypeOK /\ Emit(e, objects'[e.target].type)
    BY <2>1 DEF Says, ReplayInv, LogInv, Shape
  <2>3. PICK n \in Nat :
          /\ DOMAIN log' = DOMAIN log \cup {n} /\ log'[n] = e
          /\ \A i \in DOMAIN log : log'[i] = log[i] /\ i \in Nat /\ i < n
    <3>1. /\ Len(log) \in Nat /\ DOMAIN log = 1 .. Len(log)
          /\ DOMAIN log' = DOMAIN log \cup {Len(log) + 1} /\ log'[Len(log) + 1] = e
          /\ \A i \in DOMAIN log : log'[i] = log[i]
      BY <2>2, Appended
    <3>2. QED
      BY <3>1
  <2>4. ASSUME NEW i \in DOMAIN log PROVE objects[log[i].target] # Null
    BY DEF ReplayInv, LogInv, Recorded
  <2>5. Buried'
    <3>1. SUFFICES ASSUME NEW id \in ObjectIds, objects'[id] # Null, objects'[id].destroyed
                   PROVE  \E i \in DOMAIN log' : log'[i].target = id /\ log'[i].kind = "Destroyed"
      BY DEF Buried, Registered
    <3>2. objects[id] # Null
      BY <2>1, <3>1 DEF Says, Brings
    <3>3. objects[id].destroyed \/ (e.kind = "Destroyed" /\ e.target = id)
      BY <2>1, <3>1, <3>2 DEF Says, Keeps
    <3>4. CASE objects[id].destroyed
      BY <2>3, <3>2, <3>4 DEF ReplayInv, Buried, Registered
    <3>5. CASE e.kind = "Destroyed" /\ e.target = id
      BY <2>3, <3>5
    <3>6. QED
      BY <3>3, <3>4, <3>5
  <2>6. ASSUME NEW id \in ObjectIds, NEW k \in Keys, objects'[id] # Null
        PROVE  Replays(id, k)'
    <3>1. CASE objects[id] = Null
      <4>1. id = e.target /\ e.kind = "Created"
            /\ \E obj \in Blueprints[id] : obj.state = objects'[id].state
        BY <2>1, <2>6, <3>1 DEF Says, Brings
      <4>2. \A i \in DOMAIN log' : ~(log'[i].kind = "StateSet" /\ log'[i].target = id)
        BY <2>3, <2>4, <3>1, <4>1
      <4>3. QED
        BY <4>1, <4>2 DEF Replays, LastSet
    <3>2. CASE objects[id] # Null /\ e.kind = "StateSet" /\ e.target = id /\ e.name = k
      <4>1. LastSet(id, k, n)'
        BY <2>3, <3>2 DEF LastSet
      <4>2. objects'[id].state[k] = e.value
        BY <2>1, <3>2 DEF Says, Keeps
      <4>3. QED
        BY <2>3, <4>1, <4>2 DEF Replays
    <3>3. CASE objects[id] # Null /\ ~(e.kind = "StateSet" /\ e.target = id /\ e.name = k)
      <4>1. objects'[id].state[k] = objects[id].state[k]
        BY <2>1, <3>3 DEF Says, Keeps
      <4>2. \A i \in DOMAIN log : LastSet(id, k, i)' <=> LastSet(id, k, i)
        BY <2>3, <3>3 DEF LastSet
      <4>3. ~LastSet(id, k, n)'
        BY <2>3, <3>3 DEF LastSet
      <4>4. Replays(id, k)
        BY <3>3 DEF ReplayInv, Registered
      <4>5. QED
        BY <2>3, <4>1, <4>2, <4>3, <4>4 DEF Replays
    <3>4. QED
      BY <3>1, <3>2, <3>3
  <2>7. QED
    BY <2>5, <2>6 DEF Registered
<1>3. QED
  BY <1>1, <1>2, StepKinds DEF ReplayInv, LogInv, Silent, Opens, Serves

(* Replaying the log rebuilds the store: which objects there are, which of    *)
(* them are tombstones, and each state value.                                 *)
THEOREM ReplayCorrect == Spec => []LogReplaysToStore
<1>1. Init => ReplayInv
  <2>1. Init => Buried /\ \A id \in Registered, k \in Keys : Replays(id, k)
    BY DEF Init, Buried, Registered
  <2>2. QED
    BY <2>1, LogInit DEF ReplayInv
<1>2. ReplayInv /\ [Next]_vars => ReplayInv'
  BY LogInvStep, ReplayStep DEF ReplayInv
<1>3. ReplayInv => LogReplaysToStore
  <2> SUFFICES ASSUME ReplayInv, NEW id \in ObjectIds
               PROVE  /\ id \in Registered <=>
                           \E i \in DOMAIN log : log[i].target = id /\ log[i].kind = "Created"
                      /\ id \in Registered =>
                           /\ objects[id].destroyed <=>
                                \E i \in DOMAIN log : log[i].target = id /\ log[i].kind = "Destroyed"
                           /\ \A k \in Keys : Replays(id, k)
    BY DEF LogReplaysToStore, Replays
  <2>1. Recorded
    BY DEF ReplayInv, LogInv
  <2>2. QED
    BY <2>1 DEF ReplayInv, Recorded, Buried, Registered
<1>4. QED
  BY <1>1, <1>2, <1>3, PTL DEF Spec

-----------------------------------------------------------------------------
(* Listings: appending keeps what a listing names, and names no id twice if   *)
(* the new one was not there.                                                 *)
LEMMA AppendListing ==
  ASSUME NEW seq \in Seq(ObjectIds), NEW x \in ObjectIds
  PROVE  /\ InSeq(x, Append(seq, x))
         /\ \A y : InSeq(y, seq) => InSeq(y, Append(seq, x))
         /\ Distinct(seq) /\ ~InSeq(x, seq) => Distinct(Append(seq, x))
<1>1. /\ DOMAIN seq = 1 .. Len(seq) /\ Len(seq) \in Nat
      /\ DOMAIN Append(seq, x) = DOMAIN seq \cup {Len(seq) + 1}
      /\ \A i \in DOMAIN seq : Append(seq, x)[i] = seq[i]
      /\ Append(seq, x)[Len(seq) + 1] = x
  OBVIOUS
<1>2. InSeq(x, Append(seq, x))
  BY <1>1 DEF InSeq
<1>3. \A y : InSeq(y, seq) => InSeq(y, Append(seq, x))
  BY <1>1 DEF InSeq
<1>4. Distinct(seq) /\ ~InSeq(x, seq) => Distinct(Append(seq, x))
  BY <1>1 DEF InSeq, Distinct
<1>5. QED
  BY <1>2, <1>3, <1>4

(* The first conjunct of TreeReachable.                                      *)
Walkable ==
  \A set \in SUBSET Registered : set # {} =>
    \/ \E id \in set : InSeq(id, roots)
    \/ \E id \in set, p \in Registered \ set : InSeq(id, objects[p].children)

Listings ==
  /\ Distinct(roots)
  /\ \A i \in DOMAIN roots : objects[roots[i]] # Null
  /\ \A p \in Registered : Distinct(objects[p].children)

(* What mount_with_descendants still has to store is listed already.         *)
Awaited == \A i \in DOMAIN grafting :
  \E p \in Registered : InSeq(grafting[i].id, objects[p].children)

TreeInv == Shape /\ Walkable /\ Listings /\ Awaited

(* A step that touches neither the listings nor which objects there are.     *)
TreeRests ==
  /\ UNCHANGED <<roots, grafting>>
  /\ \A x \in ObjectIds : objects[x] = Null <=> objects'[x] = Null
  /\ \A x \in ObjectIds : objects[x] # Null => objects'[x].children = objects[x].children

(* A step that stores id: under the roots, or in the listing of another      *)
(* object, which gains at most id.                                           *)
Grows(id) ==
  /\ objects[id] = Null /\ objects'[id] # Null
  /\ Distinct(objects'[id].children)
  /\ \A x \in ObjectIds \ {id} :
       /\ objects[x] = Null <=> objects'[x] = Null
       /\ objects[x] # Null =>
            \/ objects'[x].children = objects[x].children
            \/ /\ ~InSeq(id, objects[x].children)
               /\ objects'[x].children = Append(objects[x].children, id)
  /\ \/ roots' = Append(roots, id)
     \/ /\ roots' = roots
        /\ \E p \in ObjectIds \ {id} : objects'[p] # Null /\ InSeq(id, objects'[p].children)

LEMMA RestsTree == TreeInv /\ TreeRests => Walkable' /\ Listings' /\ Awaited'
<1> SUFFICES ASSUME TreeInv, TreeRests PROVE Walkable' /\ Listings' /\ Awaited'
  OBVIOUS
<1>1. /\ Registered' = Registered /\ roots' = roots /\ grafting' = grafting
      /\ \A p \in Registered : objects'[p].children = objects[p].children
  BY DEF TreeRests, Registered
<1>2. Walkable'
  BY <1>1 DEF TreeInv, Walkable
<1>3. \A i \in DOMAIN roots : roots[i] \in ObjectIds
  BY DEF TreeInv, Shape, TypeOK
<1>4. Listings'
  BY <1>1, <1>3 DEF TreeInv, Listings, TreeRests
<1>5. Awaited'
  BY <1>1 DEF TreeInv, Awaited
<1>6. QED
  BY <1>2, <1>4, <1>5

LEMMA GrowsTree ==
  ASSUME TreeInv, NEW id \in ObjectIds, Grows(id)
  PROVE  /\ Walkable' /\ Listings'
         /\ \A p \in Registered :
              p \in Registered' /\ \A x : InSeq(x, objects[p].children) => InSeq(x, objects'[p].children)
<1>1. id \notin Registered /\ Registered' = Registered \cup {id}
  BY DEF Grows, Registered
<1>2. roots \in Seq(ObjectIds) /\ \A p \in Registered : objects[p].children \in Seq(ObjectIds)
  <2>1. \A p \in Registered : objects[p] \in Objects
    BY DEF TreeInv, Shape, TypeOK, Registered
  <2>2. QED
    BY <2>1 DEF TreeInv, Shape, TypeOK, Objects
<1>3. ASSUME NEW p \in Registered
      PROVE  /\ \A x : InSeq(x, objects[p].children) => InSeq(x, objects'[p].children)
             /\ Distinct(objects'[p].children)
  <2>1. p \in ObjectIds \ {id} /\ objects[p] # Null /\ Distinct(objects[p].children)
    BY <1>1 DEF Registered, TreeInv, Listings
  <2>2. CASE objects'[p].children = objects[p].children
    BY <2>1, <2>2
  <2>3. CASE /\ ~InSeq(id, objects[p].children)
             /\ objects'[p].children = Append(objects[p].children, id)
    BY <1>2, <2>1, <2>3, AppendListing
  <2>4. QED
    BY <2>1, <2>2, <2>3 DEF Grows
<1>4. ~InSeq(id, roots)
  BY DEF TreeInv, Listings, Grows, InSeq
<1>5. Distinct(roots') /\ \A x : InSeq(x, roots) => InSeq(x, roots')
  BY <1>2, <1>4, AppendListing DEF Grows, TreeInv, Listings
<1>6. ASSUME NEW i \in DOMAIN roots' PROVE objects'[roots'[i]] # Null
  <2>1. roots'[i] = id \/ (i \in DOMAIN roots /\ roots'[i] = roots[i])
    BY <1>2 DEF Grows
  <2>2. ASSUME i \in DOMAIN roots PROVE roots[i] \in Registered
    BY <1>2, <2>2 DEF TreeInv, Listings, Registered
  <2>3. QED
    BY <1>1, <2>1, <2>2 DEF Grows, Registered
<1>7. Listings'
  BY <1>1, <1>3, <1>5, <1>6 DEF Listings, Grows
<1>8. Walkable'
  <2>1. SUFFICES ASSUME NEW set \in SUBSET Registered', set # {}
                 PROVE  \/ \E x \in set : InSeq(x, roots')
                        \/ \E x \in set, p \in Registered' \ set : InSeq(x, objects'[p].children)
    BY DEF Walkable
  <2>2. CASE set = {id}
    <3>1. CASE roots' = Append(roots, id)
      BY <1>2, <2>2, <3>1, AppendListing
    <3>2. CASE \E p \in ObjectIds \ {id} : objects'[p] # Null /\ InSeq(id, objects'[p].children)
      BY <2>2, <3>2 DEF Registered
    <3>3. QED
      BY <3>1, <3>2 DEF Grows
  <2>3. CASE set # {id}
    <3> DEFINE old == set \ {id}
    <3>1. old \in SUBSET Registered /\ old # {}
      BY <1>1, <2>1, <2>3
    <3>2. \/ \E x \in old : InSeq(x, roots)
          \/ \E x \in old, p \in Registered \ old : InSeq(x, objects[p].children)
      BY <3>1 DEF TreeInv, Walkable
    <3>3. CASE \E x \in old : InSeq(x, roots)
      BY <1>5, <3>3
    <3>4. CASE \E x \in old, p \in Registered \ old : InSeq(x, objects[p].children)
      <4>1. PICK x \in old, p \in Registered \ old : InSeq(x, objects[p].children)
        BY <3>4
      <4>2. p \in Registered' \ set
        BY <1>1, <4>1
      <4>3. QED
        BY <1>3, <4>1, <4>2
    <3>5. QED
      BY <3>2, <3>3, <3>4
  <2>4. QED
    BY <2>2, <2>3
<1>9. QED
  BY <1>1, <1>3, <1>7, <1>8

LEMMA AttachGrows ==
  ASSUME TypeOK, NEW id \in ObjectIds, NEW obj \in Blueprints[id], Attach(id, obj),
         objects[id] = Null
  PROVE  Grows(id)
<1> DEFINE stored == [objects EXCEPT ![id] = obj]
           p      == obj.parent
<1>1. /\ obj \in Objects /\ obj # Null /\ p \in ObjectIds \cup {Null} /\ p # id
      /\ Distinct(obj.children)
  BY BlueprintType, InputAssumption, TreeAssumption DEF Objects, Distinct
<1>2. /\ stored \in [ObjectIds -> Objects \cup {Null}] /\ stored[id] = obj
      /\ \A x \in ObjectIds \ {id} : stored[x] = objects[x]
  BY <1>1 DEF TypeOK
<1>3. CASE p = Null \/ stored[p] = Null
  <2>1. objects' = stored /\ roots' = Append(roots, id)
    BY <1>3 DEF Attach
  <2> HIDE DEF stored
  <2>2. QED
    BY <1>1, <1>2, <2>1 DEF Grows
<1>4. CASE p # Null /\ stored[p] # Null
  <2>1. p \in ObjectIds \ {id} /\ stored[p] \in Objects
    BY <1>1, <1>2, <1>4
  <2>2. objects' = (IF InSeq(id, stored[p].children) THEN stored
                   ELSE [stored EXCEPT ![p].children = Append(@, id)])
        /\ roots' = roots
    BY <1>4 DEF Attach
  <2> HIDE DEF stored, p
  <2>3. CASE InSeq(id, stored[p].children)
    BY <1>1, <1>2, <1>4, <2>1, <2>2, <2>3 DEF Grows
  <2>4. CASE ~InSeq(id, stored[p].children)
    <3>1. stored[p].children \in Seq(ObjectIds)
      BY <2>1 DEF Objects
    <3>2. /\ objects'[p] \in Objects /\ objects'[p].children = Append(stored[p].children, id)
          /\ \A x \in ObjectIds \ {p} : objects'[x] = stored[x]
      <4>1. objects' = [stored EXCEPT ![p] = [stored[p] EXCEPT !.children = Append(stored[p].children, id)]]
        BY <2>2, <2>4
      <4>2. Append(stored[p].children, id) \in Seq(ObjectIds)
        BY <3>1
      <4>3. [stored[p] EXCEPT !.children = Append(stored[p].children, id)] \in Objects
        BY <2>1, <4>2 DEF Objects
      <4>4. [stored[p] EXCEPT !.children = Append(stored[p].children, id)].children
              = Append(stored[p].children, id)
        BY <2>1 DEF Objects
      <4>5. QED
        BY <1>2, <2>1, <4>1, <4>3, <4>4
    <3>3. objects'[p] # Null
      BY <3>2, InputAssumption
    <3>4. InSeq(id, objects'[p].children)
      BY <3>1, <3>2, AppendListing
    <3>5. objects'[id] = obj
      BY <1>2, <2>1, <3>2
    <3>6. ASSUME NEW x \in ObjectIds \ {id}
          PROVE  /\ objects[x] = Null <=> objects'[x] = Null
                 /\ objects[x] # Null =>
                      \/ objects'[x].children = objects[x].children
                      \/ /\ ~InSeq(id, objects[x].children)
                         /\ objects'[x].children = Append(objects[x].children, id)
      <4>1. CASE x = p
        BY <1>2, <1>4, <2>4, <3>2, <3>3, <4>1
      <4>2. CASE x # p
        BY <1>2, <3>2, <4>2
      <4>3. QED
        BY <4>1, <4>2
    <3>7. QED
      BY <1>1, <2>1, <2>2, <3>3, <3>4, <3>5, <3>6 DEF Grows
  <2>5. QED
    BY <2>3, <2>4
<1>5. QED
  BY <1>3, <1>4

LEMMA TreeStep == TreeInv /\ [Next]_vars => Walkable' /\ Listings' /\ Awaited'
<1> SUFFICES ASSUME TreeInv, [Next]_vars PROVE Walkable' /\ Listings' /\ Awaited'
  OBVIOUS
<1>1. TypeOK
  BY DEF TreeInv, Shape
<1>2. CASE UNCHANGED <<objects, roots, grafting>>
  BY <1>2, RestsTree DEF TreeRests
<1>3. CASE UNCHANGED vars
  BY <1>2, <1>3 DEF vars
<1>4. CASE Subscribe \/ SubscribeByType
  BY <1>2, <1>4 DEF Subscribe, SubscribeByType, Register
<1>5. ASSUME NEW s \in SubIds, Unsubscribe(s) \/ Drain(s)
      PROVE  Walkable' /\ Listings' /\ Awaited'
  BY <1>2, <1>5 DEF Unsubscribe, Drain
<1>6. ASSUME NEW id \in ObjectIds, Mount(id)
      PROVE  Walkable' /\ Listings' /\ Awaited'
  <2>1. Grows(id)
    BY <1>1, <1>6, AttachGrows DEF Mount
  <2>2. Awaited'
    BY <1>6 DEF Mount, Idle, Awaited
  <2>3. QED
    BY <2>1, <2>2, GrowsTree
<1>7. ASSUME NEW id \in ObjectIds, NEW obj \in Blueprints[id], objects[id] = Null,
             objects' = [objects EXCEPT ![id] = obj],
             \/ roots' = Append(roots, id)
             \/ /\ roots' = roots
                /\ \E p \in Registered : InSeq(id, objects[p].children)
      PROVE  Grows(id)
  <2>1. obj # Null /\ Distinct(obj.children)
    BY BlueprintType, InputAssumption, TreeAssumption DEF Distinct
  <2>2. objects'[id] = obj /\ \A x \in ObjectIds \ {id} : objects'[x] = objects[x]
    BY <1>1, <1>7 DEF TypeOK
  <2>3. \A p \in Registered : p \in ObjectIds \ {id} /\ objects'[p] = objects[p] /\ objects[p] # Null
    BY <1>7, <2>2 DEF Registered
  <2>4. QED
    BY <1>7, <2>1, <2>2, <2>3 DEF Grows
<1>8. ASSUME NEW id \in ObjectIds, MountWithDescendants(id)
      PROVE  Walkable' /\ Listings' /\ Awaited'
  <2>1. PICK obj \in Blueprints[id] :
          /\ objects' = [objects EXCEPT ![id] = obj] /\ roots' = Append(roots, id)
          /\ DOMAIN grafting' = DOMAIN obj.children
          /\ \A i \in DOMAIN obj.children : grafting'[i].id = obj.children[i]
    <3>1. PICK obj \in Blueprints[id] :
            \E pick \in [Range(obj.children) -> UNION {Blueprints[c] : c \in Range(obj.children)}] :
              /\ objects' = [objects EXCEPT ![id] = obj] /\ roots' = Append(roots, id)
              /\ grafting' = [i \in DOMAIN obj.children |->
                                [id |-> obj.children[i], obj |-> pick[obj.children[i]]]]
      BY <1>8 DEF MountWithDescendants
    <3>2. PICK pick : grafting' = [i \in DOMAIN obj.children |->
                                     [id |-> obj.children[i], obj |-> pick[obj.children[i]]]]
      BY <3>1
    <3>3. QED
      BY <3>1, <3>2
  <2>2. Grows(id)
    BY <1>7, <1>8, <2>1 DEF MountWithDescendants
  <2>3. objects'[id] = obj /\ id \in Registered'
    BY <1>1, <2>1, <2>2 DEF TypeOK, Grows, Registered
  <2>4. Awaited'
    BY <2>1, <2>3 DEF Awaited, InSeq
  <2>5. QED
    BY <2>2, <2>4, GrowsTree
<1>9. CASE Graft
  <2>1. grafting \in Seq(Grafts) /\ grafting # << >>
    BY <1>1, <1>9 DEF Graft, TypeOK
  <2> DEFINE d == Head(grafting)
  <2>2. 1 \in DOMAIN grafting /\ d = grafting[1] /\ grafting[1] \in Grafts
    BY <2>1
  <2>3. /\ d.id \in ObjectIds /\ d.obj \in Blueprints[d.id] /\ objects[d.id] = Null
        /\ \E p \in Registered : InSeq(d.id, objects[p].children)
    BY <2>2 DEF Grafts, TreeInv, Shape, GraftOK, Awaited
  <2>4. /\ objects' = [objects EXCEPT ![d.id] = d.obj] /\ roots' = roots
        /\ grafting' = Tail(grafting)
    BY <1>9 DEF Graft
  <2>5. Grows(d.id)
    BY <1>7, <2>3, <2>4
  <2>6. \A i \in DOMAIN grafting' : i + 1 \in DOMAIN grafting /\ grafting'[i] = grafting[i + 1]
    BY <2>1, <2>4
  <2>7. \A p \in Registered : p \in Registered' /\
          \A x : InSeq(x, objects[p].children) => InSeq(x, objects'[p].children)
    BY <2>3, <2>5, GrowsTree
  <2>8. Awaited'
    BY <2>6, <2>7 DEF TreeInv, Awaited
  <2>9. QED
    BY <2>3, <2>5, <2>8, GrowsTree
<1>10. ASSUME NEW a \in Actors, NEW id \in ObjectIds, NEW m \in MethodNames, Invoke(a, id, m)
       PROVE  Walkable' /\ Listings' /\ Awaited'
  BY <1>2, <1>10 DEF Invoke
<1>11. ASSUME NEW id \in ObjectIds, NEW obj \in Objects, objects[id] \in Objects,
              objects' = [objects EXCEPT ![id] = obj], obj.children = objects[id].children,
              UNCHANGED <<roots, grafting>>
       PROVE  Walkable' /\ Listings' /\ Awaited'
  <2>1. TreeRests
    BY <1>1, <1>11, InputAssumption DEF TypeOK, TreeRests
  <2>2. QED
    BY <2>1, RestsTree
<1>12. ASSUME NEW a \in Actors, NEW id \in ObjectIds, NEW k \in Keys, NEW v \in Values,
              SetState(a, id, k, v)
       PROVE  Walkable' /\ Listings' /\ Awaited'
  <2> DEFINE obj == [objects[id] EXCEPT !.state[k] = v]
  <2>1. objects[id] \in Objects /\ UNCHANGED <<roots, grafting>>
    BY <1>1, <1>12 DEF SetState, Live, Registered, TypeOK
  <2>2. obj \in Objects /\ obj.children = objects[id].children
    BY <2>1 DEF Objects
  <2>3. objects' = [objects EXCEPT ![id] = obj]
    BY <1>12 DEF SetState
  <2> HIDE DEF obj
  <2>4. QED
    BY <1>11, <2>1, <2>2, <2>3
<1>13. ASSUME NEW a \in Actors, DisconnectActor(a)
       PROVE  Walkable' /\ Listings' /\ Awaited'
  BY <1>2, <1>13 DEF DisconnectActor
<1>14. ASSUME NEW id \in ObjectIds, EmitDestroyed(id)
       PROVE  Walkable' /\ Listings' /\ Awaited'
  <2> DEFINE obj == [objects[id] EXCEPT !.destroyed = TRUE]
  <2>1. objects[id] \in Objects /\ UNCHANGED <<roots, grafting>>
    BY <1>1, <1>14 DEF EmitDestroyed, TypeOK, TreeInv, Shape, SweepOK
  <2>2. obj \in Objects /\ obj.children = objects[id].children
    BY <2>1 DEF Objects
  <2>3. objects' = [objects EXCEPT ![id] = obj]
    BY <1>14 DEF EmitDestroyed
  <2> HIDE DEF obj
  <2>4. QED
    BY <1>11, <2>1, <2>2, <2>3
<1>15. ASSUME NEW a \in Grantees, NEW p \in Paths, AddGrant(a, p) \/ RemoveGrant(a, p)
       PROVE  Walkable' /\ Listings' /\ Awaited'
  BY <1>2, <1>15 DEF AddGrant, RemoveGrant
<1>16. QED
  BY <1>3, <1>4, <1>5, <1>6, <1>8, <1>9, <1>10, <1>12, <1>13, <1>14, <1>15 DEF Next

(* Whatever the order of mounts, a walk from the roots finds every object,    *)
(* and no listing names an id twice.                                          *)
THEOREM TreeCorrect == Spec => []TreeReachable
<1>1. Init => TreeInv
  <2>1. Init => Walkable /\ Listings /\ Awaited
    BY DEF Init, Walkable, Listings, Awaited, Registered, Distinct
  <2>2. QED
    BY <2>1, ShapeInit DEF TreeInv
<1>2. TreeInv /\ [Next]_vars => TreeInv'
  BY TypeStep, ShapeStep, TreeStep DEF TreeInv, Shape
<1>3. TreeInv => TreeReachable
  BY DEF TreeInv, Walkable, Listings, TreeReachable
<1>4. QED
  BY <1>1, <1>2, <1>3, PTL DEF Spec

-----------------------------------------------------------------------------
(* Sequences of positions: their range and their order under Append and \o.  *)
LEMMA AppendIncreasing ==
  ASSUME NEW q \in Seq(Nat), NEW n \in Nat, Increasing(q), \A x \in Range(q) : x < n
  PROVE  Increasing(Append(q, n)) /\ Range(Append(q, n)) = Range(q) \cup {n}
<1>1. /\ DOMAIN q = 1 .. Len(q) /\ Len(q) \in Nat
      /\ DOMAIN Append(q, n) = DOMAIN q \cup {Len(q) + 1}
      /\ \A i \in DOMAIN q : Append(q, n)[i] = q[i]
      /\ Append(q, n)[Len(q) + 1] = n
  OBVIOUS
<1>2. \A i \in DOMAIN q : q[i] < n
  BY DEF Range
<1>3. ASSUME NEW i \in DOMAIN Append(q, n), NEW j \in DOMAIN Append(q, n), i < j
      PROVE  Append(q, n)[i] < Append(q, n)[j]
  <2>1. i \in DOMAIN q
    BY <1>1, <1>3
  <2>2. CASE j \in DOMAIN q
    BY <1>1, <1>3, <2>1, <2>2 DEF Increasing
  <2>3. CASE j = Len(q) + 1
    BY <1>1, <1>2, <2>1, <2>3
  <2>4. QED
    BY <1>1, <2>2, <2>3
<1>4. Increasing(Append(q, n))
  BY <1>3 DEF Increasing
<1>5. Range(Append(q, n)) = Range(q) \cup {n}
  BY <1>1 DEF Range
<1>6. QED
  BY <1>4, <1>5

LEMMA ConcatIncreasing ==
  ASSUME NEW p \in Seq(Nat), NEW q \in Seq(Nat), Increasing(p), Increasing(q),
         \A x \in Range(p), y \in Range(q) : x < y
  PROVE  Increasing(p \o q) /\ Range(p \o q) = Range(p) \cup Range(q)
<1>1. /\ DOMAIN p = 1 .. Len(p) /\ Len(p) \in Nat
      /\ DOMAIN q = 1 .. Len(q) /\ Len(q) \in Nat
      /\ DOMAIN (p \o q) = 1 .. Len(p) + Len(q)
      /\ \A i \in DOMAIN p : (p \o q)[i] = p[i]
      /\ \A i \in DOMAIN (p \o q) \ DOMAIN p :
            i - Len(p) \in DOMAIN q /\ (p \o q)[i] = q[i - Len(p)]
      /\ \A i \in DOMAIN q : i + Len(p) \in DOMAIN (p \o q) /\ (p \o q)[i + Len(p)] = q[i]
  OBVIOUS
<1>2. \A i \in DOMAIN p, j \in DOMAIN q : p[i] < q[j]
  BY DEF Range
<1>3. ASSUME NEW i \in DOMAIN (p \o q), NEW j \in DOMAIN (p \o q), i < j
      PROVE  (p \o q)[i] < (p \o q)[j]
  <2>1. CASE j \in DOMAIN p
    <3>1. i \in DOMAIN p
      BY <1>1, <1>3, <2>1
    <3>2. QED
      BY <1>1, <1>3, <2>1, <3>1 DEF Increasing
  <2>2. CASE i \in DOMAIN p /\ j \notin DOMAIN p
    BY <1>1, <1>2, <2>2
  <2>3. CASE i \notin DOMAIN p
    <3>1. j \notin DOMAIN p
      BY <1>1, <1>3, <2>3
    <3>2. i - Len(p) \in DOMAIN q /\ j - Len(p) \in DOMAIN q /\ i - Len(p) < j - Len(p)
      BY <1>1, <1>3, <2>3, <3>1
    <3>3. QED
      BY <1>1, <2>3, <3>1, <3>2 DEF Increasing
  <2>4. QED
    BY <2>1, <2>2, <2>3
<1>4. Increasing(p \o q)
  BY <1>3 DEF Increasing
<1>5. ASSUME NEW x \in Range(p \o q) PROVE x \in Range(p) \cup Range(q)
  BY <1>1 DEF Range
<1>6. ASSUME NEW x \in Range(p) \cup Range(q) PROVE x \in Range(p \o q)
  <2>1. CASE x \in Range(p)
    <3>1. PICK i \in DOMAIN p : x = p[i]
      BY <2>1 DEF Range
    <3>2. i \in DOMAIN (p \o q)
      BY <1>1
    <3>3. QED
      BY <1>1, <3>1, <3>2 DEF Range
  <2>2. CASE x \in Range(q)
    BY <1>1, <2>2 DEF Range
  <2>3. QED
    BY <2>1, <2>2
<1>7. QED
  BY <1>4, <1>5, <1>6

(* A subscription began no later than its last drain, and neither is later   *)
(* than the log.                                                             *)
CursorOK == \A s \in SubIds : subs[s] # Null =>
  reader[s].since <= reader[s].cursor /\ reader[s].cursor <= Len(log)

(* DeliveryExact for one subscription.                                       *)
Exact(s) ==
  /\ Range(reader[s].got) = Wanted(s, reader[s].since, reader[s].cursor)
  /\ Range(subs[s].queue) = Wanted(s, reader[s].cursor, Len(log))
  /\ Increasing(reader[s].got)
  /\ Increasing(subs[s].queue)

FeedInv == LogInv /\ CursorOK /\ \A s \in SubIds : subs[s] # Null => Exact(s)

(* A step that leaves a subscription, its reader, the log and the store      *)
(* alone leaves it exact.                                                    *)
LEMMA ExactStays ==
  ASSUME FeedInv, Quiet, NEW s \in SubIds, subs[s] # Null,
         subs'[s] = subs[s], reader'[s] = reader[s]
  PROVE  Exact(s)' /\ reader'[s].since <= reader'[s].cursor /\ reader'[s].cursor <= Len(log')
BY DEF FeedInv, CursorOK, Exact, Wanted, Quiet

LEMMA SpeaksExact ==
  ASSUME FeedInv, Speaks, NEW s \in SubIds, subs'[s] # Null
  PROVE  Exact(s)' /\ reader'[s].since <= reader'[s].cursor /\ reader'[s].cursor <= Len(log')
<1>1. PICK e \in Events : Says(e)
  BY SpeaksSays DEF FeedInv, LogInv
<1>2. TypeOK /\ Emit(e, objects'[e.target].type) /\ reader' = reader
  BY <1>1 DEF Says, FeedInv, LogInv, Shape, Speaks
<1> DEFINE n      == Len(log) + 1
           r      == reader[s]
           asks(i) == Wants(subs[s].target, subs[s].filters, log[i], objects[log[i].target].type)
           wanted == Wants(subs[s].target, subs[s].filters, e, objects'[e.target].type)
<1>3. /\ Len(log) \in Nat /\ DOMAIN log = 1 .. Len(log) /\ Len(log') = n
      /\ DOMAIN log' = DOMAIN log \cup {n} /\ log'[n] = e
      /\ \A i \in DOMAIN log : log'[i] = log[i] /\ i <= Len(log)
  BY <1>2, Appended
<1>4. /\ subs[s] # Null
      /\ subs'[s] = IF wanted THEN [subs[s] EXCEPT !.queue = Append(subs[s].queue, n)] ELSE subs[s]
  BY <1>2 DEF Emit
<1>5. subs[s] \in Subscriptions /\ r \in Readers
  BY <1>2, <1>4 DEF TypeOK
<1>6. /\ subs'[s].target = subs[s].target /\ subs'[s].filters = subs[s].filters
      /\ subs'[s].queue = IF wanted THEN Append(subs[s].queue, n) ELSE subs[s].queue
  BY <1>4, <1>5 DEF Subscriptions
<1>7. /\ r.since <= r.cursor /\ r.cursor <= Len(log)
      /\ r.since \in Nat /\ r.cursor \in Nat /\ Exact(s)
  BY <1>4, <1>5 DEF FeedInv, CursorOK, Readers
<1>8. ASSUME NEW i \in DOMAIN log
      PROVE  Wants(subs'[s].target, subs'[s].filters, log'[i], objects'[log'[i].target].type)
               <=> asks(i)
  <2>1. log[i] \in Events
    BY <1>2 DEF TypeOK
  <2>2. log[i].target \in ObjectIds /\ objects[log[i].target] # Null
    BY <2>1 DEF FeedInv, LogInv, Recorded, Events
  <2>3. objects'[log[i].target].type = objects[log[i].target].type
    BY <1>1, <2>2 DEF Says, Keeps, Alike
  <2>4. QED
    BY <1>3, <1>6, <2>3
<1>9. Wants(subs'[s].target, subs'[s].filters, log'[n], objects'[log'[n].target].type)
        <=> wanted
  BY <1>3, <1>6
<1> HIDE DEF asks, wanted
<1>10. \A lo, hi : Wanted(s, lo, hi) = {i \in DOMAIN log : lo < i /\ i <= hi /\ asks(i)}
  BY DEF Wanted, asks
<1>11. Wanted(s, r.since, r.cursor)' = Wanted(s, r.since, r.cursor)
  <2>1. Wanted(s, r.since, r.cursor)' =
          {i \in DOMAIN log' : /\ r.since < i /\ i <= r.cursor
                               /\ Wants(subs'[s].target, subs'[s].filters, log'[i],
                                        objects'[log'[i].target].type)}
    BY <1>2 DEF Wanted
  <2>2. QED
    BY <1>3, <1>7, <1>8, <1>10, <2>1
<1>12. Wanted(s, r.cursor, Len(log))' =
         Wanted(s, r.cursor, Len(log)) \cup IF wanted THEN {n} ELSE {}
  <2>1. Wanted(s, r.cursor, Len(log))' =
          {i \in DOMAIN log' : /\ r.cursor < i /\ i <= n
                               /\ Wants(subs'[s].target, subs'[s].filters, log'[i],
                                        objects'[log'[i].target].type)}
    BY <1>2, <1>3 DEF Wanted
  <2>2. QED
    BY <1>3, <1>7, <1>8, <1>9, <1>10, <2>1
<1>13. /\ Range(subs'[s].queue) = Range(subs[s].queue) \cup IF wanted THEN {n} ELSE {}
       /\ Increasing(subs'[s].queue)
  <2>1. subs[s].queue \in Seq(Nat) /\ n \in Nat /\ Increasing(subs[s].queue)
    BY <1>3, <1>5, <1>7 DEF Subscriptions, Exact
  <2>2. \A x \in Range(subs[s].queue) : x < n
    BY <1>3, <1>7, <1>10 DEF Exact
  <2>3. QED
    BY <1>6, <2>1, <2>2, AppendIncreasing
<1>14. Exact(s)'
  BY <1>2, <1>7, <1>11, <1>12, <1>13 DEF Exact
<1>15. QED
  BY <1>2, <1>3, <1>7, <1>14

LEMMA FeedStep == FeedInv /\ [Next]_vars => CursorOK' /\ \A s \in SubIds : subs'[s] # Null => Exact(s)'
<1> SUFFICES ASSUME FeedInv, [Next]_vars, NEW s \in SubIds, subs'[s] # Null
             PROVE  Exact(s)' /\ reader'[s].since <= reader'[s].cursor
                              /\ reader'[s].cursor <= Len(log')
  BY DEF CursorOK
<1>1. TypeOK
  BY DEF FeedInv, LogInv, Shape
<1>2. CASE Silent
  BY <1>2, ExactStays DEF Silent
<1>3. ASSUME Quiet, NEW target \in Targets, NEW filters \in Filters, Register(target, filters)
      PROVE  Exact(s)' /\ reader'[s].since <= reader'[s].cursor /\ reader'[s].cursor <= Len(log')
  <2>1. CASE s # nextSub
    BY <1>1, <1>3, <2>1, ExactStays DEF Register, TypeOK
  <2>2. CASE s = nextSub
    <3>1. /\ Len(log) \in Nat /\ DOMAIN log = 1 .. Len(log) /\ log' = log
          /\ subs'[s] = [target |-> target, filters |-> filters, queue |-> << >>]
          /\ reader'[s] = [since |-> Len(log), cursor |-> Len(log), got |-> << >>]
      BY <1>1, <1>3, <2>2 DEF Register, TypeOK
    <3>2. /\ Wanted(s, reader[s].since, reader[s].cursor)' = {}
          /\ Wanted(s, reader[s].cursor, Len(log))' = {}
      BY <3>1 DEF Wanted
    <3>3. Range(<< >>) = {} /\ Increasing(<< >>)
      BY DEF Range, Increasing
    <3>4. /\ reader'[s].got = << >> /\ subs'[s].queue = << >>
          /\ reader'[s].since = Len(log) /\ reader'[s].cursor = Len(log)
      BY <3>1
    <3>5. Exact(s)'
      BY <3>2, <3>3, <3>4 DEF Exact
    <3>6. QED
      BY <3>1, <3>4, <3>5
  <2>3. QED
    BY <2>1, <2>2
<1>4. ASSUME Quiet, NEW t \in SubIds, Unsubscribe(t)
      PROVE  Exact(s)' /\ reader'[s].since <= reader'[s].cursor /\ reader'[s].cursor <= Len(log')
  BY <1>1, <1>4, ExactStays DEF Unsubscribe, TypeOK
<1>5. ASSUME Quiet, NEW t \in SubIds, Drain(t)
      PROVE  Exact(s)' /\ reader'[s].since <= reader'[s].cursor /\ reader'[s].cursor <= Len(log')
  <2>1. CASE s # t
    BY <1>1, <1>5, <2>1, ExactStays DEF Drain, TypeOK
  <2>2. CASE s = t
    <3> DEFINE r == reader[s]
    <3>1. subs[s] # Null /\ subs[s] \in Subscriptions /\ r \in Readers
      BY <1>1, <1>5, <2>2 DEF Drain, TypeOK
    <3>2. /\ subs'[s].target = subs[s].target /\ subs'[s].filters = subs[s].filters
          /\ subs'[s].queue = << >>
      BY <1>1, <1>5, <2>2, <3>1 DEF Drain, TypeOK, Subscriptions
    <3>3. /\ reader'[s].since = r.since /\ reader'[s].cursor = Len(log)
          /\ reader'[s].got = r.got \o subs[s].queue
      BY <1>1, <1>5, <2>2, <3>1 DEF Drain, TypeOK, Readers
    <3>4. /\ Exact(s) /\ r.since <= r.cursor /\ r.cursor <= Len(log)
          /\ r.since \in Nat /\ r.cursor \in Nat
          /\ r.got \in Seq(Nat) /\ subs[s].queue \in Seq(Nat)
      BY <3>1 DEF FeedInv, CursorOK, Readers, Subscriptions
    <3>5. Len(log) \in Nat /\ DOMAIN log = 1 .. Len(log) /\ log' = log /\ objects' = objects
      BY <1>1, <1>5 DEF Quiet, TypeOK
    <3>6. \A lo, hi : Wanted(s, lo, hi)' = Wanted(s, lo, hi)
      BY <3>2, <3>5 DEF Wanted
    <3>7. \A x \in Range(r.got), y \in Range(subs[s].queue) : x < y
      BY <3>4, <3>5 DEF Exact, Wanted
    <3>8. /\ Increasing(reader'[s].got)
          /\ Range(reader'[s].got) = Range(r.got) \cup Range(subs[s].queue)
      BY <3>3, <3>4, <3>7, ConcatIncreasing DEF Exact
    <3>9. Wanted(s, r.since, Len(log)) =
            Wanted(s, r.since, r.cursor) \cup Wanted(s, r.cursor, Len(log))
      BY <3>4, <3>5 DEF Wanted
    <3>10. Wanted(s, Len(log), Len(log)) = {}
      BY <3>5 DEF Wanted
    <3>11. Range(<< >>) = {} /\ Increasing(<< >>)
      BY DEF Range, Increasing
    <3>12. Exact(s)'
      BY <3>2, <3>3, <3>4, <3>5, <3>6, <3>8, <3>9, <3>10, <3>11 DEF Exact
    <3>13. QED
      BY <3>3, <3>4, <3>5, <3>12
  <2>3. QED
    BY <2>1, <2>2
<1>6. CASE Speaks
  BY <1>6, SpeaksExact
<1>7. QED
  BY <1>2, <1>3, <1>4, <1>5, <1>6, StepKinds DEF FeedInv, LogInv, Opens, Serves

(* Whatever other subscriptions, mounts, invokes and teardowns run between   *)
(* its drains, a subscription is handed every event it asked for since it    *)
(* was registered, once each and in log order.                               *)
THEOREM DeliveryCorrect == Spec => []DeliveryExact
<1>1. Init => FeedInv
  <2>1. Init => CursorOK /\ \A s \in SubIds : subs[s] # Null => Exact(s)
    BY DEF Init, CursorOK
  <2>2. Init => LogInv
    BY ShapeInit DEF Init, LogInv, Recorded, LifecycleOrder
  <2>3. QED
    BY <2>1, <2>2 DEF FeedInv
<1>2. FeedInv /\ [Next]_vars => FeedInv'
  BY TypeStep, ShapeStep, LogStep, FeedStep DEF FeedInv, LogInv, Shape
<1>3. FeedInv => DeliveryExact
  BY DEF FeedInv, DeliveryExact, Exact
<1>4. QED
  BY <1>1, <1>2, <1>3, PTL DEF Spec

-----------------------------------------------------------------------------
(* The refinement: every step of the server is a step of the feed.           *)

(* Strictly increasing positions up to n are at most n of them.              *)
LEMMA IncreasingShort ==
  ASSUME NEW n \in Nat, NEW q \in Seq(1 .. n), Increasing(q)
  PROVE  Len(q) <= n
<1>1. Len(q) \in Nat /\ DOMAIN q = 1 .. Len(q) /\ q \in [1 .. Len(q) -> 1 .. n]
  OBVIOUS
<1>2. \A i, j \in 1 .. Len(q) : i # j => q[i] # q[j]
  <2>1. \A i, j \in 1 .. Len(q) : i < j \/ j < i \/ i = j
    BY <1>1
  <2>2. \A i \in 1 .. Len(q) : q[i] \in Int
    BY <1>1
  <2>3. QED
    BY <1>1, <2>1, <2>2 DEF Increasing
<1>3. q \in Injection(1 .. Len(q), 1 .. n)
  BY <1>1, <1>2 DEF Injection, IsInjective
<1>4. /\ IsFiniteSet(1 .. n) /\ Cardinality(1 .. n) = n
      /\ Cardinality(1 .. Len(q)) = Len(q)
  <2>1. Cardinality(1 .. n) = (IF 1 > n THEN 0 ELSE n - 1 + 1) /\ IsFiniteSet(1 .. n)
    BY FS_Interval
  <2>2. Cardinality(1 .. Len(q)) = IF 1 > Len(q) THEN 0 ELSE Len(q) - 1 + 1
    <3>1. 1 \in Int /\ Len(q) \in Int
      BY <1>1
    <3>2. QED
      BY <3>1, FS_Interval
  <2>3. QED
    BY <1>1, <2>1, <2>2
<1>5. Cardinality(1 .. Len(q)) <= Cardinality(1 .. n)
  BY <1>3, <1>4, FS_Injection
<1>6. QED
  BY <1>4, <1>5

(* Subscriptions are numbered as they come.                                  *)
Unopened == \A s \in SubIds : s >= nextSub => subs[s] = Null /\ reader[s].got = << >>

RefInv == FeedInv /\ Unopened

LEMMA UnopenedStep == RefInv /\ [Next]_vars => Unopened'
<1> SUFFICES ASSUME RefInv, [Next]_vars PROVE Unopened'
  OBVIOUS
<1>1. TypeOK
  BY DEF RefInv, FeedInv, LogInv, Shape
<1>2. CASE Silent
  BY <1>2 DEF Silent, RefInv, Unopened
<1>3. CASE Opens
  <2>1. PICK target \in Targets, filters \in Filters : Register(target, filters)
    BY <1>3 DEF Opens
  <2>2. /\ nextSub \in Nat /\ nextSub' = nextSub + 1
        /\ \A s \in SubIds : s # nextSub => subs'[s] = subs[s] /\ reader'[s] = reader[s]
    BY <1>1, <2>1 DEF Register, TypeOK
  <2>3. QED
    BY <2>2 DEF RefInv, Unopened, SubIds
<1>4. CASE Serves
  <2>1. PICK t \in SubIds : Unsubscribe(t) \/ Drain(t)
    BY <1>4 DEF Serves
  <2>2. /\ nextSub' = nextSub /\ nextSub \in Nat /\ subs[t] # Null
        /\ \A s \in SubIds : s # t => subs'[s] = subs[s] /\ reader'[s] = reader[s]
    <3>1. CASE Unsubscribe(t)
      BY <1>1, <3>1 DEF Unsubscribe, TypeOK
    <3>2. CASE Drain(t)
      BY <1>1, <3>2 DEF Drain, TypeOK
    <3>3. QED
      BY <2>1, <3>1, <3>2
  <2>3. QED
    BY <2>2 DEF RefInv, Unopened
<1>5. CASE Speaks
  <2>1. PICK e \in Events : Says(e)
    BY <1>5, SpeaksSays DEF RefInv, FeedInv, LogInv
  <2>2. \A s \in SubIds : subs[s] = Null => subs'[s] = Null
    BY <2>1 DEF Says, Emit
  <2>3. QED
    BY <1>5, <2>2 DEF Speaks, RefInv, Unopened
<1>6. QED
  BY <1>2, <1>3, <1>4, <1>5, StepKinds DEF RefInv, FeedInv, LogInv

(* What the feed sees of the log.                                            *)
FeedLogOK ==
  /\ FeedLog \in Seq(FeedEvents)
  /\ Len(FeedLog) = Len(log) /\ Len(log) \in Nat
  /\ DOMAIN FeedLog = DOMAIN log /\ DOMAIN log = 1 .. Len(log)
  /\ \A i \in DOMAIN log :
       FeedLog[i] = [class  |-> ClassOfKind(log[i].kind),
                     target |-> log[i].target,
                     type   |-> objects[log[i].target].type]

LEMMA FeedLogType == LogInv => FeedLogOK
<1> SUFFICES ASSUME LogInv PROVE FeedLogOK
  OBVIOUS
<1>1. /\ Len(log) \in Nat /\ DOMAIN log = 1 .. Len(log)
      /\ \A i \in DOMAIN log : log[i] \in Events
  BY DEF LogInv, Shape, TypeOK
<1>2. ASSUME NEW i \in DOMAIN log PROVE FeedLog[i] \in FeedEvents
  <2>1. log[i].target \in ObjectIds /\ log[i].kind \in Kinds
    BY <1>1 DEF Events
  <2>2. objects[log[i].target] \in Objects
    BY <2>1 DEF LogInv, Recorded, Shape, TypeOK
  <2>3. objects[log[i].target].type \in Types /\ ClassOfKind(log[i].kind) \in Classes
    BY <2>1, <2>2 DEF Objects, Kinds, ClassOfKind, Classes
  <2>4. QED
    BY <2>1, <2>3 DEF FeedLog, FeedEvents
<1>3. FeedLog \in [1 .. Len(log) -> FeedEvents]
  BY <1>1, <1>2 DEF FeedLog
<1>4. QED
  BY <1>1, <1>3 DEF FeedLog, FeedLogOK

LEMMA SilentFeed == LogInv /\ Silent => UNCHANGED Feed!vars
<1> SUFFICES ASSUME Silent PROVE UNCHANGED Feed!vars
  OBVIOUS
<1>1. UNCHANGED <<objects, log, subs, reader, nextSub>>
  BY DEF Silent, Quiet
<1>2. FeedLog' = FeedLog /\ FeedStatus' = FeedStatus /\ FeedAsk' = FeedAsk
  BY <1>1 DEF FeedLog, FeedStatus, FeedAsk
<1>3. QED
  BY <1>1, <1>2 DEF Feed!vars

(* A registration begins a subscription.                                     *)
LEMMA OpensFeed ==
  ASSUME RefInv, Opens
  PROVE  Feed!Next
<1>1. PICK target \in Targets, filters \in Filters : Register(target, filters)
  BY DEF Opens
<1>2. TypeOK
  BY DEF RefInv, FeedInv, LogInv, Shape
<1>3. /\ nextSub \in SubIds /\ nextSub' = nextSub + 1 /\ subs[nextSub] = Null
      /\ reader[nextSub].got = << >> /\ reader[nextSub] \in Readers
      /\ Len(log) \in Nat /\ MaxSubs \in Nat
  BY <1>1, <1>2, BoundAssumption DEF Register, TypeOK, SubIds, RefInv, Unopened
<1>4. /\ subs' = [subs EXCEPT ![nextSub] =
                    [target |-> target, filters |-> filters, queue |-> << >>]]
      /\ reader' = [reader EXCEPT ![nextSub] =
                      [since |-> Len(log), cursor |-> Len(log), got |-> << >>]]
      /\ UNCHANGED <<objects, log>>
  BY <1>1 DEF Register
<1>5. [target |-> target, filters |-> filters, queue |-> << >>] # Null
  <2>1. [target |-> target, filters |-> filters, queue |-> << >>] \in Subscriptions
    BY InputAssumption DEF Subscriptions
  <2>2. QED
    BY <2>1, InputAssumption
<1>6. \A s \in SubIds : /\ s # nextSub => subs'[s] = subs[s] /\ reader'[s] = reader[s]
                        /\ s # nextSub => (s < nextSub <=> s < nextSub')
  BY <1>2, <1>3, <1>4 DEF TypeOK, SubIds
<1>7. /\ subs'[nextSub] = [target |-> target, filters |-> filters, queue |-> << >>]
      /\ subs'[nextSub].target = target /\ subs'[nextSub].filters = filters
      /\ reader'[nextSub].got = << >> /\ reader'[nextSub].cursor = Len(log)
  BY <1>2, <1>3, <1>4 DEF TypeOK
<1>8. FeedStatus[nextSub] = "unopened"
  BY <1>3 DEF FeedStatus, SubIds
<1>9. FeedStatus' = [FeedStatus EXCEPT ![nextSub] = "open"]
  BY <1>3, <1>5, <1>6, <1>7 DEF FeedStatus
<1>10. FeedAsk' = [FeedAsk EXCEPT ![nextSub] = Asked(target, filters)]
  BY <1>3, <1>5, <1>6, <1>7 DEF FeedAsk
<1>11. FeedLog' = FeedLog /\ Len(FeedLog) = Len(log)
  BY <1>4, FeedLogType DEF FeedLog, FeedLogOK, RefInv, FeedInv
<1>12. [s \in SubIds |-> reader'[s].cursor] =
         [[s \in SubIds |-> reader[s].cursor] EXCEPT ![nextSub] = Len(FeedLog)]
  BY <1>3, <1>6, <1>7, <1>11
<1>13. [s \in SubIds |-> reader'[s].got] = [s \in SubIds |-> reader[s].got]
  BY <1>3, <1>6, <1>7
<1>14. Feed!Begin(nextSub, Asked(target, filters))
  BY <1>8, <1>9, <1>10, <1>11, <1>12, <1>13 DEF Feed!Begin
<1>15. QED
  BY <1>3, <1>14 DEF Feed!Next

(* Unsubscribing ends a subscription, and a drain is a delivery.             *)
LEMMA ServesFeed ==
  ASSUME RefInv, Serves
  PROVE  Feed!Next
<1>1. PICK s \in SubIds : Unsubscribe(s) \/ Drain(s)
  BY DEF Serves
<1>2. TypeOK /\ UNCHANGED <<objects, log>>
  BY DEF Serves, Quiet, RefInv, FeedInv, LogInv, Shape
<1>3. subs[s] # Null /\ subs[s] \in Subscriptions /\ reader[s] \in Readers /\ nextSub' = nextSub
  BY <1>1, <1>2 DEF Unsubscribe, Drain, TypeOK
<1>4. FeedStatus[s] = "open" /\ FeedLog' = FeedLog
  BY <1>2, <1>3 DEF FeedStatus, FeedLog
<1>5. CASE Unsubscribe(s)
  <2>1. s < nextSub
    BY <1>2, <1>3 DEF RefInv, Unopened, TypeOK, SubIds
  <2>2. subs' = [subs EXCEPT ![s] = Null] /\ UNCHANGED reader
    BY <1>5 DEF Unsubscribe
  <2>3. subs'[s] = Null /\ \A t \in SubIds : t # s => subs'[t] = subs[t]
    BY <1>2, <2>2 DEF TypeOK
  <2>4. FeedStatus' = [FeedStatus EXCEPT ![s] = "closed"]
    BY <1>3, <2>1, <2>3 DEF FeedStatus
  <2>5. FeedAsk' = [FeedAsk EXCEPT ![s] = {}]
    BY <2>3 DEF FeedAsk
  <2>6. Feed!End(s)
    BY <1>4, <2>2, <2>4, <2>5 DEF Feed!End
  <2>7. QED
    BY <2>6 DEF Feed!Next
<1>6. CASE Drain(s)
  <2> DEFINE queue == subs[s].queue
  <2>1. /\ subs' = [subs EXCEPT ![s].queue = << >>]
        /\ reader' = [reader EXCEPT ![s].got = @ \o queue, ![s].cursor = Len(log)]
    BY <1>6 DEF Drain
  <2>2. \A t \in SubIds : t # s => subs'[t] = subs[t] /\ reader'[t] = reader[t]
    BY <1>2, <2>1 DEF TypeOK
  <2>3. /\ subs'[s].target = subs[s].target /\ subs'[s].filters = subs[s].filters
        /\ subs'[s] # Null
    <3>1. subs'[s] = [subs[s] EXCEPT !.queue = << >>]
      BY <1>2, <2>1 DEF TypeOK
    <3>2. << >> \in Seq(Nat)
      OBVIOUS
    <3>3. subs'[s] \in Subscriptions
      BY <1>3, <3>1, <3>2 DEF Subscriptions
    <3>4. QED
      BY <1>3, <3>1, <3>3, InputAssumption DEF Subscriptions
  <2>4. reader'[s].got = reader[s].got \o queue /\ reader'[s].cursor = Len(log)
    BY <1>2, <1>3, <2>1 DEF TypeOK, Readers
  <2>5. FeedStatus' = FeedStatus /\ FeedAsk' = FeedAsk
    BY <1>3, <2>2, <2>3 DEF FeedStatus, FeedAsk
  <2>6. /\ Len(FeedLog) = Len(log) /\ Len(log) \in Nat
        /\ DOMAIN FeedLog = 1 .. Len(log) /\ DOMAIN log = 1 .. Len(log)
        /\ \A i \in DOMAIN log :
             FeedLog[i] = [class  |-> ClassOfKind(log[i].kind),
                           target |-> log[i].target,
                           type   |-> objects[log[i].target].type]
        /\ \A i \in DOMAIN log : FeedLog[i] \in FeedEvents
    BY FeedLogType DEF FeedLogOK, RefInv, FeedInv
  <2> DEFINE pending == {i \in DOMAIN FeedLog : reader[s].cursor < i /\ FeedLog[i] \in FeedAsk[s]}
  <2>7. Range(queue) = pending
    <3>1. Range(queue) = Wanted(s, reader[s].cursor, Len(log))
      BY <1>3 DEF RefInv, FeedInv, Exact
    <3>2. FeedAsk[s] = Asked(subs[s].target, subs[s].filters)
      BY <1>3 DEF FeedAsk
    <3>3. ASSUME NEW i \in DOMAIN log
          PROVE  FeedLog[i] \in FeedAsk[s] <=>
                   Wants(subs[s].target, subs[s].filters, log[i], objects[log[i].target].type)
      <4>1. /\ FeedLog[i] \in FeedEvents
            /\ FeedLog[i].class = ClassOfKind(log[i].kind)
            /\ FeedLog[i].target = log[i].target
            /\ FeedLog[i].type = objects[log[i].target].type
        BY <2>6
      <4>2. FeedLog[i] \in FeedAsk[s] <=>
              Asks(subs[s].target, subs[s].filters, FeedLog[i].class, FeedLog[i].target, FeedLog[i].type)
        BY <3>2, <4>1 DEF Asked
      <4>3. QED
        BY <4>1, <4>2 DEF Wants
    <3>4. QED
      BY <2>6, <3>1, <3>3 DEF Wanted
  <2>8. Increasing(queue) /\ queue \in Seq(Nat)
    BY <1>3 DEF RefInv, FeedInv, Exact, Subscriptions
  <2> HIDE DEF queue
  <2>9. /\ Len(queue) \in Nat /\ DOMAIN queue = 1 .. Len(queue)
        /\ queue \in [1 .. Len(queue) -> pending] /\ queue \in Seq(1 .. Len(log))
    <3>1. Len(queue) \in Nat /\ DOMAIN queue = 1 .. Len(queue)
          /\ queue = [i \in 1 .. Len(queue) |-> queue[i]]
      BY <2>8
    <3>2. \A i \in 1 .. Len(queue) : queue[i] \in Range(queue)
      BY <3>1 DEF Range
    <3>3. pending \subseteq 1 .. Len(log)
      BY <2>6
    <3> HIDE DEF pending
    <3>4. QED
      BY <2>7, <3>1, <3>2, <3>3
  <2>10. Len(queue) \in 0 .. Len(FeedLog)
    <3>1. Len(queue) <= Len(log)
      BY <2>6, <2>8, <2>9, IncreasingShort
    <3>2. QED
      BY <2>6, <2>9, <3>1
  <2>11. [t \in SubIds |-> reader'[t].got] =
           [[t \in SubIds |-> reader[t].got] EXCEPT ![s] = @ \o queue]
    BY <2>2, <2>4
  <2>12. [t \in SubIds |-> reader'[t].cursor] =
           [[t \in SubIds |-> reader[t].cursor] EXCEPT ![s] = Len(FeedLog)]
    BY <2>2, <2>4, <2>6
  <2>13. Feed!Pending(s) = pending
    BY DEF Feed!Pending
  <2>14. Feed!Ascending(queue) /\ Feed!Range(queue) = Range(queue)
    BY <2>8 DEF Feed!Ascending, Increasing, Feed!Range, Range
  <2> HIDE DEF pending
  <2>15. Feed!Deliver(s)
    BY <1>4, <2>5, <2>7, <2>9, <2>10, <2>11, <2>12, <2>13, <2>14 DEF Feed!Deliver
  <2>16. QED
    BY <2>15 DEF Feed!Next
<1>7. QED
  BY <1>1, <1>5, <1>6

(* An event the server emits is one the feed publishes.                      *)
LEMMA SpeaksFeed ==
  ASSUME RefInv, LogInv', Speaks
  PROVE  Feed!Next
<1>1. PICK e \in Events : Says(e)
  BY SpeaksSays DEF RefInv, FeedInv, LogInv
<1>2. TypeOK /\ Emit(e, objects'[e.target].type) /\ UNCHANGED <<reader, nextSub>>
  BY <1>1 DEF Says, RefInv, FeedInv, LogInv, Shape, Speaks
<1> DEFINE fe == [class  |-> ClassOfKind(e.kind), target |-> e.target,
                  type   |-> objects'[e.target].type]
<1>3. PICK n \in Nat :
        /\ n = Len(log) + 1 /\ DOMAIN log' = DOMAIN log \cup {n} /\ log'[n] = e
        /\ Len(log') = n /\ Len(log) \in Nat /\ DOMAIN log = 1 .. Len(log)
        /\ \A i \in DOMAIN log : log'[i] = log[i]
  <2>1. /\ Len(log) \in Nat /\ DOMAIN log = 1 .. Len(log)
        /\ DOMAIN log' = DOMAIN log \cup {Len(log) + 1} /\ log'[Len(log) + 1] = e
        /\ Len(log') = Len(log) + 1
        /\ \A i \in DOMAIN log : log'[i] = log[i]
    BY <1>2, Appended
  <2>2. QED
    BY <2>1
<1>4. /\ FeedLog \in Seq(FeedEvents) /\ Len(FeedLog) = Len(log)
      /\ DOMAIN FeedLog = DOMAIN log
      /\ \A i \in DOMAIN log :
           FeedLog[i] = [class  |-> ClassOfKind(log[i].kind),
                         target |-> log[i].target,
                         type   |-> objects[log[i].target].type]
  BY FeedLogType DEF FeedLogOK, RefInv, FeedInv
<1>5. /\ FeedLog' \in Seq(FeedEvents) /\ Len(FeedLog') = Len(log')
      /\ DOMAIN FeedLog' = DOMAIN log'
      /\ \A i \in DOMAIN log' :
           FeedLog'[i] = [class  |-> ClassOfKind(log'[i].kind),
                          target |-> log'[i].target,
                          type   |-> objects'[log'[i].target].type]
  <2>1. FeedLogOK'
    BY FeedLogType, PTL
  <2>2. QED
    BY <2>1 DEF FeedLogOK
<1>6. FeedLog'[n] = fe /\ fe \in FeedEvents
  BY <1>3, <1>5
<1>7. ASSUME NEW i \in DOMAIN log PROVE FeedLog'[i] = FeedLog[i]
  <2>1. log[i] \in Events
    BY <1>2 DEF TypeOK
  <2>2. log[i].target \in ObjectIds /\ objects[log[i].target] # Null
    BY <2>1 DEF Events, RefInv, FeedInv, LogInv, Recorded
  <2>3. objects'[log[i].target].type = objects[log[i].target].type
    BY <1>1, <2>2 DEF Says, Keeps, Alike
  <2>4. QED
    BY <1>3, <1>4, <1>5, <2>3
<1> HIDE DEF fe
<1>8. FeedLog' = Append(FeedLog, fe)
  BY <1>3, <1>4, <1>5, <1>6, <1>7
<1>9. \A s \in SubIds : /\ subs'[s] = Null <=> subs[s] = Null
                        /\ subs[s] # Null => /\ subs'[s].target = subs[s].target
                                             /\ subs'[s].filters = subs[s].filters
  <2> SUFFICES ASSUME NEW s \in SubIds
               PROVE  /\ subs'[s] = Null <=> subs[s] = Null
                      /\ subs[s] # Null => /\ subs'[s].target = subs[s].target
                                           /\ subs'[s].filters = subs[s].filters
    OBVIOUS
  <2>1. CASE subs'[s] = subs[s]
    BY <2>1
  <2>2. CASE subs[s] # Null /\ subs'[s] = [subs[s] EXCEPT !.queue = Append(@, Len(log) + 1)]
    <3>1. subs[s] \in Subscriptions /\ Len(log) + 1 \in Nat
      BY <1>2, <1>3, <2>2 DEF TypeOK
    <3>2. Append(subs[s].queue, Len(log) + 1) \in Seq(Nat)
      BY <3>1 DEF Subscriptions
    <3>3. subs'[s] \in Subscriptions
      BY <2>2, <3>1, <3>2 DEF Subscriptions
    <3>4. QED
      BY <2>2, <3>1, <3>3, InputAssumption DEF Subscriptions
  <2>3. QED
    BY <1>2, <2>1, <2>2 DEF Emit
<1>10. FeedStatus' = FeedStatus /\ FeedAsk' = FeedAsk
  BY <1>2, <1>9 DEF FeedStatus, FeedAsk
<1>11. Feed!Publish(fe)
  BY <1>2, <1>8, <1>10 DEF Feed!Publish
<1>12. QED
  BY <1>6, <1>11 DEF Feed!Next

(* The server implements the event feed: with its queues hidden, a drain      *)
(* hands over what a cursor into the log would.                               *)
THEOREM FeedCorrect == Spec => ImplementsFeed
<1>1. Init => RefInv
  <2>1. Init => CursorOK /\ (\A s \in SubIds : subs[s] # Null => Exact(s)) /\ Unopened
    BY DEF Init, CursorOK, Unopened
  <2>2. QED
    BY <2>1, LogInit DEF FeedInv, RefInv
<1>2. RefInv /\ [Next]_vars => RefInv'
  BY LogInvStep, FeedStep, UnopenedStep DEF RefInv, FeedInv
<1>3. Init => Feed!Init
  <2> SUFFICES ASSUME Init PROVE Feed!Init
    OBVIOUS
  <2>1. FeedLog = << >>
    BY DEF Init, FeedLog
  <2>2. FeedStatus = [s \in SubIds |-> "unopened"]
    BY DEF Init, FeedStatus, SubIds
  <2>3. FeedAsk = [s \in SubIds |-> {}]
    BY DEF Init, FeedAsk
  <2>4. /\ [s \in SubIds |-> reader[s].cursor] = [s \in SubIds |-> 0]
        /\ [s \in SubIds |-> reader[s].got] = [s \in SubIds |-> << >>]
    BY DEF Init
  <2>5. QED
    BY <2>1, <2>2, <2>3, <2>4 DEF Feed!Init
<1>4. RefInv /\ RefInv' /\ [Next]_vars => [Feed!Next]_Feed!vars
  BY StepKinds, SilentFeed, OpensFeed, ServesFeed, SpeaksFeed DEF RefInv, FeedInv, LogInv
<1>5. QED
  BY <1>1, <1>2, <1>3, <1>4, PTL DEF Spec, ImplementsFeed, Feed!Spec
=============================================================================
