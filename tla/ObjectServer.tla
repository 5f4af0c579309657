----------------------------- MODULE ObjectServer -----------------------------
(***************************************************************************)
(* The object server of the core crate (core/src/server, core/src/event):  *)
(* the object store, the event bus and the subscriptions.                  *)
(*                                                                         *)
(* One actor task owns the server and runs one command at a time           *)
(* (server-host/src/actor.rs), so every public operation is one action.    *)
(* Two commands emit several events in a loop, DisconnectActor and         *)
(* mount_with_descendants; each pass of the loop is a step of its own, and *)
(* no other action is enabled until the loop has ended.                    *)
(*                                                                         *)
(* A request the server refuses (NotFound, UnknownMethod,                  *)
(* PermissionDenied, DuplicateId) changes nothing and is not a step.       *)
(*                                                                         *)
(* Event identifiers are positions in the log: the bus assigns them in     *)
(* order and never changes an event, so a subscription's queue holds       *)
(* positions where the code holds copies.                                  *)
(***************************************************************************)
EXTENDS Acl, Naturals

CONSTANTS ObjectIds, Types, MethodNames, Keys, Values,
          Blueprints,  \* [ObjectIds -> SUBSET Objects]: what a client may mount
          Acls,        \* the access control lists those objects carry
          Grantees,    \* the actors grants are given to
          Filters,     \* the filter lists clients subscribe with
          MaxLog,      \* bound on the events of a behaviour
          MaxSubs      \* bound on the subscriptions of a behaviour

Kinds    == {"Created", "Destroyed", "Invoke", "StateSet"}
SubIds   == 1 .. MaxSubs
Targets  == [by : {"Id"}, of : ObjectIds] \cup [by : {"Type"}, of : Types]

Classes  == {"Invoke", "StateSet", "Lifecycle", "ChildChange"}

(* What a client mounts.  Props matter here only through their path.        *)
Objects == [type      : Types,
            owner     : Actors,
            parent    : ObjectIds \cup {Null},
            children  : Seq(ObjectIds),
            path      : Paths \cup {Null},
            methods   : SUBSET MethodNames,
            acl       : Acls,
            state     : [Keys -> Values \cup {Null}],
            destroyed : BOOLEAN]

Events == [kind   : Kinds,
           actor  : Actors,
           target : ObjectIds,
           name   : MethodNames \cup Keys \cup {Null},
           value  : Values \cup {Null}]

Subscriptions == [target : Targets, filters : SUBSET Classes, queue : Seq(Nat)]

Sweeps  == [actor : Actors, left : SUBSET ObjectIds]
Grafts  == [id : ObjectIds, obj : Objects]
Readers == [since : Nat, cursor : Nat, got : Seq(Nat)]

ASSUME BoundAssumption == MaxLog \in Nat /\ MaxSubs \in Nat

ASSUME InputAssumption ==
  /\ Null \notin ObjectIds \cup Objects \cup Subscriptions \cup Sweeps
  /\ Grantees \subseteq Actors
  /\ Filters \subseteq SUBSET Classes
  /\ Blueprints \in [ObjectIds -> SUBSET Objects]
  /\ \A id \in ObjectIds : \A obj \in Blueprints[id] : ~obj.destroyed

(* A client lists a child once, and makes no object its own child or parent. *)
ASSUME TreeAssumption ==
  \A id \in ObjectIds : \A obj \in Blueprints[id] :
    /\ obj.parent # id
    /\ \A i, j \in DOMAIN obj.children : i # j => obj.children[i] # obj.children[j]
    /\ \A i \in DOMAIN obj.children : obj.children[i] # id

VARIABLES
  objects,   \* objects: id -> object, Null while the id is not registered
  roots,     \* roots: ids in the order they became roots
  log,       \* bus.log
  subs,      \* subscriptions.subscriptions: id -> subscription or Null
  nextSub,   \* subscriptions.next_id
  grants,    \* grants.by_actor
  sweeping,  \* the DisconnectActor loop: its actor and the ids left, or Null
  grafting,  \* the mount_with_descendants loop: the descendants left
  reader     \* history: per subscription, where it began (since), the log
             \* length at its last drain (cursor), all it was handed (got)

vars == <<objects, roots, log, subs, nextSub, grants, sweeping, grafting, reader>>

Registered == {id \in ObjectIds : objects[id] # Null}
Live       == {id \in Registered : ~objects[id].destroyed}
Idle       == sweeping = Null /\ grafting = << >>

-----------------------------------------------------------------------------
(* The event bus and the subscriptions.                                     *)

Event(kind, actor, target, name, value) ==
  [kind |-> kind, actor |-> actor, target |-> target, name |-> name, value |-> value]

ClassOfKind(kind) == IF kind \in {"Created", "Destroyed"} THEN "Lifecycle" ELSE kind

(* SubscriptionManager::deliver's test; type is the type_uri the caller     *)
(* cached for the event's target.                                           *)
Asks(target, filters, class, id, type) ==
  /\ \/ target.by = "Id" /\ target.of = id
     \/ target.by = "Type" /\ target.of = type
  /\ class \in filters

Wants(target, filters, event, type) ==
  Asks(target, filters, ClassOfKind(event.kind), event.target, type)

(* EventBus::emit and the deliver that follows it in every operation.       *)
Emit(event, type) ==
  /\ Len(log) < MaxLog
  /\ log' = Append(log, event)
  /\ subs' = [s \in SubIds |->
                IF subs[s] # Null /\ Wants(subs[s].target, subs[s].filters, event, type)
                THEN [subs[s] EXCEPT !.queue = Append(@, Len(log) + 1)]
                ELSE subs[s]]

Register(target, filters) ==
  /\ nextSub <= MaxSubs
  /\ nextSub' = nextSub + 1
  /\ subs' = [subs EXCEPT ![nextSub] =
                [target |-> target, filters |-> filters, queue |-> << >>]]
  /\ reader' = [reader EXCEPT ![nextSub] =
                [since |-> Len(log), cursor |-> Len(log), got |-> << >>]]
  /\ UNCHANGED <<objects, roots, log, grants, sweeping, grafting>>

Subscribe == Idle /\ \E id \in ObjectIds, f \in Filters : Register([by |-> "Id", of |-> id], f)

SubscribeByType == Idle /\ \E t \in Types, f \in Filters : Register([by |-> "Type", of |-> t], f)

Unsubscribe(s) ==
  /\ Idle
  /\ subs[s] # Null
  /\ subs' = [subs EXCEPT ![s] = Null]
  /\ UNCHANGED <<objects, roots, log, nextSub, grants, sweeping, grafting, reader>>

(* Mutant: the drain copies the queue without emptying it.                  *)
DrainCopies(s) ==
  /\ Idle
  /\ subs[s] # Null
  /\ reader' = [reader EXCEPT ![s].got = @ \o subs[s].queue,
                              ![s].cursor = Len(log)]
  /\ UNCHANGED <<objects, roots, log, subs, nextSub, grants, sweeping, grafting>>

(* drain_subscription: hands over the whole queue and empties it.           *)
Drain(s) ==
  /\ Idle
  /\ subs[s] # Null
  /\ subs' = [subs EXCEPT ![s].queue = << >>]
  /\ reader' = [reader EXCEPT ![s].got = @ \o subs[s].queue,
                              ![s].cursor = Len(log)]
  /\ UNCHANGED <<objects, roots, log, nextSub, grants, sweeping, grafting>>

-----------------------------------------------------------------------------
(* The object store.                                                        *)

InSeq(x, seq) == \E i \in DOMAIN seq : seq[i] = x

(* Mutant: the parent's children are not updated (the second M10 defect).   *)
AttachParentOnly(id, obj) ==
  /\ objects' = [objects EXCEPT ![id] = obj]
  /\ roots' = IF obj.parent = Null \/ (obj.parent # Null /\ objects[obj.parent] = Null)
              THEN Append(roots, id) ELSE roots

(* mount: the object becomes a root when it names no parent, or one that is *)
(* not registered; else its parent's children gain it once.                 *)
Attach(id, obj) ==
  LET stored == [objects EXCEPT ![id] = obj]
      p      == obj.parent
  IN  IF p = Null \/ (p # Null /\ stored[p] = Null)
      THEN objects' = stored /\ roots' = Append(roots, id)
      ELSE /\ objects' = IF InSeq(id, stored[p].children)
                         THEN stored
                         ELSE [stored EXCEPT ![p].children = Append(@, id)]
           /\ UNCHANGED roots

Mount(id) ==
  /\ Idle
  /\ objects[id] = Null
  /\ \E obj \in Blueprints[id] :
       /\ Attach(id, obj)
       /\ Emit(Event("Created", obj.owner, id, Null, Null), obj.type)
  /\ UNCHANGED <<nextSub, grants, sweeping, grafting, reader>>

(* mount_with_descendants: all ids are checked before anything is stored,   *)
(* the root is listed as a root whatever its parent, and the descendants    *)
(* are stored without touching roots or children: the root's children name  *)
(* them already.                                                            *)
MountWithDescendants(id) ==
  /\ Idle
  /\ objects[id] = Null
  /\ \E obj \in Blueprints[id] :
       \E pick \in [Range(obj.children) -> UNION {Blueprints[c] : c \in Range(obj.children)}] :
         /\ obj.children # << >>
         /\ \A c \in Range(obj.children) : objects[c] = Null /\ pick[c] \in Blueprints[c]
         /\ Len(log) + Len(obj.children) < MaxLog
         /\ objects' = [objects EXCEPT ![id] = obj]
         /\ roots' = Append(roots, id)
         /\ grafting' = [i \in DOMAIN obj.children |->
                           [id |-> obj.children[i], obj |-> pick[obj.children[i]]]]
         /\ Emit(Event("Created", obj.owner, id, Null, Null), obj.type)
  /\ UNCHANGED <<nextSub, grants, sweeping, reader>>

Graft ==
  /\ grafting # << >>
  /\ LET d == Head(grafting) IN
       /\ objects' = [objects EXCEPT ![d.id] = d.obj]
       /\ Emit(Event("Created", d.obj.owner, d.id, Null, Null), d.obj.type)
  /\ grafting' = Tail(grafting)
  /\ UNCHANGED <<roots, nextSub, grants, sweeping, reader>>

(* Mutant: a tombstone still accepts invokes (KI-011).                      *)
InvokeTombstone(actor, id, m) ==
  /\ Idle
  /\ id \in Registered
  /\ m \in objects[id].methods
  /\ IsAllowed(objects[id], actor, InvokeOp(m), grants)
  /\ Emit(Event("Invoke", actor, id, m, Null), objects[id].type)
  /\ UNCHANGED <<objects, roots, nextSub, grants, sweeping, grafting, reader>>

(* invoke: tombstones count as missing, then the method, then the ACL.      *)
Invoke(actor, id, m) ==
  /\ Idle
  /\ id \in Live
  /\ m \in objects[id].methods
  /\ IsAllowed(objects[id], actor, InvokeOp(m), grants)
  /\ Emit(Event("Invoke", actor, id, m, Null), objects[id].type)
  /\ UNCHANGED <<objects, roots, nextSub, grants, sweeping, grafting, reader>>

(* Mutant: any actor the list lets invoke something may set state.          *)
SetStateAsInvoke(actor, id, k, v) ==
  /\ Idle
  /\ id \in Live
  /\ \E m \in objects[id].methods : IsAllowed(objects[id], actor, InvokeOp(m), grants)
  /\ objects' = [objects EXCEPT ![id].state[k] = v]
  /\ Emit(Event("StateSet", actor, id, k, v), objects[id].type)
  /\ UNCHANGED <<roots, nextSub, grants, sweeping, grafting, reader>>

SetState(actor, id, k, v) ==
  /\ Idle
  /\ id \in Live
  /\ IsAllowed(objects[id], actor, SetStateOp(k), grants)
  /\ objects' = [objects EXCEPT ![id].state[k] = v]
  /\ Emit(Event("StateSet", actor, id, k, v), objects[id].type)
  /\ UNCHANGED <<roots, nextSub, grants, sweeping, grafting, reader>>

(* DisconnectActor: the ids the actor owns are collected first, tombstones  *)
(* among them, then emit_destroyed runs on each in the map's own order.     *)
DisconnectActor(actor) ==
  LET owned == {id \in Registered : objects[id].owner = actor} IN
  /\ Idle
  /\ owned # {}
  /\ Len(log) + Cardinality(owned) <= MaxLog
  /\ sweeping' = [actor |-> actor, left |-> owned]
  /\ UNCHANGED <<objects, roots, log, subs, nextSub, grants, grafting, reader>>

(* Mutant: only the event is emitted, the object stays live (KI-011).       *)
EmitDestroyedOnly(id) ==
  /\ sweeping # Null
  /\ id \in sweeping.left
  /\ UNCHANGED objects
  /\ Emit(Event("Destroyed", sweeping.actor, id, Null, Null), objects[id].type)
  /\ sweeping' = IF sweeping.left = {id} THEN Null
                 ELSE [sweeping EXCEPT !.left = @ \ {id}]
  /\ UNCHANGED <<roots, nextSub, grants, grafting, reader>>

(* Mutant: the type is looked up too late, so type subscriptions miss it.   *)
EmitDestroyedUntyped(id) ==
  /\ sweeping # Null
  /\ id \in sweeping.left
  /\ objects' = [objects EXCEPT ![id].destroyed = TRUE]
  /\ Emit(Event("Destroyed", sweeping.actor, id, Null, Null), Null)
  /\ sweeping' = IF sweeping.left = {id} THEN Null
                 ELSE [sweeping EXCEPT !.left = @ \ {id}]
  /\ UNCHANGED <<roots, nextSub, grants, grafting, reader>>

EmitDestroyed(id) ==
  /\ sweeping # Null
  /\ id \in sweeping.left
  /\ objects' = [objects EXCEPT ![id].destroyed = TRUE]
  /\ Emit(Event("Destroyed", sweeping.actor, id, Null, Null), objects[id].type)
  /\ sweeping' = IF sweeping.left = {id} THEN Null
                 ELSE [sweeping EXCEPT !.left = @ \ {id}]
  /\ UNCHANGED <<roots, nextSub, grants, grafting, reader>>

AddGrant(actor, path) ==
  /\ Idle
  /\ grants' = [grants EXCEPT ![actor] = @ \cup {path}]
  /\ UNCHANGED <<objects, roots, log, subs, nextSub, sweeping, grafting, reader>>

(* Mutant: the actor's whole entry goes, not the one path.                  *)
RemoveGrantEntry(actor, path) ==
  /\ Idle
  /\ grants' = [a \in Actors \ {actor} |-> grants[a]]
  /\ UNCHANGED <<objects, roots, log, subs, nextSub, sweeping, grafting, reader>>

RemoveGrant(actor, path) ==
  /\ Idle
  /\ grants' = [grants EXCEPT ![actor] = @ \ {path}]
  /\ UNCHANGED <<objects, roots, log, subs, nextSub, sweeping, grafting, reader>>

-----------------------------------------------------------------------------
Init ==
  /\ objects = [id \in ObjectIds |-> Null]
  /\ roots = << >>
  /\ log = << >>
  /\ subs = [s \in SubIds |-> Null]
  /\ nextSub = 1
  /\ grants = [a \in Actors |-> {}]
  /\ sweeping = Null
  /\ grafting = << >>
  /\ reader = [s \in SubIds |-> [since |-> 0, cursor |-> 0, got |-> << >>]]

Next ==
  \/ Subscribe
  \/ SubscribeByType
  \/ \E s \in SubIds : Unsubscribe(s) \/ Drain(s)
  \/ \E id \in ObjectIds : Mount(id) \/ MountWithDescendants(id) \/ EmitDestroyed(id)
  \/ Graft
  \/ \E a \in Actors, id \in ObjectIds, m \in MethodNames : Invoke(a, id, m)
  \/ \E a \in Actors, id \in ObjectIds, k \in Keys, v \in Values : SetState(a, id, k, v)
  \/ \E a \in Actors : DisconnectActor(a)
  \/ \E a \in Grantees, p \in Paths : AddGrant(a, p) \/ RemoveGrant(a, p)

Spec == Init /\ [][Next]_vars

-----------------------------------------------------------------------------
(* Properties.                                                              *)

(* The shape of the server's state.                                         *)
TypeOK ==
  /\ objects \in [ObjectIds -> Objects \cup {Null}]
  /\ roots \in Seq(ObjectIds)
  /\ log \in Seq(Events)
  /\ subs \in [SubIds -> Subscriptions \cup {Null}]
  /\ nextSub \in 1 .. MaxSubs + 1
  /\ grants \in [Actors -> SUBSET Paths]
  /\ sweeping \in Sweeps \cup {Null}
  /\ grafting \in Seq(Grafts)
  /\ reader \in [SubIds -> Readers]

Increasing(seq) == \A i, j \in DOMAIN seq : i < j => seq[i] < seq[j]

(* The positions after lo, up to hi, of the events subscription s asked for. *)
Wanted(s, lo, hi) ==
  {i \in DOMAIN log : /\ lo < i /\ i <= hi
                      /\ Wants(subs[s].target, subs[s].filters, log[i],
                               objects[log[i].target].type)}

(* Delivery (subscribe.rs deliver and drain): what a subscription was handed *)
(* is every event it asked for between its registration and its last drain,  *)
(* what waits in its queue is every one since, both in log order: nothing    *)
(* is lost, repeated, reordered or misrouted, whatever the other             *)
(* subscriptions do.                                                         *)
DeliveryExact ==
  \A s \in SubIds : subs[s] # Null =>
    /\ Range(reader[s].got) = Wanted(s, reader[s].since, reader[s].cursor)
    /\ Range(subs[s].queue) = Wanted(s, reader[s].cursor, Len(log))
    /\ Increasing(reader[s].got)
    /\ Increasing(subs[s].queue)

(* The life of an object in the log (KI-011): one Created event opens it,    *)
(* invokes and state changes follow, and after Destroyed there is nothing    *)
(* but further Destroyed events; ids are never reused.                       *)
LifecycleOrder ==
  \A j \in DOMAIN log :
    /\ \E i \in DOMAIN log : i <= j /\ log[i].target = log[j].target /\ log[i].kind = "Created"
    /\ \A i \in DOMAIN log : i < j /\ log[i].target = log[j].target =>
         /\ log[j].kind # "Created"
         /\ log[i].kind = "Destroyed" => log[j].kind = "Destroyed"

LastSet(id, k, i) ==
  /\ log[i].kind = "StateSet" /\ log[i].target = id /\ log[i].name = k
  /\ \A j \in DOMAIN log :
       j > i => ~(log[j].kind = "StateSet" /\ log[j].target = id /\ log[j].name = k)

(* The log tells the whole story (ADR-003): replaying it gives the store.    *)
(* An object is registered iff it was created, a tombstone iff it was        *)
(* destroyed, and each state value is the last one set or one it was         *)
(* mounted with.                                                             *)
LogReplaysToStore ==
  \A id \in ObjectIds :
    /\ id \in Registered <=> \E i \in DOMAIN log : log[i].target = id /\ log[i].kind = "Created"
    /\ id \in Registered =>
         /\ objects[id].destroyed <=>
              \E i \in DOMAIN log : log[i].target = id /\ log[i].kind = "Destroyed"
         /\ \A k \in Keys :
              \/ \E i \in DOMAIN log : LastSet(id, k, i) /\ objects[id].state[k] = log[i].value
              \/ /\ \A i \in DOMAIN log : ~LastSet(id, k, i)
                 /\ \E obj \in Blueprints[id] : obj.state[k] = objects[id].state[k]

(* The grants an actor can have at most.                                     *)
AllGrants == [a \in Actors |-> IF a \in Grantees THEN Paths ELSE {}]

(* What accounts for an event about obj: its owner created and destroyed it, *)
(* an invoke names one of its methods, and the ACL, under the grants held,   *)
(* lets the actor do what it did.                                            *)
Licensed(e, obj, held) ==
  CASE e.kind \in {"Created", "Destroyed"} -> e.actor = obj.owner
    [] e.kind = "Invoke"   -> /\ e.name \in obj.methods
                              /\ IsAllowed(obj, e.actor, InvokeOp(e.name), held)
    [] e.kind = "StateSet" -> IsAllowed(obj, e.actor, SetStateOp(e.name), held)

(* Every event in the log is accounted for by the object it is about, as it  *)
(* is now, with grants only where grants go: no operation gets round the     *)
(* ACL, and none changes what the ACL was decided on.                        *)
EventsAuthorised ==
  \A i \in DOMAIN log : Licensed(log[i], objects[log[i].target], AllGrants)

Distinct(seq) == \A i, j \in DOMAIN seq : i # j => seq[i] # seq[j]

(* The tree (mount.rs, the second M10 defect): whatever the order of mounts,  *)
(* a walk from the roots through the children finds every registered object:  *)
(* any set of them holds a root or is entered from outside, by an object that *)
(* lists one of its members.  No listing names an id twice.                   *)
TreeReachable ==
  /\ \A set \in SUBSET Registered : set # {} =>
       \/ \E id \in set : InSeq(id, roots)
       \/ \E id \in set, p \in Registered \ set : InSeq(id, objects[p].children)
  /\ Distinct(roots)
  /\ \A p \in Registered : Distinct(objects[p].children)

-----------------------------------------------------------------------------
(* Refinement: forget what an event carries beyond its class, its target and *)
(* the target's type, and read the queues as cursors.                        *)

FeedEvents == [class : Classes, target : ObjectIds, type : Types]

Asked(target, filters) ==
  {e \in FeedEvents : Asks(target, filters, e.class, e.target, e.type)}

FeedLog == [i \in DOMAIN log |-> [class  |-> ClassOfKind(log[i].kind),
                                  target |-> log[i].target,
                                  type   |-> objects[log[i].target].type]]

FeedStatus == [s \in SubIds |-> IF subs[s] # Null THEN "open"
                                ELSE IF s < nextSub THEN "closed" ELSE "unopened"]

FeedAsk == [s \in SubIds |->
              IF subs[s] # Null THEN Asked(subs[s].target, subs[s].filters) ELSE {}]

Feed == INSTANCE EventFeed WITH
  Subs     <- SubIds,
  Events   <- FeedEvents,
  Requests <- {Asked(target, filters) : target \in Targets, filters \in Filters},
  log      <- FeedLog,
  status   <- FeedStatus,
  ask      <- FeedAsk,
  cursor   <- [s \in SubIds |-> reader[s].cursor],
  got      <- [s \in SubIds |-> reader[s].got]

(* The server's queues, filled event by event while other operations run,    *)
(* are invisible from outside: a drain returns what a cursor into the log    *)
(* would.                                                                    *)
ImplementsFeed == Feed!Spec
=============================================================================
