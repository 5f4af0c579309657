--------------------------------- MODULE Acl ---------------------------------
(***************************************************************************)
(* Access decisions of the object server: core/src/object/acl.rs,          *)
(* Object::is_allowed (core/src/object/mod.rs) and the GrantStore          *)
(* (core/src/server/mod.rs).                                               *)
(*                                                                         *)
(* Actor identifiers are strings in the code ("user:local",                *)
(* "system:compositor", "ai:<uuid>", "app:<id>:<uuid>"); the patterns only *)
(* look at the prefix and, for an app, at its id, so an actor is a value   *)
(* with a class and an application.  A method name, a state key and a path *)
(* are members of small sets; Below[d] is the set of paths that are d or   *)
(* lie under it (Path::starts_with).                                       *)
(***************************************************************************)
EXTENDS Sequences, SequencesExt

CONSTANTS Actors,    \* every actor identifier that can appear
          ClassOf,   \* [Actors -> ActorClasses], the prefix of the identifier
          AppOf,     \* [Actors -> app ids or Null], the <id> of "app:<id>:<uuid>"
          Paths,     \* directories and files the objects and the grants name
          Below,     \* [Paths -> SUBSET Paths]: the path itself and what it contains
          Null

ActorClasses == {"user", "compositor", "ai", "app"}

ASSUME ActorAssumption == /\ ClassOf \in [Actors -> ActorClasses]
                          /\ \A a \in Actors : ClassOf[a] # "app" => AppOf[a] = Null

ASSUME PathAssumption == /\ Below \in [Paths -> SUBSET Paths]
                         /\ \A p \in Paths : p \in Below[p]

-----------------------------------------------------------------------------
(* Patterns are records [kind, of]; "of" is the actor, the app id or the    *)
(* set of method names a pattern names, and Null where it names nothing.    *)

SystemCompositor == [kind |-> "SystemCompositor", of |-> Null]
AiSession        == [kind |-> "AiSession", of |-> Null]
App(id)          == [kind |-> "App", of |-> id]
AnyActor         == [kind |-> "Wildcard", of |-> Null]
ExactActor(a)    == [kind |-> "Exact", of |-> a]

ActorMatches(pattern, actor) ==
  CASE pattern.kind = "Exact"            -> pattern.of = actor
    [] pattern.kind = "Wildcard"         -> TRUE
    [] pattern.kind = "SystemCompositor" -> ClassOf[actor] = "compositor"
    [] pattern.kind = "AiSession"        -> ClassOf[actor] = "ai"
    [] pattern.kind = "App"              -> /\ ClassOf[actor] = "app"
                                            /\ AppOf[actor] = pattern.of

AnyMethod      == [kind |-> "Wildcard", of |-> {}]
Methods(names) == [kind |-> "OneOf", of |-> names]   \* Exact(m) is Methods({m})
SetStatePattern == [kind |-> "SetState", of |-> {}]

(* An operation is an invoke of a method or a set_state of a key. *)
InvokeOp(m)   == [kind |-> "Invoke", name |-> m]
SetStateOp(k) == [kind |-> "SetState", name |-> k]

(* SetState patterns speak of set_state only, names of invoke only, and the *)
(* wildcard of both.                                                        *)
MethodMatches(pattern, op) ==
  \/ pattern.kind = "Wildcard"
  \/ pattern.kind = "SetState" /\ op.kind = "SetState"
  \/ pattern.kind = "OneOf" /\ op.kind = "Invoke" /\ op.name \in pattern.of

Entry(actor, method, effect) == [actor |-> actor, method |-> method, effect |-> effect]

Applies(entry, actor, op) ==
  ActorMatches(entry.actor, actor) /\ MethodMatches(entry.method, op)

(* The loop of is_allowed: the entries in order, each match overwriting.    *)
Decision(acl, actor, op) ==
  FoldLeft(LAMBDA decided, entry :
             IF Applies(entry, actor, op) THEN entry.effect ELSE decided,
           "None", acl)

(* GrantStore::is_granted: the path itself or a directory above it.         *)
IsGranted(grants, actor, path) ==
  \E dir \in grants[actor] : path \in Below[dir]

(* Object::is_allowed.                                                      *)
IsAllowed(obj, actor, op, grants) ==
  IF obj.acl = << >>
  THEN obj.owner = actor
  ELSE \/ Decision(obj.acl, actor, op) = "Allow"
       \/ /\ Decision(obj.acl, actor, op) = "AllowIfGrantedDir"
          /\ obj.path # Null
          /\ IsGranted(grants, actor, obj.path)
=============================================================================
