------------------------------- MODULE Scene -------------------------------
(***************************************************************************)
(* The entity component system (scene.hpp, scene.cpp, entity.hpp,          *)
(* component_pool.hpp, scene_view.hpp) as a data structure: a scene is a   *)
(* record and each method is an operator on it, for the modules that own   *)
(* one (SceneUse, GameScene).                                              *)
(*                                                                         *)
(* A handle is <<index, version>>, the two halves of an EntityID.  The ids *)
(* that get_id<T>() gives to component types, statics of the process, are  *)
(* kept in the record: this program has one scene per process.  A write    *)
(* outside a vector or a pool is undefined behaviour: the record's overrun *)
(* tells which one it was and its owner takes no further step.             *)
(***************************************************************************)
EXTENDS Integers, Sequences, FiniteSets

CONSTANTS Component,    \* component types
          Value,        \* what a component can hold
          Blank,        \* Blank[T]: what the constructor T() leaves
          MAX_ENTITIES, \* components a pool has room for
          VERSIONS      \* versions a slot goes through (2^32)

ASSUME SceneAssumption ==
  /\ IsFiniteSet(Component) /\ Cardinality(Component) <= 32  \* MAX_COMPONENTS
  /\ Blank \in [Component -> Value]
  /\ MAX_ENTITIES \in Nat /\ VERSIONS \in Nat \ {0}

NO_ID == -1          \* get_id<T>() not called yet
INVALID_INDEX == -1  \* EntityIndex(-1)

Index(handle) == handle[1]
Version(handle) == handle[2]
IsEntityValid(id) == Index(id) # INVALID_INDEX

EmptyScene ==
  [entities |-> <<>>,                             \* of [id, mask]
   free |-> <<>>,                                 \* free_entities
   poolsSize |-> 0,                               \* component_pools.size()
   pool |-> [T \in Component |-> <<>>],           \* what each pool holds
   componentId |-> [T \in Component |-> NO_ID],
   counter |-> 0,                                 \* s_component_counter
   overrun |-> "none"]

Size(s) == Len(s.entities)
Slot(s, i) == s.entities[i + 1]
Holds(s, handle, T) == T \in Slot(s, Index(handle)).mask
Content(s, handle, T) == s.pool[T][Index(handle)]

(* Mutant: the id is not kept.                                             *)
MentionAnew(s, T) == [s EXCEPT !.componentId[T] = s.counter, !.counter = @ + 1]

(* get_id<T>(): the first call takes the next id.                          *)
Mention(s, T) ==
  IF s.componentId[T] # NO_ID THEN s
  ELSE [s EXCEPT !.componentId[T] = s.counter, !.counter = @ + 1]

(* A view's constructor calls get_id for its types in their order.         *)
MentionAll(s, Ts) ==
  LET after[i \in 0..Len(Ts)] == IF i = 0 THEN s ELSE Mention(after[i - 1], Ts[i])
  IN  after[Len(Ts)]

(* The handle new_entity returns: the slot freed last, with the version it *)
(* was left with, or else a new slot.                                      *)
NewHandle(s) ==
  IF s.free # <<>>
  THEN LET i == s.free[Len(s.free)] IN <<i, Version(Slot(s, i).id)>>
  ELSE <<Size(s), 0>>

(* Mutant: a free slot is used but left on the list.                       *)
NewEntityKeepsFree(s) ==
  LET h == NewHandle(s) IN
  IF s.free # <<>>
  THEN [s EXCEPT !.entities[Index(h) + 1].id = h]
  ELSE [s EXCEPT !.entities = Append(@, [id |-> h, mask |-> {}])]

(* Mutant: every entity gets a slot of its own.                            *)
NewEntityAppends(s) ==
  [s EXCEPT !.entities = Append(@, [id |-> <<Size(s), 0>>, mask |-> {}])]

NewEntity(s) ==
  LET h == NewHandle(s) IN
  IF s.free # <<>>
  THEN [s EXCEPT !.entities[Index(h) + 1].id = h,
                 !.free = SubSeq(@, 1, Len(@) - 1)]
  ELSE [s EXCEPT !.entities = Append(@, [id |-> h, mask |-> {}])]

(* Mutant: the mask of the destroyed entity is left.                       *)
DestroyKeepsMask(s, handle) ==
  LET i == Index(handle) IN
  [s EXCEPT !.entities[i + 1].id =
                <<INVALID_INDEX, (Version(handle) + 1) % VERSIONS>>,
            !.free = Append(@, i)]

(* Mutant: the version is not advanced.                                    *)
DestroyKeepsVersion(s, handle) ==
  LET i == Index(handle) IN
  [s EXCEPT !.entities[i + 1] =
                [id |-> <<INVALID_INDEX, Version(handle)>>, mask |-> {}],
            !.free = Append(@, i)]

(* Mutant: the slot is not marked as free of an entity.                    *)
DestroyKeepsIndex(s, handle) ==
  LET i == Index(handle) IN
  [s EXCEPT !.entities[i + 1] =
                [id |-> <<i, (Version(handle) + 1) % VERSIONS>>, mask |-> {}],
            !.free = Append(@, i)]

(* The slot is not compared with the handle: destroying twice would put it *)
(* on the list twice.                                                      *)
DestroyEntity(s, handle) ==
  LET i == Index(handle) IN
  [s EXCEPT !.entities[i + 1] =
                [id |-> <<INVALID_INDEX, (Version(handle) + 1) % VERSIONS>>,
                 mask |-> {}],
            !.free = Append(@, i)]

(* The component made at an index of its pool.                             *)
Put(pool, i, v) == [j \in DOMAIN pool \union {i} |-> IF j = i THEN v ELSE pool[j]]

(* The list of pools grows by one at most, whatever the id, and the pool   *)
(* checks no index.                                                        *)
AssignComponent(s0, handle, T) ==
  LET s == Mention(s0, T)
      id == s.componentId[T]
      size == IF s.poolsSize <= id THEN s.poolsSize + 1 ELSE s.poolsSize
      grown == [s EXCEPT !.poolsSize = size]
      i == Index(handle)
  IN  IF size <= id THEN [grown EXCEPT !.overrun = "pools"]
      ELSE IF i >= MAX_ENTITIES THEN [grown EXCEPT !.overrun = "slots"]
      ELSE [grown EXCEPT !.pool[T] = Put(@, i, Blank[T]),
                         !.entities[i + 1].mask = @ \union {T}]

(* Mutant: the handle is not compared with the slot.                       *)
RemoveUnchecked(s, handle, T) ==
  [Mention(s, T) EXCEPT !.entities[Index(handle) + 1].mask = @ \ {T}]

RemoveComponent(s, handle, T) ==
  IF Slot(s, Index(handle)).id # handle THEN s
  ELSE [Mention(s, T) EXCEPT !.entities[Index(handle) + 1].mask = @ \ {T}]

(* Writing through the pointer get_component returned; it is null where    *)
(* the mask says so, and then the owner writes nothing.                    *)
WriteComponent(s, handle, T, value) ==
  LET m == Mention(s, T) IN
  IF ~Holds(s, handle, T) THEN m
  ELSE [m EXCEPT !.pool[T][Index(handle)] = value]

(* The slots a view over the types Ts stops at.                            *)
Matches(s, i, Ts) == IsEntityValid(Slot(s, i).id) /\ Ts \subseteq Slot(s, i).mask

(* The first one from slot i on, or size().                                *)
NextMatch(s, i, Ts) ==
  IF \E j \in i..(Size(s) - 1) : Matches(s, j, Ts)
  THEN CHOOSE j \in i..(Size(s) - 1) :
         Matches(s, j, Ts) /\ \A k \in i..(j - 1) : ~Matches(s, k, Ts)
  ELSE Size(s)
=============================================================================
