------------------------------ MODULE SceneUse ------------------------------
(***************************************************************************)
(* A scene and the code that uses it, in any order the program's kind of   *)
(* use allows: entities are created and destroyed, components assigned,    *)
(* written and removed, and a loop over a view may be under way while its  *)
(* body does any of this.  As in the game, an entity is destroyed once and *)
(* its handle is not used afterwards, remove_component alone excepted: it  *)
(* is the one operation the code guards against such a handle.             *)
(***************************************************************************)
EXTENDS Scene

CONSTANTS MaxCreate,  \* bound: entities created
          Views       \* the component sets the views are over, as sequences

ASSUME UseAssumption ==
  MaxCreate \in Nat /\ MaxCreate < VERSIONS /\ Views \subseteq Seq(Component)

VARIABLES
  scene,
  issued,   \* history: every handle new_entity returned
  created,  \* history: how many it returned
  alive,    \* history: those not destroyed
  peak,     \* history: the most that were alive at once
  loop      \* the range-based for over a view

useVars == <<scene, issued, created, alive, peak, loop>>

Contents == [h \in alive |->
               [T \in Slot(scene, Index(h)).mask |-> Content(scene, h, T)]]

Matching(Ts) == {h \in alive : Ts \subseteq Slot(scene, Index(h)).mask}

(* index and end are those of the two iterators, types the view's mask;    *)
(* seen and lasting are history: the handles the body was given, and the   *)
(* entities that matched when the loop began and have matched ever since.  *)
NoLoop == [at |-> "none", index |-> 0, end |-> 0, types |-> {},
           seen |-> {}, lasting |-> {}]

UseInit ==
  /\ scene = EmptyScene
  /\ issued = {} /\ created = 0 /\ alive = {} /\ peak = 0
  /\ loop = NoLoop

CanStep == scene.overrun = "none"

(* An operation on the scene, from a loop's body or elsewhere.             *)
LastingNow(l) ==
  IF l.at = "body"
  THEN [l EXCEPT !.lasting = @ \intersect {h \in alive' :
                                 l.types \subseteq Slot(scene', Index(h)).mask}]
  ELSE l

Create ==
  /\ CanStep /\ created < MaxCreate
  /\ LET h == NewHandle(scene) IN
       /\ scene' = NewEntity(scene)
       /\ issued' = issued \union {h}
       /\ alive' = alive \union {h}
  /\ created' = created + 1
  /\ peak' = IF Cardinality(alive') > peak THEN Cardinality(alive') ELSE peak
  /\ UNCHANGED loop

Destroy(h) ==
  /\ CanStep /\ h \in alive
  /\ scene' = DestroyEntity(scene, h)
  /\ alive' = alive \ {h}
  /\ loop' = LastingNow(loop)
  /\ UNCHANGED <<issued, created, peak>>

Assign(h, T) ==
  /\ CanStep /\ h \in alive
  /\ scene' = AssignComponent(scene, h, T)
  /\ UNCHANGED <<issued, created, alive, peak, loop>>

RemoveFrom(h, T) ==
  /\ CanStep /\ h \in issued
  /\ scene' = RemoveComponent(scene, h, T)
  /\ UNCHANGED <<issued, created, alive, peak>>
  /\ loop' = LastingNow(loop)

Write(h, T, value) ==
  /\ CanStep /\ h \in alive
  /\ scene' = WriteComponent(scene, h, T, value)
  /\ UNCHANGED <<issued, created, alive, peak, loop>>

(* The loop is at slot i: its body runs there unless the iterator equals   *)
(* the one end() returned or has reached the present end of the entities.  *)
Reached(i, l) ==
  IF i # l.end /\ i # Size(scene)
  THEN [l EXCEPT !.at = "body", !.index = i,
                 !.seen = @ \union {Slot(scene, i).id}]
  ELSE [NoLoop EXCEPT !.at = "done", !.seen = l.seen, !.lasting = l.lasting]

(* get_view, begin() and end().                                            *)
StartView(Ts) ==
  /\ CanStep /\ loop.at # "body"
  /\ scene' = MentionAll(scene, Ts)
  /\ LET types == {Ts[k] : k \in DOMAIN Ts} IN
       loop' = Reached(NextMatch(scene, 0, types),
                       [NoLoop EXCEPT !.end = Size(scene), !.types = types,
                                      !.lasting = Matching(types)])
  /\ UNCHANGED <<issued, created, alive, peak>>

(* Mutant: the iterator passes one slot unseen.                            *)
NextViewSkips ==
  /\ CanStep /\ loop.at = "body"
  /\ loop' = Reached(NextMatch(scene, loop.index + 2, loop.types), loop)
  /\ UNCHANGED <<scene, issued, created, alive, peak>>

(* operator++.                                                             *)
NextView ==
  /\ CanStep /\ loop.at = "body"
  /\ loop' = Reached(NextMatch(scene, loop.index + 1, loop.types), loop)
  /\ UNCHANGED <<scene, issued, created, alive, peak>>

UseNext ==
  \/ Create
  \/ \E h \in alive : Destroy(h)
  \/ \E h \in alive, T \in Component : Assign(h, T)
  \/ \E h \in issued, T \in Component : RemoveFrom(h, T)
  \/ \E h \in alive, T \in Component : \E value \in Value : Write(h, T, value)
  \/ \E Ts \in Views : StartView(Ts)
  \/ NextView

UseSpec == UseInit /\ [][UseNext]_useVars
-----------------------------------------------------------------------------
Handle == (0..(MaxCreate - 1)) \X (0..MaxCreate)
LoopState == [at : {"none", "body", "done"}, index : 0..MaxCreate,
              end : 0..MaxCreate, types : SUBSET Component,
              seen : SUBSET Handle, lasting : SUBSET Handle]

(* Every part of the scene and of its history has its type.                *)
UseTypeOK ==
  /\ DOMAIN scene = DOMAIN EmptyScene
  /\ scene.entities \in Seq([id : (-1..(MaxCreate - 1)) \X (0..MaxCreate),
                             mask : SUBSET Component])
  /\ scene.free \in Seq(0..(MaxCreate - 1))
  /\ scene.poolsSize \in 0..Cardinality(Component)
  /\ \A T \in Component : scene.componentId[T] \in -1..(scene.counter - 1)
  /\ \A T \in Component : \A i \in DOMAIN scene.pool[T] : scene.pool[T][i] \in Value
  /\ scene.counter \in 0..Cardinality(Component)
  /\ scene.overrun \in {"none", "pools", "slots"}
  /\ issued \subseteq Handle /\ alive \subseteq issued
  /\ created \in 0..MaxCreate /\ peak \in 0..created
  /\ loop \in LoopState

(* A handle names one entity for ever: a living entity is in the slot its  *)
(* handle tells, no slot answers to the handle of a destroyed one, and no  *)
(* handle is handed out twice, however often the slots change hands        *)
(* (new_entity and destroy_entity keep the version beside the index).      *)
HandlesNameOneEntity ==
  /\ Cardinality(issued) = created
  /\ \A h \in alive : Slot(scene, Index(h)).id = h
  /\ \A i \in 0..(Size(scene) - 1) : Slot(scene, i).id \notin issued \ alive

(* A slot is either on the free list, once, or holds a living entity: no   *)
(* slot is lost and none has two owners.                                   *)
FreeSlots == {scene.free[k] : k \in DOMAIN scene.free}
SlotsAccounted ==
  /\ Cardinality(FreeSlots) = Len(scene.free)
  /\ FreeSlots \intersect {Index(h) : h \in alive} = {}
  /\ Size(scene) = Len(scene.free) + Cardinality(alive)

(* A pool is written past its end only if more entities than it has room   *)
(* for were alive at once: slots are reused before new ones are made, so   *)
(* the unchecked ComponentPool::get stays inside however many entities     *)
(* come and go.                                                            *)
SlotsSuffice ==
  /\ Size(scene) <= peak
  /\ scene.overrun = "slots" => peak > MAX_ENTITIES

(* All three at once: slots change hands soundly.                          *)
SlotsSound == HandlesNameOneEntity /\ SlotsAccounted /\ SlotsSuffice

(* When a loop over a view is over, its body was given every entity that   *)
(* matched from the loop's begin to its end, whatever the body created,    *)
(* destroyed or changed meanwhile.                                         *)
ViewComplete == loop.at = "done" => loop.lasting \subseteq loop.seen

(* Each turn of a loop is about a living entity with the view's            *)
(* components, one the loop had not given before.                          *)
EachTurnNew ==
  [][loop'.at = "body" /\ (loop.at # "body" \/ loop'.index # loop.index) =>
       LET h == Slot(scene, loop'.index).id IN
         /\ h \in Matching(loop'.types)
         /\ loop.at = "body" => h \notin loop.seen]_useVars

(* An operation through one handle leaves the components of every other    *)
(* entity as they were, also when its slot once was the other's            *)
(* (remove_component compares the handle with the slot).                   *)
OthersUntouched ==
  [][\A h \in issued :
       (\/ Destroy(h)
        \/ \E T \in Component : \/ Assign(h, T)
                              \/ RemoveFrom(h, T)
                              \/ \E value \in Value : Write(h, T, value))
       => \A g \in alive \ {h} : Contents'[g] = Contents[g]]_useVars

(* The scene is a store of entities: EntityStore has no slots, versions or *)
(* pools, and after each operation every entity's components are those of  *)
(* the store.                                                              *)
EntityStore == INSTANCE EntityStore WITH contents <- Contents
RefinesEntityStore == EntityStore!Store
=============================================================================
