---------------------------- MODULE SceneProofs ----------------------------
(***************************************************************************)
(* What the entity component system keeps, for any number of entities,     *)
(* component types and views: a handle names one entity for ever, slots    *)
(* are neither lost nor shared, and a loop over a view is given everybody. *)
(***************************************************************************)
EXTENDS SceneUse, SceneFacts

-----------------------------------------------------------------------------
(* Slots and handles.                                                      *)

Slots == 0..(Size(scene) - 1)
Id(i) == Slot(scene, i).id

(* A handle that was given out tells a slot; if its entity is gone, the    *)
(* slot has a higher version, and if not, it is the slot's.                *)
HandleInv ==
  /\ alive \subseteq issued /\ IsFiniteSet(issued) /\ Cardinality(issued) = created
  /\ \A h \in issued : /\ h = <<Index(h), Version(h)>> /\ Index(h) \in Slots /\ Version(h) \in Nat
                       /\ h \in alive => Id(Index(h)) = h
                       /\ h \notin alive => Version(h) < Version(Id(Index(h)))

(* A slot without a living entity is empty and on the free list.  Versions *)
(* count entities that are gone, so that they never reach VERSIONS.        *)
SlotInv ==
  \A i \in Slots :
    /\ \/ Id(i) \in alive /\ Index(Id(i)) = i
       \/ Index(Id(i)) = INVALID_INDEX /\ Slot(scene, i).mask = {} /\ i \in FreeSlots
    /\ Version(Id(i)) + Cardinality(alive) <= created

(* The free list holds slots without an entity, each once.                 *)
FreeInv ==
  /\ \A k \in 1..Len(scene.free) : scene.free[k] \in Slots /\ Index(Id(scene.free[k])) = INVALID_INDEX
  /\ \A j, k \in 1..Len(scene.free) : scene.free[j] = scene.free[k] => j = k
  /\ IsFiniteSet(FreeSlots) /\ Cardinality(FreeSlots) = Len(scene.free)
  /\ Size(scene) = Len(scene.free) + Cardinality(alive)

CountInv ==
  /\ created \in 0..MaxCreate /\ peak \in 0..created
  /\ Cardinality(alive) <= peak /\ SlotsSuffice
  /\ scene.overrun \in {"none", "pools", "slots"}

UseInv == SceneOK(scene) /\ HandleInv /\ SlotInv /\ FreeInv /\ CountInv

(* These say what SlotsSound says.                                         *)
LEMMA UseInvImplies == UseInv => SlotsSound
<1> SUFFICES ASSUME UseInv
             PROVE  SlotsSound
  OBVIOUS
<1> USE DEF UseInv
<1>1. \A h \in alive : h \in issued /\ Slot(scene, Index(h)).id = h /\ Index(h) \in Slots
                       /\ Index(Id(Index(h))) # INVALID_INDEX
  BY DEF HandleInv, Id, Slots, INVALID_INDEX
<1>2. ASSUME NEW i \in 0..(Size(scene) - 1)
      PROVE  Slot(scene, i).id \notin issued \ alive
  BY DEF HandleInv, SlotInv, Id, Slots, INVALID_INDEX
<1>3. FreeSlots \intersect {Index(h) : h \in alive} = {}
  <2>1. \A i \in FreeSlots : Index(Id(i)) = INVALID_INDEX
    BY DEF FreeInv, FreeSlots, SceneOK
  <2> QED
    BY <1>1, <2>1
<1> QED
  BY <1>1, <1>2, <1>3 DEF SlotsSound, HandlesNameOneEntity, SlotsAccounted, HandleInv, FreeInv, CountInv

(* Nothing was created at the start.                                       *)
LEMMA UseInvInit == UseInit => UseInv
<1> SUFFICES ASSUME UseInit
             PROVE  UseInv
  OBVIOUS
<1>1. /\ DOMAIN scene = Fields /\ scene.entities = <<>> /\ scene.free = <<>> /\ scene.poolsSize = 0
      /\ scene.pool = [T \in Component |-> <<>>] /\ scene.componentId = [T \in Component |-> NO_ID]
      /\ scene.counter = 0 /\ scene.overrun = "none"
  BY DEF UseInit, EmptyScene, Fields
<1>2. Mentioned(scene) = {} /\ Cardinality({}) = 0 /\ IsFiniteSet({})
  BY <1>1, FS_EmptySet DEF Mentioned
<1>3. IdsOK(scene)
  BY <1>1, <1>2 DEF IdsOK, NO_ID
<1>4. SceneOK(scene)
  BY <1>1, <1>3 DEF SceneOK
<1>5. Size(scene) = 0 /\ Len(scene.free) = 0 /\ Slots = {} /\ FreeSlots = {}
  BY <1>1 DEF Size, Slots, FreeSlots
<1>6. issued = {} /\ alive = {} /\ created = 0 /\ peak = 0
  BY DEF UseInit
<1> QED
  BY <1>1, <1>2, <1>4, <1>5, <1>6, UseAssumption
     DEF UseInv, HandleInv, SlotInv, FreeInv, CountInv, SlotsSuffice

(* Everything about the slots and the handles stays as it is, but for what *)
(* a living entity's mask is.                                              *)
SlotsKept ==
  /\ SceneOK(scene') /\ scene'.free = scene.free /\ Size(scene') = Size(scene)
  /\ \A i \in Slots : /\ Slot(scene', i).id = Slot(scene, i).id
                      /\ Index(Id(i)) = INVALID_INDEX => Slot(scene', i).mask = Slot(scene, i).mask
  /\ scene'.overrun \in {"none", "pools", "slots"}
  /\ scene'.overrun = "slots" => scene.overrun = "slots" \/ Size(scene) > MAX_ENTITIES
  /\ UNCHANGED <<issued, created, alive, peak>>

(* Such a step keeps the invariant.                                        *)
LEMMA KeptStep ==
  ASSUME UseInv, SlotsKept
  PROVE  UseInv'
<1> USE DEF UseInv
<1>1. SceneOK(scene') /\ Slots' = Slots /\ FreeSlots' = FreeSlots /\ UNCHANGED <<issued, created, alive, peak>>
      /\ scene'.free = scene.free /\ Size(scene') = Size(scene)
  BY DEF SlotsKept, Slots, FreeSlots
<1>2. \A i \in Slots : /\ Id(i)' = Id(i)
                       /\ Index(Id(i)) = INVALID_INDEX => Slot(scene', i).mask = Slot(scene, i).mask
  BY <1>1 DEF SlotsKept, Id
<1>3. HandleInv'
  BY <1>1, <1>2 DEF HandleInv
<1>4. SlotInv'
  BY <1>1, <1>2 DEF SlotInv
<1>5. FreeInv'
  BY <1>1, <1>2 DEF FreeInv
<1>6. CountInv'
  <2>1. Size(scene) \in Nat /\ peak \in Nat /\ MAX_ENTITIES \in Nat
    BY SceneAssumption, UseAssumption DEF SceneOK, Size, CountInv
  <2> QED
    BY <1>1, <2>1 DEF CountInv, SlotsSuffice, SlotsKept
<1> QED
  BY <1>1, <1>3, <1>4, <1>5, <1>6

(* A handle that was given out, and a living entity's in particular.       *)
LEMMA HandleFacts ==
  ASSUME UseInv, NEW h \in issued
  PROVE  /\ h = <<Index(h), Version(h)>> /\ Index(h) \in 0..(Size(scene) - 1) /\ Version(h) \in Nat
         /\ h \in alive => Slot(scene, Index(h)).id = h
         /\ Size(scene) \in Nat /\ Index(h) # INVALID_INDEX
BY DEF UseInv, HandleInv, Slots, Id, Size, SceneOK, INVALID_INDEX

(* One slot gets another mask, and keeps its handle.                       *)
LEMMA MaskStep ==
  ASSUME UseInv, NEW i \in Slots, NEW e, e.id = Id(i), Index(Id(i)) # INVALID_INDEX,
         SceneOK(scene'), SlotBecomes(scene, scene', i, e), scene'.free = scene.free,
         scene'.overrun = scene.overrun, UNCHANGED <<issued, created, alive, peak>>
  PROVE  SlotsKept
BY DEF SlotsKept, SlotBecomes, Slots, Id, UseInv, CountInv

(* No slot changes.                                                        *)
LEMMA EntitiesStep ==
  ASSUME UseInv, SceneOK(scene'), scene'.entities = scene.entities, scene'.free = scene.free,
         scene'.overrun \in {"none", "pools", "slots"},
         scene'.overrun = "slots" => scene.overrun = "slots" \/ Size(scene) > MAX_ENTITIES,
         UNCHANGED <<issued, created, alive, peak>>
  PROVE  SlotsKept
BY DEF SlotsKept, Slots, Size, Slot

(* assign_component changes no more than a living entity's mask.           *)
LEMMA AssignKeeps ==
  ASSUME UseInv, NEW h \in alive, NEW T \in Component, Assign(h, T)
  PROVE  SlotsKept
<1>1. /\ h \in issued /\ scene.overrun = "none" /\ scene' = AssignComponent(scene, h, T)
      /\ UNCHANGED <<issued, created, alive, peak>> /\ SceneOK(scene)
  BY DEF Assign, CanStep, UseInv, HandleInv
<1>2. Index(h) \in Slots /\ Index(Id(Index(h))) # INVALID_INDEX /\ Size(scene) \in Nat
  BY <1>1, HandleFacts DEF Slots, Id
<1>3. SceneOK(scene') /\ scene'.free = scene.free
  BY <1>1, <1>2, AssignComponentFacts DEF Slots
<1> DEFINE e == [id |-> Id(Index(h)), mask |-> Slot(scene, Index(h)).mask \union {T}]
<1>4. \/ SlotBecomes(scene, scene', Index(h), e) /\ scene'.overrun = scene.overrun
      \/ /\ scene'.entities = scene.entities /\ scene'.overrun \in {"pools", "slots"}
         /\ scene'.overrun = "slots" => Index(h) >= MAX_ENTITIES
  BY <1>1, <1>2, AssignComponentFacts DEF Slots, Id
<1>5. CASE SlotBecomes(scene, scene', Index(h), e) /\ scene'.overrun = scene.overrun
  <2>1. e.id = Id(Index(h))
    OBVIOUS
  <2> HIDE DEF e
  <2> QED
    BY <1>1, <1>2, <1>3, <1>5, <2>1, MaskStep
<1>6. CASE /\ scene'.entities = scene.entities /\ scene'.overrun \in {"pools", "slots"}
           /\ scene'.overrun = "slots" => Index(h) >= MAX_ENTITIES
  <2>1. scene'.overrun = "slots" => Size(scene) > MAX_ENTITIES
    BY <1>2, <1>6, SceneAssumption DEF Slots
  <2> QED
    BY <1>1, <1>3, <1>6, <2>1, EntitiesStep
<1> QED
  BY <1>4, <1>5, <1>6

(* Nor does remove_component, also when the entity is gone.                *)
LEMMA RemoveKeeps ==
  ASSUME UseInv, NEW h \in issued, NEW T \in Component, RemoveFrom(h, T)
  PROVE  SlotsKept
<1>1. /\ scene' = RemoveComponent(scene, h, T) /\ SceneOK(scene) /\ scene.overrun = "none"
      /\ UNCHANGED <<issued, created, alive, peak>>
  BY DEF RemoveFrom, CanStep, UseInv
<1>2. Index(h) \in Slots /\ Index(h) # INVALID_INDEX
  BY HandleFacts DEF Slots
<1>3. SceneOK(scene') /\ scene'.free = scene.free /\ scene'.overrun = scene.overrun
  BY <1>1, <1>2, RemoveComponentFacts DEF Slots
<1> DEFINE e == [id |-> h, mask |-> Slot(scene, Index(h)).mask \ {T}]
<1>4. \/ scene'.entities = scene.entities
      \/ Id(Index(h)) = h /\ SlotBecomes(scene, scene', Index(h), e)
  BY <1>1, <1>2, RemoveComponentFacts DEF Slots, Id
<1>5. CASE Id(Index(h)) = h /\ SlotBecomes(scene, scene', Index(h), e)
  <2>1. e.id = Id(Index(h)) /\ Index(Id(Index(h))) # INVALID_INDEX
    BY <1>2, <1>5
  <2> HIDE DEF e
  <2> QED
    BY <1>1, <1>2, <1>3, <1>5, <2>1, MaskStep
<1>6. CASE scene'.entities = scene.entities
  BY <1>1, <1>3, <1>6, EntitiesStep
<1> QED
  BY <1>4, <1>5, <1>6

(* A write through get_component's pointer changes no slot.                *)
LEMMA WriteKeeps ==
  ASSUME UseInv, NEW h \in alive, NEW T \in Component, NEW value, Write(h, T, value)
  PROVE  SlotsKept
<1>1. /\ h \in issued /\ scene.overrun = "none" /\ scene' = WriteComponent(scene, h, T, value)
      /\ UNCHANGED <<issued, created, alive, peak>> /\ SceneOK(scene)
  BY DEF Write, CanStep, UseInv, HandleInv
<1>2. Index(h) \in 0..(Size(scene) - 1)
  BY <1>1, HandleFacts
<1>3. /\ SceneOK(scene') /\ scene'.entities = scene.entities
      /\ scene'.free = scene.free /\ scene'.overrun = scene.overrun
  BY <1>1, <1>2, WriteComponentFacts
<1> QED
  BY <1>1, <1>3, EntitiesStep

(* Views only read.                                                        *)
LEMMA ViewKeeps ==
  ASSUME UseInv, (\E Ts \in Views : StartView(Ts)) \/ NextView \/ UNCHANGED useVars
  PROVE  SlotsKept /\ SameEntities(scene, scene')
<1>1. SceneOK(scene) /\ scene.overrun \in {"none", "pools", "slots"}
  BY DEF UseInv, CountInv
<1>2. UNCHANGED <<issued, created, alive, peak>>
  BY DEF StartView, NextView, useVars
<1>3. SceneOK(scene') /\ SameEntities(scene, scene')
  <2>1. CASE NextView \/ UNCHANGED useVars
    BY <1>1, <2>1 DEF NextView, useVars, SameEntities
  <2>2. ASSUME NEW Ts \in Views, StartView(Ts)
        PROVE  SceneOK(scene') /\ SameEntities(scene, scene')
    <3>1. scene' = MentionAll(scene, Ts) /\ Ts \in Seq(Component)
      BY <2>2, UseAssumption DEF StartView
    <3> QED
      BY <1>1, <3>1, MentionAllFacts
  <2> QED
    BY <2>1, <2>2
<1> QED
  BY <1>1, <1>2, <1>3, EntitiesStep DEF SameEntities

(* The handle of a new entity was never given out: its slot's version is   *)
(* above those of all who had the slot before.                             *)
LEMMA NewHandleFacts ==
  ASSUME UseInv, created < MaxCreate, NEW h, h = NewHandle(scene)
  PROVE  /\ Index(h) \in 0..(MaxCreate - 1) /\ h \notin issued /\ Version(h) \in Nat
         /\ scene.free # <<>> => Index(h) \in Slots /\ Slot(scene, Index(h)).mask = {}
                                 /\ Index(Id(Index(h))) = INVALID_INDEX
         /\ scene.free = <<>> => Index(h) = Size(scene)
         /\ Version(h) + Cardinality(alive) <= created
<1>0. /\ SceneOK(scene) /\ Size(scene) \in Nat /\ Size(scene) <= peak /\ peak <= created /\ created \in Nat /\ MaxCreate \in Nat
      /\ scene.free \in Seq(Nat) /\ peak \in Nat
  BY UseAssumption DEF UseInv, CountInv, SlotsSuffice, SceneOK, Size
<1>1. IsFiniteSet(alive) /\ Cardinality(alive) \in Nat /\ Cardinality(alive) <= created
  BY <1>0, FS_Subset, FS_CardinalityType DEF UseInv, HandleInv, CountInv
<1>2. CASE scene.free # <<>>
  <2> DEFINE i == scene.free[Len(scene.free)]
  <2>1. h = <<i, Version(Id(i))>> /\ Index(h) = i /\ Version(h) = Version(Id(i))
    BY <1>2 DEF NewHandle, Index, Version, Id
  <2>2. i \in Slots /\ Index(Id(i)) = INVALID_INDEX
    <3>1. Len(scene.free) \in 1..Len(scene.free)
      BY <1>0, <1>2
    <3>2. FreeInv
      BY DEF UseInv
    <3> QED
      BY <3>1, <3>2 DEF FreeInv
  <2>3. Slot(scene, i).mask = {} /\ Version(Id(i)) + Cardinality(alive) <= created
    BY <2>2 DEF UseInv, SlotInv, INVALID_INDEX, Slots
  <2>4. h \notin issued
    <3> SUFFICES ASSUME h \in issued
                 PROVE  FALSE
      OBVIOUS
    <3>1. h \notin alive
      BY <2>1, <2>2, HandleFacts DEF Id
    <3>2. Version(h) < Version(Id(Index(h)))
      BY <3>1 DEF UseInv, HandleInv
    <3> QED
      BY <2>1, <3>2, HandleFacts
  <2>5. Version(Id(i)) \in Nat
    BY <1>0, <2>2, SlotFacts DEF Slots, Id
  <2> HIDE DEF i
  <2>6. i \in 0..(MaxCreate - 1)
    BY <1>0, <2>2 DEF Slots
  <2> QED
    BY <1>2, <2>1, <2>2, <2>3, <2>4, <2>5, <2>6
<1>3. CASE scene.free = <<>>
  <2>1. h = <<Size(scene), 0>> /\ Index(h) = Size(scene) /\ Version(h) = 0
    BY <1>3 DEF NewHandle, Index, Version
  <2>2. h \notin issued
    BY <1>0, <2>1, HandleFacts
  <2> QED
    BY <1>0, <1>1, <1>3, <2>1, <2>2
<1> QED
  BY <1>2, <1>3

(* new_entity keeps the invariant: the new handle was never given out, and *)
(* its slot leaves the free list or is a new one.                          *)
LEMMA CreateStep ==
  ASSUME UseInv, Create
  PROVE  UseInv'
<1> DEFINE h == NewHandle(scene)
<1>0. /\ scene' = NewEntity(scene) /\ issued' = issued \union {h} /\ alive' = alive \union {h}
      /\ created' = created + 1 /\ created < MaxCreate /\ scene.overrun = "none"
      /\ peak' = IF Cardinality(alive') > peak THEN Cardinality(alive') ELSE peak
  BY DEF Create, CanStep
<1> DEFINE x == Index(h)
<1> HIDE DEF h
<1>1. /\ SceneOK(scene) /\ Size(scene) \in Nat /\ Size(scene) <= peak /\ peak \in Nat /\ created \in Nat /\ MaxCreate \in Nat
      /\ scene.free \in Seq(Nat) /\ peak <= created /\ Cardinality(alive) <= peak
  BY UseAssumption DEF UseInv, CountInv, SlotsSuffice, SceneOK, Size
<1>2. /\ IsFiniteSet(alive) /\ Cardinality(alive) \in Nat /\ IsFiniteSet(issued) /\ Cardinality(issued) = created
      /\ alive \subseteq issued
  BY FS_Subset, FS_CardinalityType DEF UseInv, HandleInv
<1>3. /\ x \in 0..(MaxCreate - 1) /\ h \notin issued /\ Version(h) \in Nat
      /\ scene.free # <<>> => x \in Slots /\ Slot(scene, x).mask = {} /\ Index(Id(x)) = INVALID_INDEX
      /\ scene.free = <<>> => x = Size(scene)
      /\ Version(h) + Cardinality(alive) <= created
  BY <1>0, NewHandleFacts DEF h
<1>4. /\ SceneOK(scene') /\ scene'.overrun = "none" /\ h = <<x, Version(h)>>
      /\ Slot(scene', x) = [id |-> h, mask |-> {}]
      /\ \A i \in 0..(Size(scene) - 1) : i # x => Slot(scene', i) = Slot(scene, i)
      /\ \/ /\ scene.free # <<>> /\ x = scene.free[Len(scene.free)] /\ Size(scene') = Size(scene)
            /\ Version(h) = Version(Slot(scene, x).id)
            /\ scene'.free = SubSeq(scene.free, 1, Len(scene.free) - 1)
         \/ /\ scene.free = <<>> /\ x = Size(scene) /\ Size(scene') = Size(scene) + 1
            /\ Version(h) = 0
            /\ scene'.free = scene.free
  <2>1. x \in Nat
    BY <1>1, <1>3
  <2>2. scene.free # <<>> => x \in 0..(Size(scene) - 1) /\ Slot(scene, x).mask = {}
    BY <1>3 DEF Slots
  <2> QED
    BY <1>0, <1>1, <2>1, <2>2, NewEntityFacts DEF h
<1> HIDE DEF x
<1>5. /\ Cardinality(alive') = Cardinality(alive) + 1 /\ IsFiniteSet(issued')
      /\ Cardinality(issued') = created' /\ alive' \subseteq issued'
  BY <1>0, <1>2, <1>3, FS_AddElement
<1>6. /\ Slots' = Slots \union {x} /\ Slot(scene', x).id = h /\ Slot(scene', x).mask = {}
      /\ \A i \in Slots : i # x => Slot(scene', i).id = Id(i) /\ Slot(scene', i) = Slot(scene, i)
  BY <1>1, <1>3, <1>4 DEF Slots, Id
<1>7. HandleInv'
  <2>1. ASSUME NEW g \in issued'
        PROVE  /\ g = <<Index(g), Version(g)>> /\ Index(g) \in Slots' /\ Version(g) \in Nat
               /\ g \in alive' => Slot(scene', Index(g)).id = g
               /\ g \notin alive' => Version(g) < Version(Slot(scene', Index(g)).id)
    <3>1. CASE g = h
      BY <1>0, <1>3, <1>4, <1>6, <3>1 DEF x
    <3>2. CASE g # h
      <4>1. /\ g \in issued /\ g = <<Index(g), Version(g)>> /\ Index(g) \in Slots /\ Version(g) \in Nat
            /\ g \in alive => Id(Index(g)) = g
            /\ g \notin alive => Version(g) < Version(Id(Index(g)))
            /\ Index(g) # INVALID_INDEX
            /\ g \in alive' <=> g \in alive
        BY <1>0, <2>1, <3>2, HandleFacts DEF UseInv, HandleInv
      <4>2. CASE Index(g) # x
        BY <1>6, <4>1, <4>2
      <4>3. CASE Index(g) = x
        <5>1. scene.free # <<>> /\ Version(h) = Version(Id(x)) /\ Index(Id(x)) = INVALID_INDEX
          BY <1>1, <1>3, <1>4, <4>1, <4>3 DEF Slots, Id
        <5> QED
          BY <1>6, <4>1, <4>3, <5>1
      <4> QED
        BY <4>2, <4>3
    <3> QED
      BY <3>1, <3>2
  <2> QED
    BY <1>5, <2>1 DEF HandleInv, Id
<1>8. FreeInv'
  <2>1. CASE scene.free = <<>>
    <3>1. scene'.free = <<>> /\ Len(scene.free) = 0 /\ FreeSlots' = FreeSlots /\ Size(scene') = Size(scene) + 1
      BY <1>4, <2>1 DEF FreeSlots
    <3> QED
      BY <1>1, <1>2, <1>5, <2>1, <3>1 DEF UseInv, FreeInv
  <2>2. CASE scene.free # <<>>
    <3> DEFINE q == scene.free
               n == Len(q)
    <3>1. /\ n \in Nat \ {0} /\ scene'.free \in Seq(Nat) /\ Len(scene'.free) = n - 1
          /\ x = q[n] /\ Size(scene') = Size(scene)
          /\ \A k \in 1..(n - 1) : scene'.free[k] = q[k]
      BY <1>1, <1>4, <2>2, FrontFacts
    <3>2. /\ \A k \in 1..n : q[k] \in Slots /\ Index(Id(q[k])) = INVALID_INDEX
          /\ \A j, k \in 1..n : q[j] = q[k] => j = k
          /\ IsFiniteSet(FreeSlots) /\ Cardinality(FreeSlots) = n
          /\ Size(scene) = n + Cardinality(alive)
      BY DEF UseInv, FreeInv
    <3>3. FreeSlots = {q[k] : k \in 1..n} /\ FreeSlots' = {q[k] : k \in 1..(n - 1)}
      <4>1. DOMAIN q = 1..n /\ DOMAIN scene'.free = 1..(n - 1)
        BY <1>1, <3>1
      <4> QED
        BY <3>1, <4>1 DEF FreeSlots
    <3> HIDE DEF q, n
    <3>4. FreeSlots' = FreeSlots \ {x} /\ x \in FreeSlots
      BY <3>1, <3>2, <3>3
    <3>5. IsFiniteSet(FreeSlots') /\ Cardinality(FreeSlots') = n - 1
      BY <3>2, <3>4, FS_RemoveElement
    <3>6. Size(scene') = n - 1 + Cardinality(alive')
      BY <1>2, <1>5, <3>1, <3>2
    <3>7. \A k \in 1..(n - 1) : k \in 1..n /\ k # n /\ q[k] # x
      BY <3>1, <3>2
    <3>8. \A k \in 1..(n - 1) : scene'.free[k] \in Slots' /\ Index(Slot(scene', scene'.free[k]).id) = INVALID_INDEX
      BY <1>6, <3>1, <3>2, <3>7
    <3>9. \A j, k \in 1..(n - 1) : scene'.free[j] = scene'.free[k] => j = k
      BY <3>1, <3>2, <3>7
    <3> QED
      BY <3>1, <3>5, <3>6, <3>8, <3>9 DEF FreeInv, Id
  <2> QED
    BY <2>1, <2>2
<1>9. \A i \in FreeSlots : i # x => i \in FreeSlots'
  <2>1. CASE scene.free = <<>>
    BY <1>4, <2>1 DEF FreeSlots
  <2>2. CASE scene.free # <<>>
    <3> DEFINE q == scene.free
               n == Len(q)
    <3>1. /\ n \in Nat \ {0} /\ Len(scene'.free) = n - 1 /\ x = q[n] /\ scene'.free \in Seq(Nat)
          /\ \A k \in 1..(n - 1) : scene'.free[k] = q[k]
      BY <1>1, <1>4, <2>2, FrontFacts
    <3>2. DOMAIN q = 1..n /\ DOMAIN scene'.free = 1..(n - 1)
      BY <1>1, <3>1
    <3> HIDE DEF n
    <3>3. \A k \in 1..n : q[k] # x => k \in 1..(n - 1)
      BY <3>1
    <3> QED
      BY <3>1, <3>2, <3>3 DEF FreeSlots
  <2> QED
    BY <2>1, <2>2
<1>10. SlotInv'
  <2>1. ASSUME NEW i \in Slots'
        PROVE  /\ \/ Slot(scene', i).id \in alive' /\ Index(Slot(scene', i).id) = i
                  \/ Index(Slot(scene', i).id) = INVALID_INDEX /\ Slot(scene', i).mask = {} /\ i \in FreeSlots'
               /\ Version(Slot(scene', i).id) + Cardinality(alive') <= created'
    <3>1. CASE i = x
      <4>1. Slot(scene', i).id = h /\ h \in alive' /\ Index(h) = i
        BY <1>0, <1>6, <3>1 DEF x
      <4>2. Version(h) + Cardinality(alive') <= created'
        BY <1>0, <1>1, <1>2, <1>3, <1>5
      <4> QED
        BY <4>1, <4>2
    <3>2. CASE i # x
      <4>1. /\ i \in Slots /\ Slot(scene', i).id = Id(i) /\ Slot(scene', i) = Slot(scene, i)
            /\ Version(Id(i)) \in Nat
        BY <1>1, <1>6, <3>2, SlotFacts DEF Slots, Id
      <4>2. /\ \/ Id(i) \in alive /\ Index(Id(i)) = i
               \/ Index(Id(i)) = INVALID_INDEX /\ Slot(scene, i).mask = {} /\ i \in FreeSlots
            /\ Version(Id(i)) + Cardinality(alive) <= created
        BY <4>1 DEF UseInv, SlotInv
      <4> QED
        BY <1>0, <1>1, <1>2, <1>5, <1>9, <3>2, <4>1, <4>2
    <3> QED
      BY <3>1, <3>2
  <2> QED
    BY <2>1 DEF SlotInv, Id
<1>11. CountInv'
  <2>1. Size(scene') <= peak'
    <3>1. CASE scene.free # <<>>
      BY <1>0, <1>1, <1>2, <1>4, <1>5, <3>1
    <3>2. CASE scene.free = <<>>
      <4>1. Size(scene) = Cardinality(alive)
        BY <1>2, <3>2 DEF UseInv, FreeInv
      <4> QED
        BY <1>0, <1>1, <1>2, <1>4, <1>5, <3>2, <4>1
    <3> QED
      BY <3>1, <3>2
  <2>2. peak' \in 0..created' /\ created' \in 0..MaxCreate /\ Cardinality(alive') <= peak'
    BY <1>0, <1>1, <1>2, <1>5
  <2> QED
    BY <1>4, <2>1, <2>2 DEF CountInv, SlotsSuffice
<1> QED
  BY <1>4, <1>7, <1>8, <1>10, <1>11 DEF UseInv

(* A number below the modulus is its own remainder: a version that stays   *)
(* below VERSIONS does not wrap.                                           *)
LEMMA SmallModulus ==
  ASSUME NEW a \in Nat, NEW b \in Nat, a < b
  PROVE  a % b = a
OBVIOUS

(* A living entity's version leaves room for one more.                     *)
LEMMA DestroyBounds ==
  ASSUME UseInv, NEW h \in alive
  PROVE  Version(h) \in Nat /\ (Version(h) + 1) % VERSIONS = Version(h) + 1
<1>1. /\ SceneOK(scene) /\ Size(scene) \in Nat /\ peak \in Nat /\ created \in Nat /\ MaxCreate \in Nat
      /\ created <= MaxCreate /\ peak <= created /\ Cardinality(alive) <= peak /\ Size(scene) <= peak
  BY UseAssumption DEF UseInv, CountInv, SlotsSuffice, SceneOK, Size
<1>2. IsFiniteSet(alive) /\ Cardinality(alive) \in Nat /\ h \in issued
  BY FS_Subset, FS_CardinalityType DEF UseInv, HandleInv
<1>3. Index(h) \in Slots /\ Version(h) \in Nat /\ Id(Index(h)) = h
  BY <1>2, HandleFacts DEF Slots, Id
<1>4. Cardinality(alive) >= 1
  BY <1>2, FS_RemoveElement, FS_EmptySet
<1>5. Version(h) + Cardinality(alive) <= created
  BY <1>3 DEF UseInv, SlotInv
<1>6. Version(h) + 1 \in Nat /\ Version(h) + 1 < VERSIONS /\ VERSIONS \in Nat
  BY <1>1, <1>2, <1>3, <1>4, <1>5, UseAssumption, SceneAssumption
<1> QED
  BY <1>3, <1>6, SmallModulus

(* destroy_entity keeps it: the slot goes to the free list, where it was   *)
(* not, with a version above that of every handle it had.                  *)
LEMMA DestroyStep ==
  ASSUME UseInv, NEW h \in alive, Destroy(h)
  PROVE  UseInv'
<1> DEFINE x == Index(h)
           q == scene.free
           n == Len(q)
<1>0. /\ scene' = DestroyEntity(scene, h) /\ alive' = alive \ {h} /\ scene.overrun = "none"
      /\ UNCHANGED <<issued, created, peak>>
  BY DEF Destroy, CanStep
<1>1. /\ SceneOK(scene) /\ Size(scene) \in Nat /\ peak \in Nat /\ created \in Nat /\ MaxCreate \in Nat
      /\ created <= MaxCreate /\ peak <= created /\ Cardinality(alive) <= peak /\ Size(scene) <= peak
      /\ q \in Seq(Nat) /\ n \in Nat
  BY UseAssumption DEF UseInv, CountInv, SlotsSuffice, SceneOK, Size
<1>2. /\ IsFiniteSet(alive) /\ Cardinality(alive) \in Nat /\ IsFiniteSet(issued) /\ Cardinality(issued) = created
      /\ alive \subseteq issued
  BY FS_Subset, FS_CardinalityType DEF UseInv, HandleInv
<1>3. /\ h \in issued /\ h = <<x, Version(h)>> /\ x \in Slots /\ Version(h) \in Nat /\ Id(x) = h
      /\ x # INVALID_INDEX
  BY <1>2, HandleFacts DEF Slots, Id
<1>4. Cardinality(alive') = Cardinality(alive) - 1 /\ Cardinality(alive) >= 1
  BY <1>0, <1>2, FS_RemoveElement, FS_EmptySet
<1>5. Version(h) + Cardinality(alive) <= created
  BY <1>3 DEF UseInv, SlotInv
<1>6. (Version(h) + 1) % VERSIONS = Version(h) + 1
  BY DestroyBounds
<1>7. /\ SceneOK(scene') /\ Size(scene') = Size(scene) /\ scene'.overrun = "none"
      /\ Slot(scene', x) = [id |-> <<-1, Version(h) + 1>>, mask |-> {}]
      /\ \A i \in 0..(Size(scene) - 1) : i # x => Slot(scene', i) = Slot(scene, i)
      /\ scene'.free = Append(q, x)
  <2>1. Index(h) \in 0..(Size(scene) - 1) /\ SceneOK(scene) /\ Version(h) \in Nat
    BY <1>1, <1>3 DEF Slots
  <2>2. Version(h) + 1 = (Version(h) + 1) % VERSIONS
    BY <1>6
  <2> QED
    BY <1>0, <2>1, <2>2, DestroyEntityFacts
<1> HIDE DEF x
<1>8. /\ Slots' = Slots /\ Index(Slot(scene', x).id) = INVALID_INDEX
      /\ Version(Slot(scene', x).id) = Version(h) + 1 /\ Slot(scene', x).mask = {}
      /\ \A i \in Slots : i # x => Slot(scene', i).id = Id(i) /\ Slot(scene', i) = Slot(scene, i)
  BY <1>7 DEF Slots, Id, Index, Version, INVALID_INDEX
<1>9. /\ \A k \in 1..n : q[k] \in Slots /\ Index(Id(q[k])) = INVALID_INDEX
      /\ \A j, k \in 1..n : q[j] = q[k] => j = k
      /\ IsFiniteSet(FreeSlots) /\ Cardinality(FreeSlots) = n
      /\ Size(scene) = n + Cardinality(alive)
  BY DEF UseInv, FreeInv
<1>10. \A k \in 1..n : q[k] # x
  BY <1>3, <1>9 DEF x
<1>11. /\ Len(scene'.free) = n + 1 /\ scene'.free[n + 1] = x
       /\ \A k \in 1..n : scene'.free[k] = q[k]
       /\ DOMAIN scene'.free = 1..(n + 1) /\ DOMAIN q = 1..n
       /\ \A k \in 1..(n + 1) : k \in 1..n \/ k = n + 1
  BY <1>1, <1>7
<1>12. FreeSlots' = FreeSlots \union {x} /\ x \notin FreeSlots
  <2>1. FreeSlots = {q[k] : k \in 1..n} /\ FreeSlots' = {scene'.free[k] : k \in 1..(n + 1)}
    BY <1>11 DEF FreeSlots
  <2>2. \A k \in 1..n : k \in 1..(n + 1)
    BY <1>1
  <2>3. n + 1 \in 1..(n + 1)
    BY <1>1
  <2> HIDE DEF q, n
  <2> QED
    BY <1>10, <1>11, <2>1, <2>2, <2>3
<1>13. FreeInv'
  <2>1. IsFiniteSet(FreeSlots') /\ Cardinality(FreeSlots') = n + 1
    BY <1>9, <1>12, FS_AddElement
  <2>2. Size(scene') = n + 1 + Cardinality(alive')
    <3> HIDE DEF q, n
    <3> QED
      BY <1>1, <1>2, <1>4, <1>7, <1>9
  <2> HIDE DEF q, n
  <2>3. \A k \in 1..(n + 1) : scene'.free[k] \in Slots' /\ Index(Slot(scene', scene'.free[k]).id) = INVALID_INDEX
    BY <1>3, <1>8, <1>9, <1>10, <1>11
  <2>4. \A j, k \in 1..(n + 1) : scene'.free[j] = scene'.free[k] => j = k
    BY <1>9, <1>10, <1>11
  <2> QED
    BY <1>11, <2>1, <2>2, <2>3, <2>4 DEF FreeInv, Id
<1>14. HandleInv'
  <2>1. ASSUME NEW g \in issued'
        PROVE  /\ g = <<Index(g), Version(g)>> /\ Index(g) \in Slots' /\ Version(g) \in Nat
               /\ g \in alive' => Slot(scene', Index(g)).id = g
               /\ g \notin alive' => Version(g) < Version(Slot(scene', Index(g)).id)
    <3>1. /\ g \in issued /\ g = <<Index(g), Version(g)>> /\ Index(g) \in Slots /\ Version(g) \in Nat
          /\ g \in alive => Id(Index(g)) = g
          /\ g \notin alive => Version(g) < Version(Id(Index(g)))
          /\ g \in alive' <=> g \in alive /\ g # h
      BY <1>0, <2>1 DEF UseInv, HandleInv
    <3>2. CASE Index(g) # x
      BY <1>3, <1>8, <3>1, <3>2 DEF x
    <3>3. CASE Index(g) = x
      BY <1>3, <1>8, <3>1, <3>3
    <3> QED
      BY <3>2, <3>3
  <2> QED
    BY <1>0, <1>2, <2>1 DEF HandleInv, Id
<1>15. SlotInv'
  <2>1. ASSUME NEW i \in Slots'
        PROVE  /\ \/ Slot(scene', i).id \in alive' /\ Index(Slot(scene', i).id) = i
                  \/ Index(Slot(scene', i).id) = INVALID_INDEX /\ Slot(scene', i).mask = {} /\ i \in FreeSlots'
               /\ Version(Slot(scene', i).id) + Cardinality(alive') <= created'
    <3>1. CASE i = x
      BY <1>0, <1>1, <1>2, <1>3, <1>4, <1>5, <1>8, <1>12, <3>1
    <3>2. CASE i # x
      <4>0. i \in Slots
        BY <1>8
      <4>1. /\ i \in Slots /\ Slot(scene', i).id = Id(i) /\ Slot(scene', i) = Slot(scene, i)
            /\ Version(Id(i)) \in Nat
        <5>1. Version(Slot(scene, i).id) \in Nat
          BY <1>1, <4>0, SlotFacts DEF Slots
        <5> QED
          BY <1>1, <1>8, <3>2, <4>0, <5>1 DEF Id
      <4>2. /\ \/ Id(i) \in alive /\ Index(Id(i)) = i
               \/ Index(Id(i)) = INVALID_INDEX /\ Slot(scene, i).mask = {} /\ i \in FreeSlots
            /\ Version(Id(i)) + Cardinality(alive) <= created
        BY <4>1 DEF UseInv, SlotInv
      <4>3. Id(i) \in alive /\ Index(Id(i)) = i => Id(i) \in alive'
        BY <1>0, <3>2 DEF x
      <4>4. Version(Id(i)) + Cardinality(alive') <= created'
        BY <1>0, <1>1, <1>2, <1>4, <4>1, <4>2
      <4> QED
        BY <1>12, <4>1, <4>2, <4>3, <4>4
    <3> QED
      BY <3>1, <3>2
  <2> QED
    BY <2>1 DEF SlotInv, Id
<1>16. CountInv'
  BY <1>0, <1>1, <1>2, <1>4, <1>7 DEF UseInv, CountInv, SlotsSuffice
<1> QED
  BY <1>7, <1>13, <1>14, <1>15, <1>16 DEF UseInv

(* The invariant is inductive.                                             *)
LEMMA UseInvStep == UseInv /\ [UseNext]_useVars => UseInv'
<1> SUFFICES ASSUME UseInv, [UseNext]_useVars
             PROVE  UseInv'
  OBVIOUS
<1>1. CASE Create
  BY <1>1, CreateStep
<1>2. ASSUME NEW h \in alive, Destroy(h)
      PROVE  UseInv'
  BY <1>2, DestroyStep
<1>3. ASSUME NEW h \in alive, NEW T \in Component, Assign(h, T) \/ \E value \in Value : Write(h, T, value)
      PROVE  UseInv'
  BY <1>3, AssignKeeps, WriteKeeps, KeptStep
<1>4. ASSUME NEW h \in issued, NEW T \in Component, RemoveFrom(h, T)
      PROVE  UseInv'
  BY <1>4, RemoveKeeps, KeptStep
<1>5. CASE (\E Ts \in Views : StartView(Ts)) \/ NextView \/ UNCHANGED useVars
  BY <1>5, ViewKeeps, KeptStep
<1> QED
  BY <1>1, <1>2, <1>3, <1>4, <1>5 DEF UseNext

(* A handle names one entity for ever, no slot is lost or has two owners,  *)
(* and no pool is written past its end unless more entities than it has    *)
(* room for were alive at once: however entities come and go.              *)
THEOREM SlotsAreSound == UseSpec => []SlotsSound
<1>1. UseInit => UseInv
  BY UseInvInit
<1>2. UseInv /\ [UseNext]_useVars => UseInv'
  BY UseInvStep
<1>3. UseInv => SlotsSound
  BY UseInvImplies
<1> QED
  BY <1>1, <1>2, <1>3, PTL DEF UseSpec

-----------------------------------------------------------------------------
(* Loops over views.                                                       *)

LoopFields == {"at", "index", "end", "types", "seen", "lasting"}

(* An entity that has matched since the loop began is where the loop will  *)
(* get to, or where it was.                                                *)
Lasts(l, i, h) ==
  /\ h \in alive /\ l.types \subseteq Slot(scene, Index(h)).mask
  /\ Index(h) < l.end
  /\ Index(h) < i => h \in l.seen

(* The loop l has given its body the slots below i.                        *)
Passed(l, i) ==
  /\ l.end \in Nat /\ l.end <= Size(scene)
  /\ \A h \in l.seen : Index(h) \in 0..(i - 1)
  /\ \A h \in l.lasting : Lasts(l, i, h)

LoopInv ==
  /\ DOMAIN loop = LoopFields
  /\ loop.at = "body" => loop.index \in Slots /\ Passed(loop, loop.index + 1)
  /\ loop.at = "done" => loop.lasting \subseteq loop.seen

(* Where the loop goes from slot i on: to the first entity that matches,   *)
(* which is new to it, or past all that lasted.                            *)
LEMMA Turn ==
  ASSUME UseInv, NEW l, DOMAIN l = LoopFields, NEW i \in Nat, i <= Size(scene), Passed(l, i),
         NEW r, r = Reached(NextMatch(scene, i, l.types), l)
  PROVE  /\ DOMAIN r = LoopFields
         /\ \/ /\ r.at = "body" /\ r.types = l.types
               /\ r.index \in Slots /\ Passed(r, r.index + 1)
               /\ Id(r.index) \in Matching(l.types) /\ Id(r.index) \notin l.seen
            \/ r.at = "done" /\ r.lasting \subseteq r.seen
<1> DEFINE n == NextMatch(scene, i, l.types)
<1>0. SceneOK(scene) /\ Size(scene) \in Nat
  BY DEF UseInv, SceneOK, Size
<1>1. /\ n \in i..Size(scene)
      /\ n # Size(scene) => Matches(scene, n, l.types)
      /\ \A k \in i..(n - 1) : ~Matches(scene, k, l.types)
  BY <1>0, NextMatchFacts
<1>2. r = IF n # l.end /\ n # Size(scene)
          THEN [l EXCEPT !.at = "body", !.index = n, !.seen = @ \union {Id(n)}]
          ELSE [NoLoop EXCEPT !.at = "done", !.seen = l.seen, !.lasting = l.lasting]
  BY DEF Reached, Id
<1> HIDE DEF n
<1>3. ASSUME NEW h \in l.lasting, Index(h) < n
      PROVE  h \in l.seen
  <2>1. /\ h \in alive /\ h \in issued /\ l.types \subseteq Slot(scene, Index(h)).mask
        /\ Index(h) < i => h \in l.seen
    BY <1>3 DEF Passed, Lasts, UseInv, HandleInv
  <2>2. Slot(scene, Index(h)).id = h /\ Index(h) \in 0..(Size(scene) - 1) /\ Index(h) # INVALID_INDEX
    BY <2>1, HandleFacts
  <2>3. Matches(scene, Index(h), l.types)
    BY <2>1, <2>2 DEF Matches, IsEntityValid
  <2>4. Index(h) < i
    BY <1>0, <1>1, <1>3, <2>2, <2>3
  <2> QED
    BY <2>1, <2>4
<1>4. CASE n # l.end /\ n # Size(scene)
  <2>1. /\ DOMAIN r = LoopFields /\ r.at = "body" /\ r.index = n /\ r.seen = l.seen \union {Id(n)}
        /\ r.types = l.types /\ r.end = l.end /\ r.lasting = l.lasting
    BY <1>2, <1>4 DEF LoopFields
  <2>2. n \in Slots /\ n + 1 \in Nat /\ n < n + 1
    BY <1>0, <1>1, <1>4 DEF Slots
  <2>3. Index(Id(n)) = n /\ Id(n) \in alive /\ l.types \subseteq Slot(scene, n).mask
    BY <1>1, <1>4, <2>2 DEF Matches, IsEntityValid, Id, UseInv, SlotInv, INVALID_INDEX
  <2>4. Id(n) \in Matching(l.types)
    BY <2>3 DEF Matching
  <2>5. Id(n) \notin l.seen
    BY <1>1, <1>0, <2>3 DEF Passed
  <2>6. \A h \in r.seen : Index(h) \in 0..((n + 1) - 1)
    BY <1>0, <1>1, <2>1, <2>2, <2>3, HandleFacts DEF Passed
  <2>7. ASSUME NEW h \in r.lasting
        PROVE  Lasts(r, n + 1, h)
    <3>1. h \in alive /\ l.types \subseteq Slot(scene, Index(h)).mask /\ Index(h) < l.end
      BY <2>1, <2>7 DEF Passed, Lasts
    <3>2. h \in issued /\ Slot(scene, Index(h)).id = h /\ Index(h) \in 0..(Size(scene) - 1)
      BY <3>1, HandleFacts DEF UseInv, HandleInv
    <3>3. CASE Index(h) < n
      BY <1>3, <2>1, <2>7, <3>1, <3>3 DEF Lasts
    <3>4. CASE Index(h) = n
      BY <2>1, <3>1, <3>2, <3>4 DEF Lasts, Id
    <3>5. CASE Index(h) > n
      <4>1. ~(Index(h) < n + 1)
        BY <2>2, <3>2, <3>5 DEF Slots
      <4> QED
        BY <2>1, <3>1, <4>1 DEF Lasts
    <3> QED
      BY <2>2, <3>2, <3>3, <3>4, <3>5 DEF Slots
  <2>8. Passed(r, n + 1)
    <3>1. r.end \in Nat /\ r.end <= Size(scene)
      BY <2>1 DEF Passed
    <3>2. \A h \in r.lasting : Lasts(r, n + 1, h)
      BY <2>7
    <3> QED
      BY <2>6, <3>1, <3>2 DEF Passed
  <2> QED
    BY <2>1, <2>2, <2>4, <2>5, <2>8
<1>5. CASE ~(n # l.end /\ n # Size(scene))
  <2>1. /\ DOMAIN r = LoopFields /\ r.at = "done" /\ r.seen = l.seen /\ r.lasting = l.lasting
    BY <1>2, <1>5 DEF LoopFields, NoLoop
  <2>2. ASSUME NEW h \in l.lasting
        PROVE  Index(h) < n
    <3>1. h \in alive /\ h \in issued /\ Index(h) < l.end /\ l.end <= Size(scene)
      BY <2>2 DEF Passed, Lasts, UseInv, HandleInv
    <3> QED
      BY <1>0, <1>5, <3>1, HandleFacts
  <2> QED
    BY <1>3, <2>1, <2>2
<1> QED
  BY <1>4, <1>5

(* A loop that is under way goes on if entities that lasted last, or are   *)
(* taken off the list.                                                     *)
LEMMA LoopKept ==
  ASSUME UseInv, LoopInv, DOMAIN loop' = LoopFields, Size(scene') \in Nat, Size(scene') >= Size(scene),
         loop'.at = loop.at, loop'.index = loop.index, loop'.end = loop.end, loop'.types = loop.types,
         loop'.seen = loop.seen, loop'.lasting \subseteq loop.lasting,
         loop.at = "body" => \A h \in loop'.lasting :
                               h \in alive' /\ loop.types \subseteq Slot(scene', Index(h)).mask
  PROVE  LoopInv'
<1>0. Size(scene) \in Nat
  BY DEF UseInv, SceneOK, Size
<1>1. CASE loop.at = "body"
  <2>1. loop.index \in Slots /\ Passed(loop, loop.index + 1)
    BY <1>1 DEF LoopInv
  <2>2. loop'.index \in Slots'
    BY <1>0, <2>1 DEF Slots
  <2>3. Passed(loop, loop.index + 1)'
    BY <1>0, <1>1, <2>1 DEF Passed, Lasts
  <2> QED
    BY <1>1, <2>2, <2>3 DEF LoopInv
<1>2. CASE loop.at # "body"
  BY <1>2 DEF LoopInv
<1> QED
  BY <1>1, <1>2

(* Two living entities have two slots.                                     *)
LEMMA SlotOfOne ==
  ASSUME UseInv, NEW g \in alive, NEW h \in issued, Index(g) = Index(h)
  PROVE  g = h \/ h \notin alive
<1>1. g \in issued
  BY DEF UseInv, HandleInv
<1> QED
  BY <1>1, HandleFacts

(* The operations on one entity leave the slots of the others.             *)
OthersKept(h) ==
  /\ Size(scene') \in Nat /\ Size(scene') >= Size(scene)
  /\ \A g \in alive \ {h} : Slot(scene', Index(g)) = Slot(scene, Index(g))

(* new_entity gives out a slot that is empty or did not exist.             *)
LEMMA CreateFrame ==
  ASSUME UseInv, Create
  PROVE  /\ \A i \in Slots : i # Index(NewHandle(scene)) => Slot(scene', i) = Slot(scene, i)
         /\ \A i \in Slots' : i \in Slots \/ i = Index(NewHandle(scene))
         /\ Slot(scene', Index(NewHandle(scene))).mask = {} /\ scene'.pool = scene.pool
         /\ Size(scene') \in Nat /\ Size(scene') >= Size(scene)
<1> DEFINE h == NewHandle(scene)
<1> HIDE DEF h
<1>0. scene' = NewEntity(scene) /\ created < MaxCreate /\ SceneOK(scene)
  BY DEF Create, UseInv
<1>1. /\ Index(h) \in 0..(MaxCreate - 1)
      /\ scene.free # <<>> => Index(h) \in Slots /\ Slot(scene, Index(h)).mask = {}
  BY <1>0, NewHandleFacts DEF h
<1>2. /\ SceneOK(scene') /\ scene'.pool = scene.pool
      /\ Slot(scene', Index(h)) = [id |-> h, mask |-> {}]
      /\ \A i \in 0..(Size(scene) - 1) : i # Index(h) => Slot(scene', i) = Slot(scene, i)
      /\ \/ Size(scene') = Size(scene)
         \/ Index(h) = Size(scene) /\ Size(scene') = Size(scene) + 1
  BY <1>0, <1>1, NewEntityFacts DEF h, Slots
<1>3. Size(scene) \in Nat /\ Size(scene') \in Nat
  BY <1>0, <1>2 DEF SceneOK, Size
<1>4. \A i \in Slots' : i \in Slots \/ i = Index(h)
  BY <1>2, <1>3 DEF Slots
<1>5. Slot(scene', Index(h)).mask = {}
  BY <1>2
<1>6. Size(scene') >= Size(scene)
  BY <1>2, <1>3
<1> QED
  BY <1>2, <1>3, <1>4, <1>5, <1>6 DEF h, Slots

(* It touches no slot that has an entity.                                  *)
LEMMA CreateLeaves ==
  ASSUME UseInv, Create
  PROVE  /\ OthersKept(NewHandle(scene)) /\ scene'.pool = scene.pool
         /\ NewHandle(scene) \notin issued /\ NewHandle(scene) \notin alive
         /\ Slot(scene', Index(NewHandle(scene))).mask = {}
<1> DEFINE h == NewHandle(scene)
<1>0. scene' = NewEntity(scene) /\ created < MaxCreate /\ SceneOK(scene)
  BY DEF Create, UseInv
<1> HIDE DEF h
<1>1. /\ h \notin issued
      /\ scene.free # <<>> => Index(Id(Index(h))) = INVALID_INDEX
      /\ scene.free = <<>> => Index(h) = Size(scene)
  BY <1>0, NewHandleFacts DEF h
<1>2. /\ scene'.pool = scene.pool /\ Slot(scene', Index(h)).mask = {}
      /\ \A i \in 0..(Size(scene) - 1) : i # Index(h) => Slot(scene', i) = Slot(scene, i)
      /\ Size(scene') \in Nat /\ Size(scene') >= Size(scene)
  BY CreateFrame DEF h, Slots
<1>3. ASSUME NEW g \in alive
      PROVE  Slot(scene', Index(g)) = Slot(scene, Index(g))
  <2>1. g \in issued /\ Index(g) \in 0..(Size(scene) - 1) /\ Slot(scene, Index(g)).id = g
        /\ Index(g) # INVALID_INDEX /\ Size(scene) \in Nat
    BY HandleFacts DEF UseInv, HandleInv
  <2>2. Index(g) # Index(h)
    BY <1>1, <2>1 DEF Id
  <2> QED
    BY <1>2, <2>1, <2>2
<1>4. h \notin alive
  BY <1>1 DEF UseInv, HandleInv
<1>5. OthersKept(h)
  BY <1>2, <1>3 DEF OthersKept
<1> QED
  BY <1>1, <1>2, <1>4, <1>5 DEF h

(* An operation that changes one living entity's slot leaves the others'.  *)
LEMMA SlotsLeave ==
  ASSUME UseInv, NEW h \in issued, Size(scene') = Size(scene),
         \A i \in 0..(Size(scene) - 1) : i # Index(h) => Slot(scene', i) = Slot(scene, i),
         h \in alive \/ scene'.entities = scene.entities
  PROVE  OthersKept(h)
<1>0. Size(scene) \in Nat
  BY DEF UseInv, SceneOK, Size
<1>1. ASSUME NEW g \in alive \ {h}
      PROVE  Slot(scene', Index(g)) = Slot(scene, Index(g))
  <2>1. g \in issued /\ Index(g) \in 0..(Size(scene) - 1)
    BY HandleFacts DEF UseInv, HandleInv
  <2>2. CASE h \in alive
    BY <1>1, <2>1, <2>2, SlotOfOne
  <2>3. CASE scene'.entities = scene.entities
    BY <2>3 DEF Slot
  <2> QED
    BY <2>2, <2>3
<1> QED
  BY <1>0, <1>1 DEF OthersKept

(* assign_component and remove_component leave the other entities' slots.  *)
LEMMA HandleLeaves ==
  ASSUME UseInv, NEW h \in issued, NEW T \in Component,
         (h \in alive /\ Assign(h, T)) \/ RemoveFrom(h, T)
  PROVE  OthersKept(h)
<1>0. SceneOK(scene) /\ Index(h) \in 0..(Size(scene) - 1) /\ Size(scene) \in Nat
  BY HandleFacts DEF UseInv
<1>1. CASE h \in alive /\ Assign(h, T)
  <2>1. scene' = AssignComponent(scene, h, T)
    BY <1>1 DEF Assign
  <2>2. \/ scene'.entities = scene.entities
        \/ SlotBecomes(scene, scene', Index(h), [id |-> Slot(scene, Index(h)).id,
                                                 mask |-> Slot(scene, Index(h)).mask \union {T}])
    BY <1>0, <2>1, AssignComponentFacts
  <2> QED
    BY <1>1, <2>2, SlotsLeave DEF SlotBecomes, Size, Slot
<1>2. CASE RemoveFrom(h, T)
  <2>1. scene' = RemoveComponent(scene, h, T)
    BY <1>2 DEF RemoveFrom
  <2>2. \/ scene'.entities = scene.entities
        \/ /\ Slot(scene, Index(h)).id = h
           /\ SlotBecomes(scene, scene', Index(h), [id |-> h, mask |-> Slot(scene, Index(h)).mask \ {T}])
    BY <1>0, <2>1, RemoveComponentFacts
  <2>3. Slot(scene, Index(h)).id = h => h \in alive
    BY <1>0 DEF UseInv, SlotInv, HandleInv, Id, Slots
  <2> QED
    BY <2>2, <2>3, SlotsLeave DEF SlotBecomes, Size, Slot
<1> QED
  BY <1>1, <1>2

(* There is no loop at the start.                                          *)
LEMMA LoopInit == UseInit => LoopInv
BY DEF UseInit, NoLoop, LoopInv, LoopFields

(* destroy_entity leaves the other entities' slots.                        *)
LEMMA DestroyLeaves ==
  ASSUME UseInv, NEW h \in alive, Destroy(h)
  PROVE  OthersKept(h)
<1>1. Version(h) \in Nat /\ h \in issued
  BY DestroyBounds DEF UseInv, HandleInv
<1>2. SceneOK(scene) /\ Index(h) \in 0..(Size(scene) - 1) /\ Size(scene) \in Nat
  BY <1>1, HandleFacts DEF UseInv
<1>3. /\ Size(scene') = Size(scene)
      /\ \A i \in 0..(Size(scene) - 1) : i # Index(h) => Slot(scene', i) = Slot(scene, i)
  BY <1>1, <1>2, DestroyEntityFacts DEF Destroy
<1> QED
  BY <1>1, <1>2, <1>3, SlotsLeave

(* assign_component takes nothing away.                                    *)
LEMMA AssignGrows ==
  ASSUME UseInv, NEW h \in issued, NEW T \in Component, scene' = AssignComponent(scene, h, T)
  PROVE  Slot(scene, Index(h)).mask \subseteq Slot(scene', Index(h)).mask
<1>1. SceneOK(scene) /\ Index(h) \in 0..(Size(scene) - 1)
  BY HandleFacts DEF UseInv
<1>2. \/ scene'.entities = scene.entities
      \/ SlotBecomes(scene, scene', Index(h), [id |-> Slot(scene, Index(h)).id,
                                               mask |-> Slot(scene, Index(h)).mask \union {T}])
  BY <1>1, AssignComponentFacts
<1> QED
  BY <1>2 DEF SlotBecomes, Slot

(* An operation that leaves the loop, and the components it is about.      *)
LEMMA LoopLeft ==
  ASSUME UseInv, LoopInv, NEW h, OthersKept(h), UNCHANGED loop, alive \subseteq alive',
         h \in alive => Slot(scene, Index(h)).mask \subseteq Slot(scene', Index(h)).mask
  PROVE  LoopInv'
<1>1. DOMAIN loop = LoopFields
  BY DEF LoopInv
<1>2. ASSUME loop.at = "body", NEW g \in loop.lasting
      PROVE  g \in alive' /\ loop.types \subseteq Slot(scene', Index(g)).mask
  <2>1. g \in alive /\ loop.types \subseteq Slot(scene, Index(g)).mask
    BY <1>2 DEF LoopInv, Passed, Lasts
  <2>2. Slot(scene, Index(g)).mask \subseteq Slot(scene', Index(g)).mask
    BY <2>1 DEF OthersKept
  <2> QED
    BY <2>1, <2>2
<1> QED
  BY <1>1, <1>2, LoopKept DEF OthersKept

(* An operation that takes those off the list it is no longer about.       *)
LEMMA LoopNarrowed ==
  ASSUME UseInv, LoopInv, NEW h, OthersKept(h), loop' = LastingNow(loop)
  PROVE  LoopInv' /\ (loop'.at = "body" => loop'.index = loop.index /\ loop.at = "body")
<1>1. DOMAIN loop = LoopFields
  BY DEF LoopInv
<1> DEFINE stay == {g \in alive' : loop.types \subseteq Slot(scene', Index(g)).mask}
<1>2. loop' = IF loop.at = "body" THEN [loop EXCEPT !.lasting = @ \intersect stay] ELSE loop
  BY DEF LastingNow
<1>3. /\ DOMAIN loop' = LoopFields /\ loop'.at = loop.at /\ loop'.index = loop.index
      /\ loop'.end = loop.end /\ loop'.types = loop.types /\ loop'.seen = loop.seen
      /\ loop'.lasting \subseteq loop.lasting
      /\ loop.at = "body" => loop'.lasting \subseteq stay
  <2> HIDE DEF stay
  <2> QED
    BY <1>1, <1>2 DEF LoopFields
<1>4. LoopInv'
  BY <1>3, LoopKept DEF OthersKept
<1> QED
  BY <1>3, <1>4

(* Each turn of the loop, and its beginning.                               *)
NewTurn ==
  loop'.at = "body" /\ (loop.at # "body" \/ loop'.index # loop.index) =>
    LET h == Slot(scene, loop'.index).id IN
      /\ h \in Matching(loop'.types)
      /\ loop.at = "body" => h \notin loop.seen

(* operator++ goes on from the slot after the one the loop is at.          *)
LEMMA NextTurn ==
  ASSUME UseInv, LoopInv, NextView
  PROVE  LoopInv' /\ NewTurn
<1> DEFINE i == loop.index + 1
<1>1. /\ loop.at = "body" /\ loop' = Reached(NextMatch(scene, i, loop.types), loop)
      /\ scene' = scene /\ alive' = alive
  BY DEF NextView
<1>2. /\ DOMAIN loop = LoopFields /\ i \in Nat /\ i <= Size(scene) /\ Passed(loop, i)
  <2>1. Size(scene) \in Nat
    BY DEF UseInv, SceneOK, Size
  <2> QED
    BY <1>1, <2>1 DEF LoopInv, Slots
<1> HIDE DEF i
<1>3. /\ DOMAIN loop' = LoopFields
      /\ \/ /\ loop'.at = "body" /\ loop'.types = loop.types
            /\ loop'.index \in Slots /\ Passed(loop', loop'.index + 1)
            /\ Id(loop'.index) \in Matching(loop.types) /\ Id(loop'.index) \notin loop.seen
         \/ loop'.at = "done" /\ loop'.lasting \subseteq loop'.seen
  BY <1>1, <1>2, Turn
<1>4. LoopInv'
  BY <1>1, <1>3 DEF LoopInv, Slots, Passed, Lasts
<1>5. NewTurn
  BY <1>3 DEF NewTurn, Id
<1> QED
  BY <1>4, <1>5

(* begin() goes on from slot 0, with everybody who matches ahead.          *)
LEMMA FirstTurn ==
  ASSUME UseInv, NEW Ts \in Views, StartView(Ts)
  PROVE  LoopInv' /\ NewTurn
<1> DEFINE types == {Ts[k] : k \in DOMAIN Ts}
           l == [NoLoop EXCEPT !.end = Size(scene), !.types = types, !.lasting = Matching(types)]
<1>1. loop.at # "body" /\ loop' = Reached(NextMatch(scene, 0, types), l) /\ alive' = alive
  BY DEF StartView
<1> HIDE DEF types
<1>2. /\ DOMAIN l = LoopFields /\ l.types = types /\ l.end = Size(scene) /\ l.lasting = Matching(types)
      /\ l.seen = {}
  BY DEF NoLoop, LoopFields
<1> HIDE DEF l
<1>3. Size(scene) \in Nat
  BY DEF UseInv, SceneOK, Size
<1>4. Passed(l, 0)
  <2>1. ASSUME NEW h \in l.lasting
        PROVE  Lasts(l, 0, h)
    <3>1. h \in alive /\ h \in issued /\ types \subseteq Slot(scene, Index(h)).mask
      BY <1>2, <2>1 DEF Matching, UseInv, HandleInv
    <3> QED
      BY <1>2, <1>3, <3>1, HandleFacts DEF Lasts
  <2> QED
    BY <1>2, <1>3, <2>1 DEF Passed
<1>5. /\ DOMAIN loop' = LoopFields
      /\ \/ /\ loop'.at = "body" /\ loop'.types = l.types
            /\ loop'.index \in Slots /\ Passed(loop', loop'.index + 1)
            /\ Id(loop'.index) \in Matching(l.types) /\ Id(loop'.index) \notin l.seen
         \/ loop'.at = "done" /\ loop'.lasting \subseteq loop'.seen
  BY <1>1, <1>2, <1>3, <1>4, Turn
<1>6. scene'.entities = scene.entities
  BY ViewKeeps DEF SameEntities
<1>7. LoopInv'
  BY <1>1, <1>5, <1>6 DEF LoopInv, Slots, Passed, Lasts, Size, Slot
<1>8. NewTurn
  BY <1>1, <1>5 DEF NewTurn, Id
<1> QED
  BY <1>7, <1>8

(* So every loop gets past all that last, whatever its body does.          *)
LEMMA LoopStep ==
  ASSUME UseInv, LoopInv, [UseNext]_useVars
  PROVE  LoopInv' /\ NewTurn
<1>0. ASSUME UNCHANGED loop
      PROVE  NewTurn
  BY <1>0 DEF NewTurn
<1>1. CASE Create
  <2>1. UNCHANGED loop /\ alive \subseteq alive'
    BY <1>1 DEF Create
  <2>2. OthersKept(NewHandle(scene)) /\ NewHandle(scene) \notin alive
    BY <1>1, CreateLeaves
  <2> QED
    BY <1>0, <2>1, <2>2, LoopLeft
<1>2. ASSUME NEW h \in alive, Destroy(h)
      PROVE  LoopInv' /\ NewTurn
  <2>1. h \in issued /\ loop' = LastingNow(loop)
    BY <1>2 DEF Destroy, UseInv, HandleInv
  <2>2. OthersKept(h)
    BY <1>2, <2>1, DestroyLeaves
  <2> QED
    BY <2>1, <2>2, LoopNarrowed DEF NewTurn
<1>3. ASSUME NEW h \in alive, NEW T \in Component, Assign(h, T)
      PROVE  LoopInv' /\ NewTurn
  <2>1. h \in issued /\ UNCHANGED <<loop, alive>> /\ scene' = AssignComponent(scene, h, T)
    BY <1>3 DEF Assign, UseInv, HandleInv
  <2>2. OthersKept(h)
    BY <1>3, <2>1, HandleLeaves
  <2>3. Slot(scene, Index(h)).mask \subseteq Slot(scene', Index(h)).mask
    BY <2>1, AssignGrows
  <2> QED
    BY <1>0, <2>1, <2>2, <2>3, LoopLeft
<1>4. ASSUME NEW h \in alive, NEW T \in Component, NEW value, Write(h, T, value)
      PROVE  LoopInv' /\ NewTurn
  <2>1. h \in issued /\ UNCHANGED <<loop, alive>> /\ scene' = WriteComponent(scene, h, T, value)
        /\ SceneOK(scene) /\ Size(scene) \in Nat
    BY <1>4 DEF Write, UseInv, HandleInv, SceneOK, Size
  <2>2. scene'.entities = scene.entities
    BY <2>1, HandleFacts, WriteComponentFacts
  <2>3. OthersKept(h)
    BY <2>1, <2>2 DEF OthersKept, Size, Slot
  <2>4. Slot(scene', Index(h)) = Slot(scene, Index(h))
    BY <2>2 DEF Slot
  <2> QED
    BY <1>0, <2>1, <2>3, <2>4, LoopLeft
<1>5. ASSUME NEW h \in issued, NEW T \in Component, RemoveFrom(h, T)
      PROVE  LoopInv' /\ NewTurn
  <2>1. loop' = LastingNow(loop)
    BY <1>5 DEF RemoveFrom
  <2>2. OthersKept(h)
    BY <1>5, HandleLeaves
  <2> QED
    BY <2>1, <2>2, LoopNarrowed DEF NewTurn
<1>6. ASSUME NEW Ts \in Views, StartView(Ts)
      PROVE  LoopInv' /\ NewTurn
  BY <1>6, FirstTurn
<1>7. CASE NextView
  BY <1>7, NextTurn
<1>8. CASE UNCHANGED useVars
  BY <1>0, <1>8 DEF useVars, LoopInv, Passed, Lasts, Slots, UseInv
<1> QED
  BY <1>1, <1>2, <1>3, <1>4, <1>5, <1>6, <1>7, <1>8 DEF UseNext

(* A loop over a view gives its body every entity that matches from begin  *)
(* to end, whatever the body creates, destroys or changes.                 *)
THEOREM ViewsComplete == UseSpec => []ViewComplete
<1>1. UseInit => UseInv /\ LoopInv
  BY UseInvInit, LoopInit
<1>2. UseInv /\ LoopInv /\ [UseNext]_useVars => UseInv' /\ LoopInv'
  BY UseInvStep, LoopStep
<1>3. LoopInv => ViewComplete
  BY DEF LoopInv, ViewComplete
<1> QED
  BY <1>1, <1>2, <1>3, PTL DEF UseSpec

(* And each turn is about a living entity that matches and is new to the   *)
(* loop.                                                                   *)
THEOREM TurnsAreNew == UseSpec => EachTurnNew
<1>1. UseInit => UseInv /\ LoopInv
  BY UseInvInit, LoopInit
<1>2. UseInv /\ LoopInv /\ [UseNext]_useVars => UseInv' /\ LoopInv'
  BY UseInvStep, LoopStep
<1>3. UseInv /\ LoopInv /\ [UseNext]_useVars => [NewTurn]_useVars
  BY LoopStep
<1>4. EachTurnNew <=> [][NewTurn]_useVars
  BY DEF EachTurnNew, NewTurn
<1> QED
  BY <1>1, <1>2, <1>3, <1>4, PTL DEF UseSpec

-----------------------------------------------------------------------------
(* The contents of the pools.                                              *)

(* A function with one value replaced or added.                            *)
LEMMA PutFacts ==
  ASSUME NEW f, NEW x, NEW v
  PROVE  /\ DOMAIN Put(f, x, v) = {x} \union DOMAIN f
         /\ Put(f, x, v)[x] = v
         /\ \A y \in DOMAIN f : y # x => Put(f, x, v)[y] = f[y]
BY DEF Put

(* A component that is there has its content in its pool.                  *)
PoolInv ==
  \A i \in Slots : \A T \in Slot(scene, i).mask : T \in Component /\ i \in DOMAIN scene.pool[T]

(* The pools keep what they hold but at the index i.                       *)
PoolsKept(i) ==
  \A T \in Component : \A j \in DOMAIN scene.pool[T] :
    j \in DOMAIN scene'.pool[T] /\ (j # i => scene'.pool[T][j] = scene.pool[T][j])

(* Pools that are the same keep everything.                                *)
LEMMA SamePools ==
  ASSUME scene'.pool = scene.pool, NEW i
  PROVE  PoolsKept(i)
BY DEF PoolsKept

(* assign_component makes a content in one pool.                           *)
LEMMA AssignPools ==
  ASSUME UseInv, NEW h \in issued, NEW T \in Component, scene' = AssignComponent(scene, h, T)
  PROVE  /\ PoolsKept(Index(h))
         /\ \/ /\ scene'.entities = scene.entities /\ scene'.pool = scene.pool
            \/ /\ SlotBecomes(scene, scene', Index(h), [id |-> Slot(scene, Index(h)).id,
                                                        mask |-> Slot(scene, Index(h)).mask \union {T}])
               /\ scene'.pool[T] = Put(scene.pool[T], Index(h), Blank[T])
               /\ \A U \in Component \ {T} : scene'.pool[U] = scene.pool[U]
<1> DEFINE e == [id |-> Slot(scene, Index(h)).id, mask |-> Slot(scene, Index(h)).mask \union {T}]
<1>0. SceneOK(scene) /\ DOMAIN scene.pool = Component
  BY DEF UseInv, SceneOK
<1>1. Index(h) \in 0..(Size(scene) - 1)
  BY HandleFacts
<1>2. \/ scene'.entities = scene.entities /\ scene'.pool = scene.pool
      \/ /\ SlotBecomes(scene, scene', Index(h), e)
         /\ scene'.pool = [scene.pool EXCEPT ![T] = Put(scene.pool[T], Index(h), Blank[T])]
  BY <1>0, <1>1, AssignComponentFacts
<1> HIDE DEF e
<1>3. CASE scene'.entities = scene.entities /\ scene'.pool = scene.pool
  BY <1>3, SamePools
<1>4. CASE /\ SlotBecomes(scene, scene', Index(h), e)
           /\ scene'.pool = [scene.pool EXCEPT ![T] = Put(scene.pool[T], Index(h), Blank[T])]
  <2>1. /\ scene'.pool[T] = Put(scene.pool[T], Index(h), Blank[T])
        /\ \A U \in Component \ {T} : scene'.pool[U] = scene.pool[U]
    BY <1>0, <1>4
  <2>2. \A j \in DOMAIN scene.pool[T] : /\ j \in DOMAIN scene'.pool[T]
                                        /\ j # Index(h) => scene'.pool[T][j] = scene.pool[T][j]
    BY <2>1 DEF Put
  <2>3. PoolsKept(Index(h))
    BY <2>1, <2>2 DEF PoolsKept
  <2> QED
    BY <1>4, <2>1, <2>3 DEF e
<1> QED
  BY <1>2, <1>3, <1>4

(* The pointer get_component returned is into one pool.                    *)
LEMMA WritePools ==
  ASSUME UseInv, PoolInv, NEW h \in issued, NEW T \in Component, NEW value,
         scene' = WriteComponent(scene, h, T, value)
  PROVE  /\ PoolsKept(Index(h)) /\ scene'.entities = scene.entities
         /\ \/ T \notin Slot(scene, Index(h)).mask /\ scene'.pool = scene.pool
            \/ /\ T \in Slot(scene, Index(h)).mask
               /\ scene'.pool[T][Index(h)] = value
               /\ \A U \in Component \ {T} : scene'.pool[U] = scene.pool[U]
<1>0. SceneOK(scene) /\ DOMAIN scene.pool = Component
  BY DEF UseInv, SceneOK
<1>1. Index(h) \in 0..(Size(scene) - 1)
  BY HandleFacts
<1>2. scene'.entities = scene.entities /\ scene'.pool = PoolsWritten(scene, h, T, value)
  BY <1>0, <1>1, WriteComponentFacts
<1>3. CASE T \notin Slot(scene, Index(h)).mask
  BY <1>2, <1>3, SamePools DEF PoolsWritten
<1>4. CASE T \in Slot(scene, Index(h)).mask
  <2>1. scene'.pool = [scene.pool EXCEPT ![T] = [scene.pool[T] EXCEPT ![Index(h)] = value]]
    BY <1>2, <1>4 DEF PoolsWritten
  <2>2. /\ scene'.pool[T] = [scene.pool[T] EXCEPT ![Index(h)] = value]
        /\ \A U \in Component \ {T} : scene'.pool[U] = scene.pool[U]
    BY <1>0, <2>1
  <2>3. Index(h) \in DOMAIN scene.pool[T]
    BY <1>1, <1>4 DEF PoolInv, Slots
  <2>4. PoolsKept(Index(h))
    BY <2>2 DEF PoolsKept
  <2> QED
    BY <1>2, <1>4, <2>2, <2>3, <2>4
<1> QED
  BY <1>3, <1>4

(* What follows if masks only lose types, but for one that has a content.  *)
LEMMA PoolStep ==
  ASSUME UseInv, PoolInv, NEW h, PoolsKept(Index(h)), SceneOK(scene'),
         \A i \in Slots' : \A T \in Slot(scene', i).mask :
           \/ i \in Slots /\ T \in Slot(scene, i).mask
           \/ T \in Component /\ i \in DOMAIN scene'.pool[T]
  PROVE  PoolInv'
BY DEF PoolInv, PoolsKept

(* Every operation keeps the components in their pools.                    *)
LEMMA PoolNext == UseInv /\ PoolInv /\ [UseNext]_useVars => PoolInv'
<1> SUFFICES ASSUME UseInv, PoolInv, [UseNext]_useVars
             PROVE  PoolInv'
  OBVIOUS
<1>0. SceneOK(scene) /\ SceneOK(scene') /\ Size(scene) \in Nat
  BY UseInvStep DEF UseInv, SceneOK, Size
<1>1. CASE Create
  <2> DEFINE x == Index(NewHandle(scene))
  <2>1. /\ \A i \in Slots : i # x => Slot(scene', i) = Slot(scene, i)
        /\ \A i \in Slots' : i \in Slots \/ i = x
        /\ Slot(scene', x).mask = {} /\ scene'.pool = scene.pool
    BY <1>1, CreateFrame
  <2> HIDE DEF x
  <2> QED
    BY <2>1 DEF PoolInv
<1>2. ASSUME NEW h \in alive, Destroy(h)
      PROVE  PoolInv'
  <2>1. /\ Version(h) \in Nat /\ (Version(h) + 1) % VERSIONS = Version(h) + 1
        /\ h \in issued
    BY <1>2, DestroyBounds DEF UseInv, HandleInv
  <2>2. Index(h) \in 0..(Size(scene) - 1) /\ scene' = DestroyEntity(scene, h)
    BY <1>2, <2>1, HandleFacts DEF Destroy
  <2>3. /\ Size(scene') = Size(scene) /\ scene'.pool = scene.pool
        /\ Slot(scene', Index(h)) = [id |-> <<-1, Version(h) + 1>>, mask |-> {}]
        /\ \A i \in 0..(Size(scene) - 1) : i # Index(h) => Slot(scene', i) = Slot(scene, i)
    BY <1>0, <2>1, <2>2, DestroyEntityFacts
  <2>4. Slot(scene', Index(h)).mask = {}
    BY <2>3
  <2> QED
    BY <2>3, <2>4 DEF PoolInv, Slots
<1>3. ASSUME NEW h \in alive, NEW T \in Component, Assign(h, T)
      PROVE  PoolInv'
  <2>1. h \in issued /\ Index(h) \in 0..(Size(scene) - 1) /\ scene' = AssignComponent(scene, h, T)
    BY <1>3, HandleFacts DEF Assign, UseInv, HandleInv
  <2>2. PoolsKept(Index(h))
    BY <2>1, AssignPools
  <2>3. CASE scene'.entities = scene.entities
    BY <1>0, <2>2, <2>3, PoolStep DEF Slots, Size, Slot, PoolInv
  <2>4. CASE /\ SlotBecomes(scene, scene', Index(h), [id |-> Slot(scene, Index(h)).id,
                                                        mask |-> Slot(scene, Index(h)).mask \union {T}])
             /\ scene'.pool[T] = Put(scene.pool[T], Index(h), Blank[T])
    <3>1. Slot(scene', Index(h)).mask = Slot(scene, Index(h)).mask \union {T} /\ Slots' = Slots
          /\ \A i \in Slots : i # Index(h) => Slot(scene', i) = Slot(scene, i)
      BY <2>4 DEF SlotBecomes, Slots
    <3>2. Index(h) \in DOMAIN scene'.pool[T]
      BY <2>4 DEF Put
    <3> QED
      BY <1>0, <2>2, <3>1, <3>2, PoolStep
  <2> QED
    BY <2>1, <2>3, <2>4, AssignPools
<1>4. ASSUME NEW h \in alive, NEW T \in Component, NEW value, Write(h, T, value)
      PROVE  PoolInv'
  <2>1. h \in issued /\ scene' = WriteComponent(scene, h, T, value)
    BY <1>4 DEF Write, UseInv, HandleInv
  <2>2. PoolsKept(Index(h)) /\ scene'.entities = scene.entities
    BY <2>1, WritePools
  <2> QED
    BY <1>0, <2>2, PoolStep DEF Slots, Size, Slot
<1>5. ASSUME NEW h \in issued, NEW T \in Component, RemoveFrom(h, T)
      PROVE  PoolInv'
  <2>1. Index(h) \in 0..(Size(scene) - 1) /\ scene' = RemoveComponent(scene, h, T)
    BY <1>5, HandleFacts DEF RemoveFrom
  <2>2. /\ scene'.pool = scene.pool
        /\ \/ scene'.entities = scene.entities
           \/ SlotBecomes(scene, scene', Index(h), [id |-> h, mask |-> Slot(scene, Index(h)).mask \ {T}])
    BY <1>0, <2>1, RemoveComponentFacts
  <2>3. PoolsKept(Index(h))
    BY <2>2, SamePools
  <2>4. CASE scene'.entities = scene.entities
    BY <1>0, <2>3, <2>4, PoolStep DEF Slots, Size, Slot
  <2>5. CASE SlotBecomes(scene, scene', Index(h), [id |-> h, mask |-> Slot(scene, Index(h)).mask \ {T}])
    <3>1. Slot(scene', Index(h)).mask = Slot(scene, Index(h)).mask \ {T} /\ Slots' = Slots
          /\ \A i \in Slots : i # Index(h) => Slot(scene', i) = Slot(scene, i)
      BY <2>5 DEF SlotBecomes, Slots
    <3> QED
      BY <1>0, <2>3, <3>1, PoolStep
  <2> QED
    BY <2>2, <2>4, <2>5
<1>6. CASE (\E Ts \in Views : StartView(Ts)) \/ NextView \/ UNCHANGED useVars
  <2>1. scene'.entities = scene.entities /\ scene'.pool = scene.pool
    BY <1>6, ViewKeeps DEF SameEntities
  <2> QED
    BY <2>1 DEF PoolInv, Slots, Size, Slot
<1> QED
  BY <1>1, <1>2, <1>3, <1>4, <1>5, <1>6 DEF UseNext

-----------------------------------------------------------------------------
(* The contents, entity by entity.                                         *)

Row(s, g) == [T \in Slot(s, Index(g)).mask |-> Content(s, g, T)]

(* Contents, before and after a step, by entity.                           *)
LEMMA ContentsRows ==
  /\ Contents = [g \in alive |-> Row(scene, g)]
  /\ Contents' = [g \in alive' |-> Row(scene', g)]
BY DEF Contents, Row

(* The others' components and contents are as they were.                   *)
LEMMA OtherRows ==
  ASSUME UseInv, PoolInv, NEW h, OthersKept(h), PoolsKept(Index(h)), NEW g \in alive \ {h},
         h \in alive \/ scene'.pool = scene.pool
  PROVE  Row(scene', g) = Row(scene, g)
<1>1. g \in issued /\ Index(g) \in Slots /\ Size(scene) \in Nat
  BY HandleFacts DEF UseInv, HandleInv, Slots
<1>2. Slot(scene', Index(g)) = Slot(scene, Index(g))
  BY DEF OthersKept
<1>3. ASSUME NEW T \in Slot(scene, Index(g)).mask
      PROVE  Content(scene', g, T) = Content(scene, g, T)
  <2>1. T \in Component /\ Index(g) \in DOMAIN scene.pool[T]
    BY <1>1 DEF PoolInv
  <2>2. CASE scene'.pool = scene.pool
    BY <2>2 DEF Content
  <2>3. CASE h \in alive
    <3>1. h \in issued /\ Index(g) # Index(h)
      BY <2>3, SlotOfOne DEF UseInv, HandleInv
    <3> QED
      BY <2>1, <3>1 DEF PoolsKept, Content
  <2> QED
    BY <2>2, <2>3
<1> QED
  BY <1>2, <1>3 DEF Row

(* What one operation does to the components of the entity it is given.    *)
LEMMA AssignRow ==
  ASSUME UseInv, PoolInv, NEW h \in alive, NEW T \in Component, Assign(h, T)
  PROVE  \/ scene'.entities = scene.entities /\ scene'.pool = scene.pool
         \/ Row(scene', h) = Put(Row(scene, h), T, Blank[T])
<1>1. h \in issued /\ Index(h) \in Slots /\ scene' = AssignComponent(scene, h, T)
  BY HandleFacts DEF Assign, UseInv, HandleInv, Slots
<1>2. CASE /\ SlotBecomes(scene, scene', Index(h), [id |-> Slot(scene, Index(h)).id,
                                                    mask |-> Slot(scene, Index(h)).mask \union {T}])
           /\ scene'.pool[T] = Put(scene.pool[T], Index(h), Blank[T])
           /\ \A U \in Component \ {T} : scene'.pool[U] = scene.pool[U]
  <2>1. Slot(scene', Index(h)).mask = Slot(scene, Index(h)).mask \union {T}
    BY <1>2 DEF SlotBecomes
  <2>2. Content(scene', h, T) = Blank[T]
    BY <1>2 DEF Content, Put
  <2>3. \A U \in Slot(scene, Index(h)).mask : U # T => Content(scene', h, U) = Content(scene, h, U)
    BY <1>1, <1>2 DEF Content, PoolInv
  <2> QED
    BY <2>1, <2>2, <2>3 DEF Row, Put
<1> QED
  BY <1>1, <1>2, AssignPools

(* A write replaces one content, if the entity has the component.          *)
LEMMA WriteRow ==
  ASSUME UseInv, PoolInv, NEW h \in alive, NEW T \in Component, NEW value, Write(h, T, value)
  PROVE  \/ scene'.entities = scene.entities /\ scene'.pool = scene.pool
         \/ /\ T \in DOMAIN Row(scene, h)
            /\ Row(scene', h) = [Row(scene, h) EXCEPT ![T] = value]
<1>1. h \in issued /\ Index(h) \in Slots /\ scene' = WriteComponent(scene, h, T, value)
  BY HandleFacts DEF Write, UseInv, HandleInv, Slots
<1>2. scene'.entities = scene.entities
  BY <1>1, WritePools
<1>3. CASE /\ T \in Slot(scene, Index(h)).mask
           /\ scene'.pool[T][Index(h)] = value
           /\ \A U \in Component \ {T} : scene'.pool[U] = scene.pool[U]
  <2>1. Slot(scene', Index(h)) = Slot(scene, Index(h))
    BY <1>2 DEF Slot
  <2>2. Content(scene', h, T) = value
    BY <1>3 DEF Content
  <2>3. \A U \in Slot(scene, Index(h)).mask : U # T => Content(scene', h, U) = Content(scene, h, U)
    BY <1>1, <1>3 DEF Content, PoolInv
  <2> QED
    BY <1>3, <2>1, <2>2, <2>3 DEF Row
<1> QED
  BY <1>1, <1>2, <1>3, WritePools

(* With the handle of an entity that is gone it does nothing.              *)
LEMMA RemoveRow ==
  ASSUME UseInv, PoolInv, NEW h \in issued, NEW T \in Component, RemoveFrom(h, T)
  PROVE  /\ scene'.pool = scene.pool
         /\ \/ scene'.entities = scene.entities
            \/ h \in alive /\ Row(scene', h) = [U \in DOMAIN Row(scene, h) \ {T} |-> Row(scene, h)[U]]
<1>1. /\ Index(h) \in Slots /\ Index(h) \in 0..(Size(scene) - 1) /\ Index(h) # INVALID_INDEX
      /\ scene' = RemoveComponent(scene, h, T) /\ SceneOK(scene)
  BY HandleFacts DEF RemoveFrom, UseInv, Slots
<1>2. /\ scene'.pool = scene.pool
      /\ \/ scene'.entities = scene.entities
         \/ /\ Slot(scene, Index(h)).id = h
            /\ SlotBecomes(scene, scene', Index(h), [id |-> h, mask |-> Slot(scene, Index(h)).mask \ {T}])
  BY <1>1, RemoveComponentFacts
<1>3. CASE /\ Slot(scene, Index(h)).id = h
           /\ SlotBecomes(scene, scene', Index(h), [id |-> h, mask |-> Slot(scene, Index(h)).mask \ {T}])
  <2>1. h \in alive
    BY <1>1, <1>3 DEF UseInv, SlotInv, Id
  <2>2. Slot(scene', Index(h)).mask = Slot(scene, Index(h)).mask \ {T}
    BY <1>3 DEF SlotBecomes
  <2> QED
    BY <1>2, <2>1, <2>2 DEF Row, Content
<1> QED
  BY <1>2, <1>3

(* The other entities live on, with the components they had.               *)
Untouched(h) == \A g \in alive \ {h} : g \in alive' /\ Row(scene', g) = Row(scene, g)

(* destroy_entity leaves the other entities' components.                   *)
LEMMA DestroyUntouched ==
  ASSUME UseInv, PoolInv, NEW h \in alive, Destroy(h)
  PROVE  Untouched(h)
<1>1. h \in issued /\ Index(h) \in 0..(Size(scene) - 1) /\ alive' = alive \ {h}
      /\ scene' = DestroyEntity(scene, h) /\ SceneOK(scene)
  BY HandleFacts DEF Destroy, UseInv, HandleInv
<1>2. scene'.pool = scene.pool
  BY <1>1, DestroyBounds, DestroyEntityFacts
<1>3. OthersKept(h) /\ PoolsKept(Index(h))
  BY <1>2, DestroyLeaves, SamePools
<1> QED
  BY <1>1, <1>3, OtherRows DEF Untouched

(* So does assign_component.                                               *)
LEMMA AssignUntouched ==
  ASSUME UseInv, PoolInv, NEW h \in alive, NEW T \in Component, Assign(h, T)
  PROVE  Untouched(h)
<1>1. h \in issued /\ alive' = alive /\ scene' = AssignComponent(scene, h, T)
  BY DEF Assign, UseInv, HandleInv
<1>2. OthersKept(h) /\ PoolsKept(Index(h))
  BY <1>1, HandleLeaves, AssignPools
<1> QED
  BY <1>1, <1>2, OtherRows DEF Untouched

(* So does a write through get_component's pointer.                        *)
LEMMA WriteUntouched ==
  ASSUME UseInv, PoolInv, NEW h \in alive, NEW T \in Component, NEW value, Write(h, T, value)
  PROVE  Untouched(h)
<1>1. h \in issued /\ alive' = alive /\ scene' = WriteComponent(scene, h, T, value)
      /\ Size(scene) \in Nat
  BY DEF Write, UseInv, HandleInv, SceneOK, Size
<1>2. PoolsKept(Index(h)) /\ scene'.entities = scene.entities
  BY <1>1, WritePools
<1>3. OthersKept(h)
  BY <1>1, <1>2 DEF OthersKept, Size, Slot
<1> QED
  BY <1>1, <1>2, <1>3, OtherRows DEF Untouched

(* So does remove_component, whoever has the slot now.                     *)
LEMMA RemoveUntouched ==
  ASSUME UseInv, PoolInv, NEW h \in issued, NEW T \in Component, RemoveFrom(h, T)
  PROVE  Untouched(h)
<1>1. alive' = alive /\ scene'.pool = scene.pool
  BY RemoveRow DEF RemoveFrom
<1>2. OthersKept(h) /\ PoolsKept(Index(h))
  BY <1>1, HandleLeaves, SamePools
<1> QED
  BY <1>1, <1>2, OtherRows DEF Untouched

(* An operation through one handle leaves the components of every other    *)
(* entity as they were, also of the entity that has the slot now.          *)
THEOREM OthersStay == UseSpec => OthersUntouched
<1> DEFINE Left == \A h \in issued :
                     (\/ Destroy(h)
                      \/ \E T \in Component : \/ Assign(h, T)
                                            \/ RemoveFrom(h, T)
                                            \/ \E value \in Value : Write(h, T, value))
                     => \A g \in alive \ {h} : Contents'[g] = Contents[g]
<1>1. UseInit => UseInv /\ PoolInv
  <2>1. UseInit => scene.entities = <<>>
    BY DEF UseInit, EmptyScene
  <2> QED
    BY <2>1, UseInvInit DEF PoolInv, Slots, Size
<1>2. UseInv /\ PoolInv /\ [UseNext]_useVars => UseInv' /\ PoolInv'
  BY UseInvStep, PoolNext
<1>3. UseInv /\ PoolInv => Left
  <2> SUFFICES ASSUME UseInv, PoolInv, NEW h \in issued,
                      \/ Destroy(h)
                      \/ \E T \in Component : \/ Assign(h, T)
                                            \/ RemoveFrom(h, T)
                                            \/ \E value \in Value : Write(h, T, value)
               PROVE  \A g \in alive \ {h} : Contents'[g] = Contents[g]
    OBVIOUS
  <2>1. Destroy(h) => Untouched(h)
    BY DestroyUntouched DEF Destroy
  <2>2. ASSUME NEW T \in Component, Assign(h, T)
        PROVE  Untouched(h)
    BY <2>2, AssignUntouched DEF Assign
  <2>3. ASSUME NEW T \in Component, RemoveFrom(h, T)
        PROVE  Untouched(h)
    BY <2>3, RemoveUntouched
  <2>4. ASSUME NEW T \in Component, NEW value \in Value, Write(h, T, value)
        PROVE  Untouched(h)
    BY <2>4, WriteUntouched DEF Write
  <2>5. Untouched(h)
    BY <2>1, <2>2, <2>3, <2>4
  <2> QED
    BY <2>5, ContentsRows DEF Untouched
<1>4. OthersUntouched <=> [][Left]_useVars
  BY DEF OthersUntouched
<1> QED
  BY <1>1, <1>2, <1>3, <1>4, PTL DEF UseSpec

-----------------------------------------------------------------------------
(* The scene is a store of entities.                                       *)

StoreStep == EntityStore!StoreNext \/ (UNCHANGED <<issued, Contents>>)

(* An entity that is made is in the store, without components.             *)
LEMMA CreateStores ==
  ASSUME UseInv, PoolInv, Create
  PROVE  EntityStore!CreateEntity
<1> DEFINE h == NewHandle(scene)
<1>0. /\ scene' = NewEntity(scene) /\ created < MaxCreate /\ SceneOK(scene)
      /\ issued' = issued \union {h} /\ alive' = alive \union {h}
  BY DEF Create, UseInv
<1> HIDE DEF h
<1>1. OthersKept(h) /\ scene'.pool = scene.pool /\ h \notin issued /\ h \notin alive
      /\ Slot(scene', Index(h)).mask = {}
  BY CreateLeaves DEF h
<1>2. h \in Handle
  <2>1. /\ Index(h) \in 0..(MaxCreate - 1) /\ Version(h) \in Nat
        /\ Version(h) + Cardinality(alive) <= created
        /\ scene.free # <<>> => Index(h) \in Slots /\ Slot(scene, Index(h)).mask = {}
    BY <1>0, NewHandleFacts DEF h
  <2>2. h = <<Index(h), Version(h)>>
    BY <1>0, <2>1, NewEntityFacts DEF h, Slots
  <2>3. Cardinality(alive) \in Nat /\ created \in Nat /\ MaxCreate \in Nat
    BY UseAssumption, FS_Subset, FS_CardinalityType DEF UseInv, HandleInv, CountInv
  <2>4. Version(h) \in 0..MaxCreate
    BY <1>0, <2>1, <2>3
  <2> QED
    BY <2>1, <2>2, <2>4 DEF Handle
<1>3. Row(scene', h) = [T \in {} |-> Blank[T]]
  BY <1>1 DEF Row
<1>4. \A g \in alive : Row(scene', g) = Row(scene, g)
  BY <1>1, OtherRows, SamePools
<1>5. Contents' = EntityStore!Put(Contents, h, [T \in {} |-> Blank[T]])
  BY <1>0, <1>1, <1>3, <1>4, ContentsRows DEF EntityStore!Put
<1> QED
  BY <1>0, <1>1, <1>2, <1>5 DEF EntityStore!CreateEntity, EntityStore!NoComponents

(* One that is destroyed is no longer in it.                               *)
LEMMA DestroyStores ==
  ASSUME UseInv, PoolInv, NEW h \in alive, Destroy(h)
  PROVE  h \in issued /\ EntityStore!DestroyEntity(h)
<1>1. h \in issued /\ alive' = alive \ {h} /\ UNCHANGED issued
  BY DEF Destroy, UseInv, HandleInv
<1>2. \A g \in alive \ {h} : Row(scene', g) = Row(scene, g)
  BY DestroyUntouched DEF Untouched
<1>3. Contents' = EntityStore!Without(Contents, h)
  BY <1>1, <1>2, ContentsRows DEF EntityStore!Without, EntityStore!Restrict
<1>4. h \in DOMAIN Contents
  BY ContentsRows
<1> QED
  BY <1>1, <1>3, <1>4 DEF EntityStore!DestroyEntity

(* Contents that change in one entity only.                                *)
LEMMA OneRow ==
  ASSUME NEW h \in alive, alive' = alive, Untouched(h)
  PROVE  Contents' = [Contents EXCEPT ![h] = Row(scene', h)] /\ h \in DOMAIN Contents /\ Contents[h] = Row(scene, h)
BY ContentsRows DEF Untouched

(* Contents stay if no slot and no pool changes.                           *)
LEMMA SameRows ==
  ASSUME scene'.entities = scene.entities, scene'.pool = scene.pool, UNCHANGED <<issued, alive>>
  PROVE  StoreStep
BY DEF StoreStep, Contents, Slot, Content

(* A component that is assigned is in the store, as its constructor left   *)
(* it.                                                                     *)
LEMMA AssignStores ==
  ASSUME UseInv, PoolInv, NEW h \in alive, NEW T \in Component, Assign(h, T)
  PROVE  StoreStep
<1>1. h \in issued /\ UNCHANGED <<issued, alive>>
  BY DEF Assign, UseInv, HandleInv
<1>2. CASE scene'.entities = scene.entities /\ scene'.pool = scene.pool
  BY <1>1, <1>2, SameRows
<1>3. CASE Row(scene', h) = Put(Row(scene, h), T, Blank[T])
  <2>1. Contents' = [Contents EXCEPT ![h] = Row(scene', h)] /\ h \in DOMAIN Contents /\ Contents[h] = Row(scene, h)
    BY <1>1, AssignUntouched, OneRow
  <2>2. Row(scene', h) = EntityStore!Put(Contents[h], T, Blank[T])
    BY <1>3, <2>1 DEF Put, EntityStore!Put
  <2>3. EntityStore!AssignComponent(h, T)
    BY <1>1, <2>1, <2>2 DEF EntityStore!AssignComponent
  <2> QED
    BY <1>1, <2>3 DEF StoreStep, EntityStore!StoreNext
<1> QED
  BY <1>2, <1>3, AssignRow

(* A content that is written is the store's.                               *)
LEMMA WriteStores ==
  ASSUME UseInv, PoolInv, NEW h \in alive, NEW T \in Component, NEW value \in Value, Write(h, T, value)
  PROVE  StoreStep
<1>1. h \in issued /\ UNCHANGED <<issued, alive>>
  BY DEF Write, UseInv, HandleInv
<1>2. CASE scene'.entities = scene.entities /\ scene'.pool = scene.pool
  BY <1>1, <1>2, SameRows
<1>3. CASE /\ T \in DOMAIN Row(scene, h)
           /\ Row(scene', h) = [Row(scene, h) EXCEPT ![T] = value]
  <2>1. Contents' = [Contents EXCEPT ![h] = Row(scene', h)] /\ h \in DOMAIN Contents /\ Contents[h] = Row(scene, h)
    BY <1>1, WriteUntouched, OneRow
  <2>2. T \in DOMAIN Contents[h] /\ Row(scene', h) = [Contents[h] EXCEPT ![T] = value]
    BY <1>3, <2>1
  <2>3. EntityStore!WriteComponent(h, T, value)
    BY <1>1, <2>1, <2>2 DEF EntityStore!WriteComponent
  <2> QED
    BY <1>1, <2>3 DEF StoreStep, EntityStore!StoreNext
<1> QED
  BY <1>2, <1>3, WriteRow

(* One that is removed is no longer in the store.                          *)
LEMMA RemoveStores ==
  ASSUME UseInv, PoolInv, NEW h \in issued, NEW T \in Component, RemoveFrom(h, T)
  PROVE  StoreStep
<1>1. UNCHANGED <<issued, alive>> /\ scene'.pool = scene.pool
  BY RemoveRow DEF RemoveFrom
<1>2. CASE scene'.entities = scene.entities
  BY <1>1, <1>2, SameRows
<1>3. CASE h \in alive /\ Row(scene', h) = [U \in DOMAIN Row(scene, h) \ {T} |-> Row(scene, h)[U]]
  <2>1. Contents' = [Contents EXCEPT ![h] = Row(scene', h)] /\ h \in DOMAIN Contents /\ Contents[h] = Row(scene, h)
    BY <1>1, <1>3, RemoveUntouched, OneRow
  <2>2. Row(scene', h) = EntityStore!Without(Contents[h], T)
    BY <1>3, <2>1 DEF EntityStore!Without, EntityStore!Restrict
  <2>3. EntityStore!RemoveComponent(h, T)
    BY <1>1, <2>1, <2>2 DEF EntityStore!RemoveComponent
  <2> QED
    BY <2>3 DEF StoreStep, EntityStore!StoreNext
<1> QED
  BY <1>2, <1>3, RemoveRow

(* The scene implements the store: slots, versions and pools are not seen  *)
(* by who uses it.                                                         *)
THEOREM SceneIsStore == UseSpec => RefinesEntityStore
<1>1. UseInit => UseInv /\ PoolInv /\ EntityStore!StoreInit
  <2>1. UseInit => scene.entities = <<>>
    BY DEF UseInit, EmptyScene
  <2>2. UseInit => EntityStore!StoreInit
    BY DEF UseInit, EntityStore!StoreInit, Contents
  <2> QED
    BY <2>1, <2>2, UseInvInit DEF PoolInv, Slots, Size
<1>2. UseInv /\ PoolInv /\ [UseNext]_useVars => UseInv' /\ PoolInv'
  BY UseInvStep, PoolNext
<1>3. UseInv /\ PoolInv /\ [UseNext]_useVars => [EntityStore!StoreNext]_(EntityStore!storeVars)
  <2> SUFFICES ASSUME UseInv, PoolInv, [UseNext]_useVars
               PROVE  StoreStep
    BY DEF StoreStep, EntityStore!storeVars
  <2>1. CASE Create
    BY <2>1, CreateStores DEF StoreStep, EntityStore!StoreNext
  <2>2. ASSUME NEW h \in alive, Destroy(h)
        PROVE  StoreStep
    BY <2>2, DestroyStores DEF StoreStep, EntityStore!StoreNext
  <2>3. ASSUME NEW h \in alive, NEW T \in Component, Assign(h, T)
        PROVE  StoreStep
    BY <2>3, AssignStores
  <2>4. ASSUME NEW h \in alive, NEW T \in Component, NEW value \in Value, Write(h, T, value)
        PROVE  StoreStep
    BY <2>4, WriteStores
  <2>5. ASSUME NEW h \in issued, NEW T \in Component, RemoveFrom(h, T)
        PROVE  StoreStep
    BY <2>5, RemoveStores
  <2>6. CASE (\E Ts \in Views : StartView(Ts)) \/ NextView \/ UNCHANGED useVars
    BY <2>6, ViewKeeps, SameRows DEF SameEntities, SlotsKept
  <2> QED
    BY <2>1, <2>2, <2>3, <2>4, <2>5, <2>6 DEF UseNext
<1> QED
  BY <1>1, <1>2, <1>3, PTL DEF UseSpec, RefinesEntityStore, EntityStore!Store
-----------------------------------------------------------------------------
(* The types.                                                              *)

(* A sequence whose elements are in a set.                                 *)
LEMMA ElementsTyped ==
  ASSUME NEW S, NEW U, NEW q \in Seq(S), \A k \in 1..Len(q) : q[k] \in U
  PROVE  q \in Seq(U)
OBVIOUS

(* There are no more slots, versions and ids than were made.               *)
LEMMA Bounds ==
  ASSUME UseInv
  PROVE  /\ Size(scene) \in 0..MaxCreate /\ created \in 0..MaxCreate /\ MaxCreate \in Nat
         /\ \A i \in Slots : Version(Id(i)) \in 0..MaxCreate
<1>1. SceneOK(scene) /\ HandleInv /\ SlotInv /\ CountInv
  BY DEF UseInv
<1>2. Size(scene) \in Nat /\ created \in 0..MaxCreate /\ MaxCreate \in Nat /\ peak \in 0..created
  BY <1>1, UseAssumption DEF CountInv, SceneOK, Size
<1>3. Size(scene) <= peak
  BY <1>1 DEF CountInv, SlotsSuffice
<1>4. Cardinality(alive) \in Nat
  BY <1>1, FS_Subset, FS_CardinalityType DEF HandleInv
<1>5. ASSUME NEW i \in Slots
      PROVE  Version(Id(i)) \in 0..MaxCreate
  <2>1. Version(Id(i)) \in Nat
    BY <1>1, SlotFacts DEF Slots, Id
  <2>2. Version(Id(i)) + Cardinality(alive) <= created
    BY <1>1 DEF SlotInv
  <2> QED
    BY <1>2, <1>4, <2>1, <2>2
<1> QED
  BY <1>2, <1>3, <1>5

(* A handle that was given out is one of the bounded ones.                 *)
LEMMA HandlesTyped ==
  ASSUME UseInv
  PROVE  issued \subseteq Handle
<1> SUFFICES ASSUME NEW h \in issued
             PROVE  h \in Handle
  OBVIOUS
<1>1. h = <<Index(h), Version(h)>> /\ Index(h) \in Slots /\ Version(h) \in Nat
  BY DEF UseInv, HandleInv
<1>2. Version(h) <= Version(Id(Index(h)))
  <2>1. CASE h \in alive
    BY <1>1, <2>1 DEF UseInv, HandleInv
  <2>2. CASE h \notin alive
    <3>1. Version(h) < Version(Id(Index(h)))
      BY <2>2 DEF UseInv, HandleInv
    <3>2. Version(Id(Index(h))) \in Nat
      BY <1>1, Bounds
    <3> QED
      BY <1>1, <3>1, <3>2
  <2> QED
    BY <2>1, <2>2
<1>3. Version(h) \in 0..MaxCreate
  <2>1. Version(Id(Index(h))) \in 0..MaxCreate /\ MaxCreate \in Nat
    BY <1>1, Bounds
  <2> QED
    BY <1>1, <1>2, <2>1
<1>4. Index(h) \in 0..(MaxCreate - 1)
  BY <1>1, Bounds DEF Slots
<1> QED
  BY <1>1, <1>3, <1>4 DEF Handle

(* What a slot can hold.                                                   *)
TypedEntry == [id : (-1..(MaxCreate - 1)) \X (0..MaxCreate), mask : SUBSET Component]

(* The slots and the free list have their types.                           *)
LEMMA SlotsTyped ==
  ASSUME UseInv
  PROVE  scene.entities \in Seq(TypedEntry) /\ scene.free \in Seq(0..(MaxCreate - 1))
<1>1. SceneOK(scene) /\ SlotInv /\ FreeInv /\ Size(scene) \in 0..MaxCreate /\ MaxCreate \in Nat
  BY Bounds DEF UseInv
<1>2. ASSUME NEW i \in Slots
      PROVE  Slot(scene, i) \in TypedEntry
  <2>1. /\ Slot(scene, i) = [id |-> Id(i), mask |-> Slot(scene, i).mask]
        /\ Id(i) = <<Index(Id(i)), Version(Id(i))>>
        /\ Slot(scene, i).mask \subseteq Component
    BY <1>1, SlotFacts DEF Slots, Id
  <2>2. Version(Id(i)) \in 0..MaxCreate
    BY Bounds
  <2>3. Index(Id(i)) \in -1..(MaxCreate - 1)
    <3>1. Index(Id(i)) = i \/ Index(Id(i)) = INVALID_INDEX
      BY <1>1 DEF SlotInv
    <3> QED
      BY <1>1, <3>1 DEF Slots, INVALID_INDEX
  <2>4. Id(i) \in (-1..(MaxCreate - 1)) \X (0..MaxCreate)
    BY <2>1, <2>2, <2>3
  <2> QED
    BY <2>1, <2>4 DEF TypedEntry
<1>3. scene.entities \in Seq(TypedEntry)
  <2>1. scene.entities \in Seq(Entry) /\ Size(scene) = Len(scene.entities)
    BY <1>1 DEF SceneOK, Size
  <2>2. ASSUME NEW k \in 1..Len(scene.entities)
        PROVE  scene.entities[k] \in TypedEntry
    <3>1. k - 1 \in Slots /\ (k - 1) + 1 = k
      BY <1>1, <2>1 DEF Slots
    <3> QED
      BY <1>2, <3>1 DEF Slot
  <2> QED
    BY <2>1, <2>2, ElementsTyped
<1>4. scene.free \in Seq(0..(MaxCreate - 1))
  <2>1. scene.free \in Seq(Nat)
    BY <1>1 DEF SceneOK
  <2>2. \A k \in 1..Len(scene.free) : scene.free[k] \in 0..(MaxCreate - 1)
    BY <1>1 DEF FreeInv, Slots
  <2> QED
    BY <2>1, <2>2, ElementsTyped
<1> QED
  BY <1>3, <1>4

(* There are no more ids and pools than types of components.               *)
LEMMA IdsTyped ==
  ASSUME UseInv
  PROVE  /\ scene.counter \in 0..Cardinality(Component)
         /\ scene.poolsSize \in 0..Cardinality(Component)
         /\ \A T \in Component : scene.componentId[T] \in -1..(scene.counter - 1)
<1>1. IdsOK(scene)
  BY DEF UseInv, SceneOK
<1>2. Mentioned(scene) \subseteq Component /\ IsFiniteSet(Component)
  BY SceneAssumption DEF Mentioned
<1>3. /\ Cardinality(Mentioned(scene)) \in Nat /\ Cardinality(Component) \in Nat
      /\ Cardinality(Mentioned(scene)) <= Cardinality(Component)
  BY <1>2, FS_Subset, FS_CardinalityType
<1> QED
  BY <1>1, <1>3 DEF IdsOK

(* The pools hold values.                                                  *)
ValuesIn(pool) == \A T \in Component : \A i \in DOMAIN pool[T] : pool[T][i] \in Value

(* One pool with one content put in, or written where there is one.        *)
LEMMA ValuesPut ==
  ASSUME NEW pool, DOMAIN pool = Component, ValuesIn(pool), NEW T \in Component, NEW i, NEW v \in Value
  PROVE  ValuesIn([pool EXCEPT ![T] = Put(pool[T], i, v)])
<1>1. \A j \in DOMAIN Put(pool[T], i, v) : Put(pool[T], i, v)[j] \in Value
  BY DEF Put, ValuesIn
<1> QED
  BY <1>1 DEF ValuesIn

LEMMA ValuesWritten ==
  ASSUME NEW pool, DOMAIN pool = Component, ValuesIn(pool), NEW T \in Component, NEW i, NEW v \in Value
  PROVE  ValuesIn([pool EXCEPT ![T] = [pool[T] EXCEPT ![i] = v]])
<1> DEFINE f == [pool[T] EXCEPT ![i] = v]
<1>1. \A j \in DOMAIN f : f[j] \in Value
  BY DEF ValuesIn
<1>2. \A U \in Component : [pool EXCEPT ![T] = f][U] = IF U = T THEN f ELSE pool[U]
  OBVIOUS
<1> HIDE DEF f
<1>3. ValuesIn([pool EXCEPT ![T] = f])
  BY <1>1, <1>2 DEF ValuesIn
<1> QED
  BY <1>3 DEF f

(* Each operation leaves values in the pools.                              *)
LEMMA ValuesNext ==
  ASSUME UseInv, ValuesIn(scene.pool), [UseNext]_useVars
  PROVE  ValuesIn(scene'.pool)
<1>0. SceneOK(scene) /\ DOMAIN scene.pool = Component
  BY DEF UseInv, SceneOK
<1>1. CASE Create
  BY <1>1, CreateFrame
<1>2. ASSUME NEW h \in alive, Destroy(h)
      PROVE  ValuesIn(scene'.pool)
  <2>1. Version(h) \in Nat /\ h \in issued
    BY <1>2, DestroyBounds DEF UseInv, HandleInv
  <2>2. Index(h) \in 0..(Size(scene) - 1) /\ scene' = DestroyEntity(scene, h)
    BY <1>2, <2>1, HandleFacts DEF Destroy
  <2>3. scene'.pool = scene.pool
    BY <1>0, <2>1, <2>2, DestroyEntityFacts
  <2> QED
    BY <2>3
<1>3. ASSUME NEW h \in alive, NEW T \in Component, Assign(h, T)
      PROVE  ValuesIn(scene'.pool)
  <2>1. Index(h) \in 0..(Size(scene) - 1) /\ scene' = AssignComponent(scene, h, T)
    BY <1>3, HandleFacts DEF Assign, UseInv, HandleInv
  <2>2. \/ /\ SlotBecomes(scene, scene', Index(h),
                          [id |-> Slot(scene, Index(h)).id, mask |-> Slot(scene, Index(h)).mask \union {T}])
           /\ scene'.pool = [scene.pool EXCEPT ![T] = Put(scene.pool[T], Index(h), Blank[T])]
        \/ scene'.pool = scene.pool
    BY <1>0, <2>1, AssignComponentFacts
  <2>3. Blank[T] \in Value
    BY SceneAssumption
  <2> QED
    BY <1>0, <2>2, <2>3, ValuesPut
<1>4. ASSUME NEW h \in alive, NEW T \in Component, NEW value \in Value, Write(h, T, value)
      PROVE  ValuesIn(scene'.pool)
  <2>1. Index(h) \in 0..(Size(scene) - 1) /\ scene' = WriteComponent(scene, h, T, value)
    BY <1>4, HandleFacts DEF Write, UseInv, HandleInv
  <2>2. scene'.pool = PoolsWritten(scene, h, T, value)
    BY <1>0, <2>1, WriteComponentFacts
  <2> QED
    BY <1>0, <2>2, ValuesWritten DEF PoolsWritten
<1>5. ASSUME NEW h \in issued, NEW T \in Component, RemoveFrom(h, T)
      PROVE  ValuesIn(scene'.pool)
  <2>1. Index(h) \in 0..(Size(scene) - 1) /\ scene' = RemoveComponent(scene, h, T)
    BY <1>5, HandleFacts DEF RemoveFrom
  <2>2. scene'.pool = scene.pool
    BY <1>0, <2>1, RemoveComponentFacts
  <2> QED
    BY <2>2
<1>6. CASE (\E Ts \in Views : StartView(Ts)) \/ NextView \/ UNCHANGED useVars
  BY <1>6, ViewKeeps DEF SameEntities
<1> QED
  BY <1>1, <1>2, <1>3, <1>4, <1>5, <1>6 DEF UseNext

(* Before the first loop.                                                  *)
LEMMA NoLoopTyped == NoLoop \in LoopState
BY UseAssumption DEF NoLoop, LoopState

(* Wherever the iterator goes.                                             *)
LEMMA ReachedTyped ==
  ASSUME UseInv, NEW l \in LoopState, NEW i \in Nat, i <= Size(scene)
  PROVE  Reached(NextMatch(scene, i, l.types), l) \in LoopState
<1> DEFINE n == NextMatch(scene, i, l.types)
<1>0. SceneOK(scene) /\ Size(scene) \in 0..MaxCreate /\ MaxCreate \in Nat
  BY Bounds DEF UseInv
<1>1. n \in i..Size(scene) /\ (n # Size(scene) => Matches(scene, n, l.types))
  BY <1>0, NextMatchFacts
<1> HIDE DEF n
<1>2. CASE n # l.end /\ n # Size(scene)
  <2>1. n \in Slots
    BY <1>0, <1>1, <1>2 DEF Slots
  <2>2. Id(n) \in alive
    BY <1>1, <1>2, <2>1 DEF Matches, IsEntityValid, Id, UseInv, SlotInv, INVALID_INDEX
  <2>3. Id(n) \in Handle
    BY <2>2, HandlesTyped DEF UseInv, HandleInv
  <2>4. n \in 0..MaxCreate
    BY <1>0, <1>1
  <2>5. Reached(n, l) = [l EXCEPT !.at = "body", !.index = n, !.seen = @ \union {Id(n)}]
    BY <1>2 DEF Reached, Id
  <2>6. [l EXCEPT !.at = "body", !.index = n, !.seen = @ \union {Id(n)}] \in LoopState
    BY <2>3, <2>4 DEF LoopState
  <2> QED
    BY <2>5, <2>6 DEF n
<1>3. CASE ~(n # l.end /\ n # Size(scene))
  <2>1. Reached(n, l) = [NoLoop EXCEPT !.at = "done", !.seen = l.seen, !.lasting = l.lasting]
    BY <1>3 DEF Reached
  <2>2. [NoLoop EXCEPT !.at = "done", !.seen = l.seen, !.lasting = l.lasting] \in LoopState
    BY NoLoopTyped DEF LoopState
  <2> QED
    BY <2>1, <2>2 DEF n
<1> QED
  BY <1>2, <1>3

(* A loop of which fewer entities last.                                    *)
LEMMA LastingTyped ==
  ASSUME loop \in LoopState
  PROVE  LastingNow(loop) \in LoopState
BY DEF LastingNow, LoopState

(* So the loop keeps its type.                                             *)
LEMMA LoopTyped ==
  ASSUME UseInv, LoopInv, loop \in LoopState, [UseNext]_useVars
  PROVE  loop' \in LoopState
<1>1. CASE NextView
  <2>1. loop.at = "body" /\ loop' = Reached(NextMatch(scene, loop.index + 1, loop.types), loop)
    BY <1>1 DEF NextView
  <2>2. loop.index + 1 \in Nat /\ loop.index + 1 <= Size(scene)
    <3>1. loop.index \in Slots /\ Size(scene) \in Nat
      BY <2>1, Bounds DEF LoopInv
    <3> QED
      BY <3>1 DEF Slots
  <2> QED
    BY <2>1, <2>2, ReachedTyped
<1>2. ASSUME NEW Ts \in Views, StartView(Ts)
      PROVE  loop' \in LoopState
  <2> DEFINE types == {Ts[k] : k \in DOMAIN Ts}
             l == [NoLoop EXCEPT !.end = Size(scene), !.types = types, !.lasting = Matching(types)]
  <2>1. loop' = Reached(NextMatch(scene, 0, types), l)
    BY <1>2 DEF StartView
  <2>2. types \subseteq Component
    BY UseAssumption
  <2> HIDE DEF types
  <2>3. Matching(types) \subseteq Handle
    BY HandlesTyped DEF Matching, UseInv, HandleInv
  <2>4. Size(scene) \in 0..MaxCreate /\ MaxCreate \in Nat
    BY Bounds
  <2>5. l.types = types
    BY DEF NoLoop
  <2>6. l \in LoopState
    BY <2>2, <2>3, <2>4, NoLoopTyped DEF LoopState
  <2> HIDE DEF l
  <2>7. 0 \in Nat /\ 0 <= Size(scene) /\ loop' = Reached(NextMatch(scene, 0, l.types), l)
    BY <2>1, <2>4, <2>5 DEF l
  <2> QED
    BY <2>6, <2>7, ReachedTyped
<1>3. CASE LastingNow(loop) = loop'
  BY <1>3, LastingTyped
<1>4. CASE UNCHANGED loop
  BY <1>4
<1> QED
  BY <1>1, <1>2, <1>3, <1>4 DEF UseNext, Create, Destroy, Assign, RemoveFrom, Write, useVars

(* Together they are the type invariant.                                   *)
LEMMA TypesFromParts ==
  ASSUME UseInv, ValuesIn(scene.pool), loop \in LoopState
  PROVE  UseTypeOK
<1>1. DOMAIN scene = DOMAIN EmptyScene
  BY DEF UseInv, SceneOK, Fields, EmptyScene
<1>2. created \in 0..MaxCreate /\ peak \in 0..created /\ scene.overrun \in {"none", "pools", "slots"}
      /\ alive \subseteq issued
  BY DEF UseInv, CountInv, HandleInv
<1> QED
  BY <1>1, <1>2, HandlesTyped, SlotsTyped, IdsTyped DEF UseTypeOK, TypedEntry, ValuesIn

(* The scene, its history and the loop always have their types: no more    *)
(* slots, versions, ids and pools than were asked for, and never a content *)
(* that is not a value.                                                    *)
THEOREM SceneTyped == UseSpec => []UseTypeOK
<1> DEFINE Typed == UseInv /\ LoopInv /\ ValuesIn(scene.pool) /\ loop \in LoopState
<1>1. UseInit => Typed
  <2>1. UseInit => ValuesIn(scene.pool)
    BY DEF UseInit, EmptyScene, ValuesIn
  <2>2. UseInit => loop \in LoopState
    BY NoLoopTyped DEF UseInit
  <2> QED
    BY <2>1, <2>2, UseInvInit, LoopInit
<1>2. Typed /\ [UseNext]_useVars => Typed'
  BY UseInvStep, LoopStep, ValuesNext, LoopTyped
<1>3. Typed => UseTypeOK
  BY TypesFromParts
<1> QED
  BY <1>1, <1>2, <1>3, PTL DEF UseSpec
=============================================================================
