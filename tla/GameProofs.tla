------------------------------- MODULE GameProofs -------------------------------
(***************************************************************************)
(* What the game layer keeps of its scene, for any players who come, move  *)
(* and go in any order: an entity that is destroyed is alive and its       *)
(* player's alone, the list of pools is never too short, nobody who left   *)
(* is drawn, and every sprite shows the frame its animator is at.  And     *)
(* what the application keeps, for any number of layers and any window:    *)
(* OpenGL is called while there is a context, and whatever ends the        *)
(* program in an orderly way releases everything it made.                  *)
(***************************************************************************)
EXTENDS MCGame, SceneFacts

-----------------------------------------------------------------------------
(* The scene of the game.                                                  *)

(* A scene that holds exactly the entities of H.                           *)

SlotsOf(s) == 0..(Size(s) - 1)

(* An entity is in the slot its handle tells, a slot without one is empty, *)
(* and the free list has slots without one, each once.                     *)
Holding(s, H) ==
  /\ SceneOK(s)
  /\ \A h \in H : /\ h = <<Index(h), Version(h)>> /\ Index(h) \in SlotsOf(s) /\ Version(h) \in Nat
                  /\ Slot(s, Index(h)).id = h
  /\ \A i \in SlotsOf(s) :
       \/ Slot(s, i).id \in H /\ Index(Slot(s, i).id) = i
       \/ Index(Slot(s, i).id) = INVALID_INDEX /\ Slot(s, i).mask = {} /\ Slot(s, i).id \notin H
  /\ \A k \in 1..Len(s.free) : s.free[k] \in SlotsOf(s) /\ Index(Slot(s, s.free[k]).id) = INVALID_INDEX
  /\ \A j, k \in 1..Len(s.free) : s.free[j] = s.free[k] => j = k
  /\ \A i \in SlotsOf(s) : Index(Slot(s, i).id) = INVALID_INDEX => \E k \in 1..Len(s.free) : s.free[k] = i

(* The pools keep what they hold but at the index i.                       *)
PoolsBut(s, t, i) ==
  \A T \in Component : \A j \in DOMAIN s.pool[T] :
    j \in DOMAIN t.pool[T] /\ (j # i => t.pool[T][j] = s.pool[T][j])

(* The entity h has the components Ts besides those it had.                *)
Gains(s, t, h, Ts) == Slot(t, Index(h)).mask = Slot(s, Index(h)).mask \union Ts

(* From s to t the slots of the others stay.                               *)
SlotsKept(s, t, h) == \A i \in SlotsOf(s) : i # Index(h) => Slot(t, i) = Slot(s, i)

(* And h has no component yet.                                             *)
Fresh(s, t, h) == Slot(t, Index(h)).mask = {} /\ SlotsKept(s, t, h)

(* There is a pool for the type; the type, when a component of it is       *)
(* assigned, needs one more pool at most; all types that have an id have a *)
(* pool.                                                                   *)
HasPool(s, T) == s.componentId[T] \in 0..(s.poolsSize - 1)
Ready(s, T) ==
  IF s.componentId[T] = NO_ID THEN s.counter = s.poolsSize ELSE s.componentId[T] <= s.poolsSize
Ordered(s) == s.counter = s.poolsSize

(* From s to t types only gain pools, and none stays without.              *)
IdsGrow(s, t) ==
  /\ \A T \in Component : HasPool(s, T) => HasPool(t, T)
  /\ Ordered(s) => Ordered(t)

(* From s to t only the components of the entity h change.                 *)
Within(s, t, h) ==
  /\ SceneOK(t) /\ t.overrun = "none" /\ t.free = s.free /\ Size(t) = Size(s)
  /\ \A i \in SlotsOf(s) : /\ Slot(t, i).id = Slot(s, i).id
                           /\ i # Index(h) => Slot(t, i) = Slot(s, i)
  /\ PoolsBut(s, t, Index(h)) /\ IdsGrow(s, t)

(* Where all types that have an id have a pool, any type is ready.         *)
LEMMA OrderedReady ==
  ASSUME NEW s, SceneOK(s), NEW T \in Component, Ordered(s)
  PROVE  Ready(s, T) /\ (s.componentId[T] # NO_ID => HasPool(s, T))
<1>1. s.counter \in Nat
  BY MentionFacts
<1> QED
  BY <1>1 DEF SceneOK, IdsOK, Ordered, Ready, HasPool, NO_ID

(* A type with a pool is ready.                                            *)
LEMMA PoolReady ==
  ASSUME NEW s, SceneOK(s), NEW T \in Component, HasPool(s, T)
  PROVE  Ready(s, T) /\ s.componentId[T] # NO_ID
BY DEF SceneOK, IdsOK, Ready, HasPool, NO_ID

(* One change after another.                                               *)
LEMMA WithinTwice ==
  ASSUME NEW s, SceneOK(s), NEW t, NEW u, NEW h, Within(s, t, h), Within(t, u, h)
  PROVE  Within(s, u, h)
<1>1. SlotsOf(t) = SlotsOf(s)
  BY DEF Within, SlotsOf
<1>2. PoolsBut(s, u, Index(h))
  BY DEF Within, PoolsBut
<1>3. IdsGrow(s, u)
  BY DEF Within, IdsGrow
<1> QED
  BY <1>1, <1>2, <1>3 DEF Within

(* It leaves the scene with the same entities.                             *)
LEMMA WithinHolds ==
  ASSUME NEW H, NEW s, Holding(s, H), NEW h \in H, NEW t, Within(s, t, h)
  PROVE  Holding(t, H)
<1>1. SlotsOf(t) = SlotsOf(s) /\ t.free = s.free /\ SceneOK(t) /\ Index(h) \in SlotsOf(s)
      /\ Slot(s, Index(h)).id = h /\ h \in H
  BY DEF Within, SlotsOf, Holding
<1>2. \A i \in SlotsOf(s) : /\ Slot(t, i).id = Slot(s, i).id
                            /\ Slot(s, i).id \notin H => Slot(t, i).mask = Slot(s, i).mask
  BY <1>1 DEF Within
<1> QED
  BY <1>1, <1>2 DEF Holding

(* assign_component to a living entity, of a type that is ready.           *)
LEMMA AssignWithin ==
  ASSUME NEW s, SceneOK(s), s.overrun = "none", NEW h, Index(h) \in SlotsOf(s), Index(h) < MAX_ENTITIES,
         NEW T \in Component, Ready(s, T),
         NEW t, t = AssignComponent(s, h, T)
  PROVE  /\ Within(s, t, h) /\ HasPool(t, T)
         /\ Gains(s, t, h, {T})
         /\ t.pool = [s.pool EXCEPT ![T] = Put(s.pool[T], Index(h), Blank[T])]
         /\ DOMAIN s.pool = Component
<1> DEFINE m == Mention(s, T)
           e == [id |-> Slot(s, Index(h)).id, mask |-> Slot(s, Index(h)).mask \union {T}]
<1>1. /\ SceneOK(t) /\ t.free = s.free /\ t.componentId = m.componentId /\ t.counter = m.counter
      /\ t.poolsSize = IF s.poolsSize <= m.componentId[T] THEN s.poolsSize + 1 ELSE s.poolsSize
      /\ \/ /\ SlotBecomes(s, t, Index(h), e)
            /\ t.pool = [s.pool EXCEPT ![T] = Put(s.pool[T], Index(h), Blank[T])]
            /\ t.overrun = s.overrun
         \/ /\ t.overrun \in {"pools", "slots"}
            /\ t.overrun = "slots" => Index(h) >= MAX_ENTITIES
            /\ t.overrun = "pools" => t.poolsSize <= m.componentId[T]
  BY AssignComponentFacts DEF SlotsOf
<1>2. /\ s.counter \in Nat /\ m.componentId[T] \in 0..(m.counter - 1)
      /\ IF s.componentId[T] # NO_ID THEN m = s
         ELSE m.componentId = [s.componentId EXCEPT ![T] = s.counter] /\ m.counter = s.counter + 1
  BY MentionFacts
<1>3. /\ s.poolsSize \in Nat /\ s.poolsSize <= s.counter /\ s.componentId \in [Component -> Int]
      /\ DOMAIN s.pool = Component
      /\ \A U \in Component : s.componentId[U] \in -1..(s.counter - 1)
  BY DEF SceneOK, IdsOK
<1> HIDE DEF m, e
<1>4. m.componentId[T] \in 0..s.poolsSize
  BY <1>2, <1>3 DEF Ready
<1>5. t.poolsSize \in Nat /\ s.poolsSize <= t.poolsSize /\ m.componentId[T] < t.poolsSize
  BY <1>1, <1>3, <1>4
<1>6. /\ SlotBecomes(s, t, Index(h), e) /\ t.overrun = "none"
      /\ t.pool = [s.pool EXCEPT ![T] = Put(s.pool[T], Index(h), Blank[T])]
  <2>1. Index(h) \in Int /\ MAX_ENTITIES \in Nat
    BY SceneAssumption DEF SlotsOf
  <2> QED
    BY <1>1, <1>3, <1>4, <1>5, <2>1
<1>7. IdsGrow(s, t) /\ HasPool(t, T)
  <2>1. HasPool(t, T)
    BY <1>1, <1>4, <1>5 DEF HasPool
  <2>2. ASSUME NEW U \in Component, HasPool(s, U)
        PROVE  HasPool(t, U)
    <3>1. m.componentId[U] = s.componentId[U]
      BY <1>2, <1>3, <2>2 DEF HasPool, NO_ID
    <3> QED
      BY <1>1, <1>3, <1>5, <2>2, <3>1 DEF HasPool
  <2>3. Ordered(s) => Ordered(t)
    BY <1>1, <1>2, <1>3 DEF Ordered
  <2> QED
    BY <2>1, <2>2, <2>3 DEF IdsGrow
<1>8. PoolsBut(s, t, Index(h))
  <2>1. ASSUME NEW U \in Component, NEW j \in DOMAIN s.pool[U]
        PROVE  j \in DOMAIN t.pool[U] /\ (j # Index(h) => t.pool[U][j] = s.pool[U][j])
    <3>1. CASE U = T
      <4>1. t.pool[U] = Put(s.pool[U], Index(h), Blank[T])
        BY <1>3, <1>6, <3>1
      <4> QED
        BY <4>1 DEF Put
    <3>2. CASE U # T
      BY <1>3, <1>6, <3>2
    <3> QED
      BY <3>1, <3>2
  <2> QED
    BY <2>1 DEF PoolsBut
<1>9. /\ Size(t) = Size(s) /\ Slot(t, Index(h)) = e
      /\ \A i \in SlotsOf(s) : i # Index(h) => Slot(t, i) = Slot(s, i)
  BY <1>6 DEF SlotBecomes, SlotsOf
<1>10. e.id = Slot(s, Index(h)).id /\ e.mask = Slot(s, Index(h)).mask \union {T}
  BY DEF e
<1> QED
  BY <1>1, <1>3, <1>6, <1>7, <1>8, <1>9, <1>10 DEF Within, Gains

(* A write to a component the entity has.                                  *)
LEMMA WriteWithin ==
  ASSUME NEW s, SceneOK(s), s.overrun = "none", NEW h, Index(h) \in SlotsOf(s),
         NEW T \in Component, HasPool(s, T), NEW value,
         NEW t, t = WriteComponent(s, h, T, value)
  PROVE  /\ Within(s, t, h)
         /\ t.entities = s.entities /\ SameIds(s, t)
         /\ \A U \in Component \ {T} : t.pool[U] = s.pool[U]
         /\ T \in Slot(s, Index(h)).mask /\ Index(h) \in DOMAIN s.pool[T] => t.pool[T][Index(h)] = value
<1>1. /\ SceneOK(t) /\ t.entities = s.entities /\ t.free = s.free /\ t.overrun = s.overrun
      /\ t.pool = PoolsWritten(s, h, T, value) /\ SameIds(Mention(s, T), t)
  BY WriteComponentFacts DEF SlotsOf
<1>2. Mention(s, T) = s
  <2>1. s.componentId[T] # NO_ID
    BY PoolReady
  <2>2. s.componentId[T] # NO_ID => Mention(s, T) = s
    BY MentionFacts
  <2> QED
    BY <2>1, <2>2
<1>3. IdsGrow(s, t)
  BY <1>1, <1>2 DEF SameIds, IdsGrow, HasPool, Ordered
<1>4. DOMAIN s.pool = Component
  BY DEF SceneOK
<1>5. /\ PoolsBut(s, t, Index(h))
      /\ \A U \in Component \ {T} : t.pool[U] = s.pool[U]
      /\ T \in Slot(s, Index(h)).mask /\ Index(h) \in DOMAIN s.pool[T] => t.pool[T][Index(h)] = value
  <2>1. CASE T \in Slot(s, Index(h)).mask
    <3>1. t.pool = [s.pool EXCEPT ![T] = [s.pool[T] EXCEPT ![Index(h)] = value]]
      BY <1>1, <2>1 DEF PoolsWritten
    <3>2. /\ t.pool[T] = [s.pool[T] EXCEPT ![Index(h)] = value]
          /\ \A U \in Component \ {T} : t.pool[U] = s.pool[U]
      BY <1>4, <3>1
    <3> QED
      BY <3>2 DEF PoolsBut
  <2>2. CASE T \notin Slot(s, Index(h)).mask
    BY <1>1, <2>2 DEF PoolsWritten, PoolsBut
  <2> QED
    BY <2>1, <2>2
<1> QED
  BY <1>1, <1>2, <1>3, <1>5 DEF Within, Size, Slot

(* new_entity: the new handle names a slot no other entity has.            *)
LEMMA NewHolds ==
  ASSUME NEW H, NEW s, Holding(s, H), NEW h, h = NewHandle(s), NEW t, t = NewEntity(s)
  PROVE  /\ Holding(t, H \union {h}) /\ h \notin H
         /\ Index(h) \in SlotsOf(t) /\ SlotsOf(s) \subseteq SlotsOf(t)
         /\ \A g \in H : Index(g) # Index(h)
         /\ t.pool = s.pool /\ t.overrun = s.overrun /\ SameIds(s, t)
         /\ IF s.free # <<>> THEN Size(t) = Size(s) /\ Index(h) \in SlotsOf(s)
            ELSE Size(t) = Size(s) + 1 /\ Index(h) = Size(s)
         /\ Size(s) \in Nat
         /\ Fresh(s, t, h)
<1> DEFINE q == s.free
           n == Len(q)
           x == Index(h)
<1>1. SceneOK(s) /\ q \in Seq(Nat) /\ Size(s) \in Nat /\ n \in Nat
  BY DEF Holding, SceneOK, Size
<1>2. ASSUME q # <<>>
      PROVE  /\ x = q[n] /\ n \in 1..n /\ x \in SlotsOf(s) /\ Slot(s, x).mask = {}
             /\ Index(Slot(s, x).id) = INVALID_INDEX
  <2>1. n \in 1..n
    BY <1>1, <1>2
  <2>2. x = q[n]
    BY <1>2 DEF NewHandle, Index
  <2>3. x \in SlotsOf(s) /\ Index(Slot(s, x).id) = INVALID_INDEX
    BY <2>1, <2>2 DEF Holding
  <2> HIDE DEF q, n, x
  <2>4. Slot(s, x).mask = {}
    BY <2>3 DEF Holding, SlotsOf, INVALID_INDEX
  <2> QED
    BY <2>1, <2>2, <2>3, <2>4
<1>3. q = <<>> => x = Size(s)
  BY DEF NewHandle, Index
<1> HIDE DEF q, n, x
<1>4. x \in Nat
  BY <1>1, <1>2, <1>3 DEF SlotsOf
<1>5. /\ SceneOK(t) /\ t.pool = s.pool /\ t.overrun = s.overrun /\ SameIds(s, t)
      /\ h = <<x, Version(h)>> /\ Slot(t, x) = [id |-> h, mask |-> {}]
      /\ \A i \in SlotsOf(s) : i # x => Slot(t, i) = Slot(s, i)
      /\ \/ /\ q # <<>> /\ Size(t) = Size(s) /\ Version(h) = Version(Slot(s, x).id)
            /\ t.free = SubSeq(q, 1, n - 1)
         \/ q = <<>> /\ Size(t) = Size(s) + 1 /\ Version(h) = 0 /\ t.free = q
  <2>1. q # <<>> => x \in 0..(Size(s) - 1) /\ Slot(s, x).mask = {}
    BY <1>2 DEF SlotsOf
  <2> QED
    BY <1>1, <1>4, <2>1, NewEntityFacts DEF q, n, x, SlotsOf
<1>6. /\ x \in SlotsOf(t) /\ SlotsOf(t) = SlotsOf(s) \union {x}
      /\ IF q # <<>> THEN Size(t) = Size(s) /\ x \in SlotsOf(s)
         ELSE Size(t) = Size(s) + 1 /\ x = Size(s)
  <2>1. CASE q # <<>>
    BY <1>2, <1>5, <2>1 DEF SlotsOf
  <2>2. CASE q = <<>>
    <3>1. x = Size(s) /\ Size(t) = Size(s) + 1
      BY <1>3, <1>5, <2>2
    <3> QED
      BY <1>1, <2>2, <3>1 DEF SlotsOf
  <2> QED
    BY <2>1, <2>2
<1>7. Version(h) \in Nat
  <2>1. CASE q # <<>>
    <3>1. x \in 0..(Size(s) - 1)
      BY <1>2, <2>1 DEF SlotsOf
    <3>2. Version(Slot(s, x).id) \in Nat
      BY <1>1, <3>1, SlotFacts
    <3> QED
      BY <1>5, <2>1, <3>2
  <2> QED
    BY <1>5, <2>1
<1>8. \A g \in H : Index(g) \in SlotsOf(s) /\ Index(g) # x /\ Index(g) # INVALID_INDEX
  <2>1. ASSUME NEW g \in H
        PROVE  Index(g) \in SlotsOf(s) /\ Index(g) # x /\ Index(g) # INVALID_INDEX
    <3>1. Index(g) \in SlotsOf(s) /\ Slot(s, Index(g)).id = g
      BY DEF Holding
    <3>2. Index(g) # INVALID_INDEX
      BY <1>1, <3>1 DEF SlotsOf, INVALID_INDEX
    <3>3. Index(g) # Size(s)
      BY <1>1, <3>1 DEF SlotsOf
    <3> QED
      BY <1>2, <1>3, <3>1, <3>2, <3>3
  <2> QED
    BY <2>1
<1>9. h \notin H /\ Index(h) = x
  BY <1>8 DEF x
<1>10. \A g \in H \union {h} : /\ g = <<Index(g), Version(g)>> /\ Index(g) \in SlotsOf(t) /\ Version(g) \in Nat
                              /\ Slot(t, Index(g)).id = g
  <2>1. ASSUME NEW g \in H
        PROVE  /\ g = <<Index(g), Version(g)>> /\ Index(g) \in SlotsOf(t) /\ Version(g) \in Nat
               /\ Slot(t, Index(g)).id = g
    BY <1>5, <1>6, <1>8 DEF Holding
  <2>2. /\ h = <<Index(h), Version(h)>> /\ Index(h) \in SlotsOf(t) /\ Version(h) \in Nat
        /\ Slot(t, Index(h)).id = h
    BY <1>5, <1>6, <1>7, <1>9
  <2> QED
    BY <2>1, <2>2
<1>11. ASSUME NEW i \in SlotsOf(t)
       PROVE  \/ Slot(t, i).id \in H \union {h} /\ Index(Slot(t, i).id) = i
              \/ Index(Slot(t, i).id) = INVALID_INDEX /\ Slot(t, i).mask = {} /\ Slot(t, i).id \notin H \union {h}
  <2>1. CASE i = x
    BY <1>5, <1>9, <2>1
  <2>2. CASE i # x
    <3>1. i \in SlotsOf(s) /\ Slot(t, i) = Slot(s, i)
      BY <1>5, <1>6, <2>2
    <3>2. \/ Slot(s, i).id \in H /\ Index(Slot(s, i).id) = i
          \/ Index(Slot(s, i).id) = INVALID_INDEX /\ Slot(s, i).mask = {} /\ Slot(s, i).id \notin H
      BY <3>1 DEF Holding
    <3>3. Index(h) # INVALID_INDEX
      BY <1>4, <1>9 DEF INVALID_INDEX
    <3> QED
      BY <3>1, <3>2, <3>3
  <2> QED
    BY <2>1, <2>2
<1>12. ASSUME NEW i \in SlotsOf(t), Index(Slot(t, i).id) = INVALID_INDEX
       PROVE  i \in SlotsOf(s) /\ i # x /\ \E k \in 1..n : q[k] = i
  <2>1. i # x
    BY <1>4, <1>5, <1>9, <1>12 DEF INVALID_INDEX
  <2>2. i \in SlotsOf(s) /\ Slot(t, i) = Slot(s, i)
    BY <1>5, <1>6, <2>1
  <2> QED
    BY <1>12, <2>1, <2>2 DEF Holding, q, n
<1>13. /\ \A k \in 1..n : q[k] \in SlotsOf(s) /\ Index(Slot(s, q[k]).id) = INVALID_INDEX
       /\ \A j, k \in 1..n : q[j] = q[k] => j = k
  BY DEF Holding, q, n
<1>14. \E m \in Nat : /\ Len(t.free) = m /\ m <= n
                      /\ \A k \in 1..m : t.free[k] = q[k] /\ q[k] # x
                      /\ \A k \in 1..n : k \in 1..m \/ q[k] = x
  <2>1. CASE q # <<>>
    <3>1. /\ n \in Nat \ {0} /\ Len(t.free) = n - 1 /\ \A k \in 1..(n - 1) : t.free[k] = q[k]
      BY <1>1, <1>5, <2>1, FrontFacts DEF n
    <3>2. x = q[n] /\ n \in 1..n
      BY <1>2, <2>1
    <3>3. \A k \in 1..(n - 1) : k \in 1..n /\ k # n
      BY <3>1
    <3>4. \A k \in 1..(n - 1) : q[k] # x
      BY <1>13, <3>2, <3>3
    <3>5. \A k \in 1..n : k \in 1..(n - 1) \/ k = n
      BY <3>1
    <3>6. n - 1 \in Nat /\ n - 1 <= n
      BY <3>1
    <3> QED
      BY <3>1, <3>2, <3>4, <3>5, <3>6
  <2>2. CASE q = <<>>
    <3>1. n = 0 /\ Len(t.free) = 0
      BY <1>5, <2>2 DEF n
    <3> QED
      BY <3>1
  <2> QED
    BY <2>1, <2>2
<1>15. PICK m \in Nat : /\ Len(t.free) = m /\ m <= n
                        /\ \A k \in 1..m : t.free[k] = q[k] /\ q[k] # x
                        /\ \A k \in 1..n : k \in 1..m \/ q[k] = x
  BY <1>14
<1>16. \A k \in 1..m : k \in 1..n
  BY <1>1, <1>15
<1>17. \A k \in 1..m : t.free[k] \in SlotsOf(t) /\ Index(Slot(t, t.free[k]).id) = INVALID_INDEX
  BY <1>5, <1>6, <1>13, <1>15, <1>16
<1>18. \A j, k \in 1..m : t.free[j] = t.free[k] => j = k
  BY <1>13, <1>15, <1>16
<1>19. \A i \in SlotsOf(t) : Index(Slot(t, i).id) = INVALID_INDEX => \E k \in 1..m : t.free[k] = i
  BY <1>12, <1>15
<1>20. Holding(t, H \union {h})
  BY <1>5, <1>10, <1>11, <1>15, <1>17, <1>18, <1>19 DEF Holding
<1> QED
  BY <1>1, <1>5, <1>6, <1>8, <1>9, <1>20 DEF q, Fresh, SlotsKept

(* destroy_entity of an entity of the scene leaves the others.             *)
LEMMA DestroyHolds ==
  ASSUME NEW H, NEW s, Holding(s, H), NEW h \in H, NEW t, t = DestroyEntity(s, h)
  PROVE  /\ Holding(t, H \ {h})
         /\ t.pool = s.pool /\ t.overrun = s.overrun /\ SameIds(s, t) /\ Size(t) = Size(s)
         /\ SlotsKept(s, t, h)
<1> DEFINE q == s.free
           n == Len(q)
           x == Index(h)
           v == (Version(h) + 1) % VERSIONS
<1>1. SceneOK(s) /\ q \in Seq(Nat) /\ Size(s) \in Nat /\ n \in Nat
  BY DEF Holding, SceneOK, Size
<1>2. x \in SlotsOf(s) /\ Slot(s, x).id = h /\ Version(h) \in Nat /\ x \in Nat /\ x # INVALID_INDEX
  <2>1. x \in SlotsOf(s) /\ Slot(s, x).id = h /\ Version(h) \in Nat
    BY DEF Holding
  <2> QED
    BY <1>1, <2>1 DEF SlotsOf, INVALID_INDEX
<1>3. /\ SceneOK(t) /\ Size(t) = Size(s) /\ t.pool = s.pool /\ t.overrun = s.overrun
      /\ Slot(t, x) = [id |-> <<-1, v>>, mask |-> {}]
      /\ \A i \in SlotsOf(s) : i # x => Slot(t, i) = Slot(s, i)
      /\ t.free = Append(q, x) /\ SameIds(s, t)
  BY <1>1, <1>2, DestroyEntityFacts DEF SlotsOf
<1> HIDE DEF x, v, q, n
<1>4. SlotsOf(t) = SlotsOf(s) /\ Index(Slot(t, x).id) = INVALID_INDEX /\ Slot(t, x).mask = {}
  BY <1>3 DEF SlotsOf, Index, INVALID_INDEX
<1>5. \A g \in H \ {h} : Index(g) \in SlotsOf(s) /\ Index(g) # x
  BY <1>2 DEF Holding
<1>6. \A g \in H \ {h} : /\ g = <<Index(g), Version(g)>> /\ Index(g) \in SlotsOf(t) /\ Version(g) \in Nat
                          /\ Slot(t, Index(g)).id = g
  BY <1>3, <1>4, <1>5 DEF Holding
<1>7. \A g \in H : Index(g) # INVALID_INDEX
  <2>1. \A g \in H : Index(g) \in SlotsOf(s)
    BY DEF Holding
  <2> QED
    BY <1>1, <2>1 DEF SlotsOf, INVALID_INDEX
<1>8. ASSUME NEW i \in SlotsOf(t)
      PROVE  \/ Slot(t, i).id \in H \ {h} /\ Index(Slot(t, i).id) = i
             \/ Index(Slot(t, i).id) = INVALID_INDEX /\ Slot(t, i).mask = {} /\ Slot(t, i).id \notin H \ {h}
  <2>1. CASE i = x
    BY <1>4, <1>7, <2>1
  <2>2. CASE i # x
    <3>1. i \in SlotsOf(s) /\ Slot(t, i) = Slot(s, i)
      BY <1>3, <1>4, <2>2
    <3>2. \/ Slot(s, i).id \in H /\ Index(Slot(s, i).id) = i
          \/ Index(Slot(s, i).id) = INVALID_INDEX /\ Slot(s, i).mask = {} /\ Slot(s, i).id \notin H
      BY <3>1 DEF Holding
    <3> QED
      BY <2>2, <3>1, <3>2 DEF x
  <2> QED
    BY <2>1, <2>2
<1>9. /\ \A k \in 1..n : q[k] \in SlotsOf(s) /\ Index(Slot(s, q[k]).id) = INVALID_INDEX
      /\ \A j, k \in 1..n : q[j] = q[k] => j = k
      /\ \A i \in SlotsOf(s) : Index(Slot(s, i).id) = INVALID_INDEX => \E k \in 1..n : q[k] = i
  BY DEF Holding, q, n
<1>10. \A k \in 1..n : q[k] # x
  <2>1. Index(Slot(s, x).id) # INVALID_INDEX
    BY <1>2, <1>7
  <2> QED
    BY <1>9, <2>1
<1>11. /\ Len(t.free) = n + 1 /\ t.free[n + 1] = x /\ n + 1 \in 1..(n + 1)
       /\ \A k \in 1..n : t.free[k] = q[k] /\ k \in 1..(n + 1)
       /\ \A k \in 1..(n + 1) : k \in 1..n \/ k = n + 1
  BY <1>1, <1>2, <1>3 DEF n
<1>12. \A k \in 1..(n + 1) : t.free[k] \in SlotsOf(t) /\ Index(Slot(t, t.free[k]).id) = INVALID_INDEX
  <2>1. \A k \in 1..n : q[k] \in SlotsOf(t) /\ Index(Slot(t, q[k]).id) = INVALID_INDEX
    BY <1>3, <1>4, <1>9, <1>10
  <2>2. x \in SlotsOf(t)
    BY <1>2, <1>4
  <2> QED
    BY <1>4, <1>11, <2>1, <2>2
<1>13. \A j, k \in 1..(n + 1) : t.free[j] = t.free[k] => j = k
  BY <1>9, <1>10, <1>11
<1>14. \A i \in SlotsOf(t) : Index(Slot(t, i).id) = INVALID_INDEX => \E k \in 1..(n + 1) : t.free[k] = i
  BY <1>3, <1>4, <1>9, <1>11
<1>15. Holding(t, H \ {h})
  BY <1>3, <1>6, <1>8, <1>11, <1>12, <1>13, <1>14 DEF Holding
<1> QED
  BY <1>3, <1>15 DEF x, SlotsKept

(* While no slot is free there are no more slots than entities.            *)
LEMMA NoneFree ==
  ASSUME NEW H, IsFiniteSet(H), NEW s, Holding(s, H), s.free = <<>>
  PROVE  Size(s) <= Cardinality(H)
<1>1. Size(s) \in Nat
  BY DEF Holding, SceneOK, Size
<1>2. \A i \in SlotsOf(s) : Slot(s, i).id \in H /\ Index(Slot(s, i).id) = i
  <2>1. Len(s.free) = 0
    OBVIOUS
  <2>2. \A i \in SlotsOf(s) : Index(Slot(s, i).id) # INVALID_INDEX
    BY <2>1 DEF Holding
  <2> QED
    BY <2>2 DEF Holding
<1> DEFINE f == [i \in SlotsOf(s) |-> Slot(s, i).id]
<1>3. f \in Injection(SlotsOf(s), H)
  <2>1. f \in [SlotsOf(s) -> H]
    BY <1>2
  <2>2. \A i, j \in SlotsOf(s) : f[i] = f[j] => i = j
    BY <1>2
  <2> HIDE DEF f
  <2> QED
    BY <2>1, <2>2 DEF Injection, IsInjective
<1>4. IsFiniteSet(SlotsOf(s)) /\ Cardinality(SlotsOf(s)) = Size(s)
  BY <1>1, FS_Interval DEF SlotsOf
<1>5. Cardinality(SlotsOf(s)) <= Cardinality(H)
  BY <1>3, <1>4, FS_Injection
<1> QED
  BY <1>4, <1>5

-----------------------------------------------------------------------------
(* What the game makes and does.                                           *)

LEMMA Types ==
  /\ Component = {"Tilemap", "Position", "TilemapRenderer", "Player", "Sprite", "SpriteAnimator"}
  /\ MAX_ENTITIES \in Nat /\ FRAME_DURATION \in Nat /\ MaxCreate \in Nat
BY GameAssumption, SceneAssumption DEF GameComponent

(* An animator and a sprite as ClientGameLayer makes them.                 *)
Walking == [frames : {WALK_ANIMATION}, time : 0..FRAME_DURATION, frame : 0..1]
Coloured == [palette : Palette, source : {WALK_ANIMATION[k] : k \in 1..2}]

(* The sprite in a slot shows the frame its animator is at.                *)
InStep(s, i) ==
  /\ i \in DOMAIN s.pool["Sprite"] /\ i \in DOMAIN s.pool["SpriteAnimator"]
  /\ s.pool["SpriteAnimator"][i] \in Walking
  /\ s.pool["Sprite"][i] \in Coloured
  /\ s.pool["Sprite"][i].source = WALK_ANIMATION[s.pool["SpriteAnimator"][i].frame + 1]

(* A change at one entity leaves the others in step.                       *)
LEMMA StepKept ==
  ASSUME NEW s, NEW t, NEW x, PoolsBut(s, t, x), NEW i, i # x
  PROVE  InStep(s, i) => InStep(t, i)
<1>1. \A T \in {"Sprite", "SpriteAnimator"} : i \in DOMAIN s.pool[T] => i \in DOMAIN t.pool[T] /\ t.pool[T][i] = s.pool[T][i]
  BY Types DEF PoolsBut
<1> QED
  BY <1>1 DEF InStep

(* A new entity becomes a player's where register_player says.             *)
LEMMA PlayerMade ==
  ASSUME NEW s, SceneOK(s), s.overrun = "none", NEW h, Index(h) \in SlotsOf(s), Index(h) < MAX_ENTITIES,
         Ready(s, "Player"), HasPool(s, "Position"), NEW place \in Place,
         NEW t, t = WriteComponent(AssignComponent(AssignComponent(s, h, "Player"),
                                                   h, "Position"), h, "Position", place)
  PROVE  /\ Within(s, t, h) /\ HasPool(t, "Player")
         /\ Gains(s, t, h, {"Player", "Position"})
         /\ Index(h) \in DOMAIN t.pool["Position"] /\ t.pool["Position"][Index(h)] = place
<1> DEFINE s1 == AssignComponent(s, h, "Player")
           s2 == AssignComponent(s1, h, "Position")
<1>0. "Player" \in Component /\ "Position" \in Component
  BY Types
<1>1. /\ Within(s, s1, h) /\ HasPool(s1, "Player")
      /\ Gains(s, s1, h, {"Player"})
  BY <1>0, AssignWithin
<1> HIDE DEF s1
<1>2. SceneOK(s1) /\ s1.overrun = "none" /\ Index(h) \in SlotsOf(s1) /\ HasPool(s1, "Position")
  BY <1>0, <1>1 DEF Within, SlotsOf, IdsGrow
<1>3. Ready(s1, "Position")
  BY <1>0, <1>2, PoolReady
<1>4. /\ Within(s1, s2, h)
      /\ Gains(s1, s2, h, {"Position"})
      /\ s2.pool = [s1.pool EXCEPT !["Position"] = Put(s1.pool["Position"], Index(h), Blank["Position"])]
      /\ DOMAIN s1.pool = Component
  BY <1>0, <1>2, <1>3, AssignWithin
<1> HIDE DEF s2
<1>11. Index(h) \in DOMAIN s2.pool["Position"] /\ "Position" \in Slot(s2, Index(h)).mask
  <2>1. s2.pool["Position"] = Put(s1.pool["Position"], Index(h), Blank["Position"])
    BY <1>0, <1>4
  <2> QED
    BY <1>4, <2>1 DEF Put, Gains
<1>5. /\ SceneOK(s2) /\ s2.overrun = "none" /\ Index(h) \in SlotsOf(s2)
      /\ HasPool(s2, "Position") /\ HasPool(s2, "Player")
  BY <1>0, <1>1, <1>2, <1>4 DEF Within, SlotsOf, IdsGrow
<1>6. t = WriteComponent(s2, h, "Position", place)
  BY DEF s1, s2
<1>7. /\ Within(s2, t, h) /\ t.entities = s2.entities
      /\ t.pool["Position"][Index(h)] = place
  BY <1>0, <1>5, <1>6, <1>11, WriteWithin
<1>12. /\ Slot(t, Index(h)).mask = Slot(s2, Index(h)).mask
       /\ Index(h) \in DOMAIN t.pool["Position"]
  BY <1>0, <1>7, <1>11 DEF Within, PoolsBut, Slot
<1>8. HasPool(t, "Player")
  BY <1>0, <1>5, <1>7 DEF Within, IdsGrow
<1>9. Within(s, s2, h)
  BY <1>1, <1>4, WithinTwice
<1>10. Within(s, t, h)
  BY <1>7, <1>9, WithinTwice
<1> QED
  BY <1>1, <1>4, <1>7, <1>8, <1>10, <1>12 DEF Gains

(* A client's player is drawn, at the first frame of his walk.             *)
LEMMA SpriteMade ==
  ASSUME NEW s, SceneOK(s), s.overrun = "none", NEW h, Index(h) \in SlotsOf(s), Index(h) < MAX_ENTITIES,
         Ordered(s), NEW palette \in Palette, NEW t, t = WithSprite(s, h, palette)
  PROVE  /\ Within(s, t, h) /\ HasPool(t, "Sprite") /\ HasPool(t, "SpriteAnimator") /\ InStep(t, Index(h))
         /\ Gains(s, t, h, {"Sprite", "SpriteAnimator"})
         /\ t.pool["Sprite"][Index(h)].palette = palette
         /\ t.pool["Position"] = s.pool["Position"]
<1> DEFINE sprite == [palette |-> palette, source |-> FirstSource]
           animator == [frames |-> WALK_ANIMATION, time |-> 0, frame |-> 0]
           s1 == AssignComponent(s, h, "Sprite")
           s2 == WriteComponent(s1, h, "Sprite", sprite)
           s3 == AssignComponent(s2, h, "SpriteAnimator")
<1>0. /\ "Sprite" \in Component /\ "SpriteAnimator" \in Component /\ "Position" \in Component
      /\ sprite.palette = palette
      /\ t = WriteComponent(s3, h, "SpriteAnimator", animator)
  BY Types DEF WithSprite
<1> HIDE DEF sprite, animator
<1>1. /\ Within(s, s1, h) /\ HasPool(s1, "Sprite")
      /\ Gains(s, s1, h, {"Sprite"})
      /\ s1.pool = [s.pool EXCEPT !["Sprite"] = Put(s.pool["Sprite"], Index(h), Blank["Sprite"])]
      /\ DOMAIN s.pool = Component
  <2>1. Ready(s, "Sprite")
    BY <1>0, OrderedReady
  <2> QED
    BY <1>0, <2>1, AssignWithin
<1> HIDE DEF s1
<1>2. /\ SceneOK(s1) /\ s1.overrun = "none" /\ Index(h) \in SlotsOf(s1) /\ Ordered(s1)
      /\ Index(h) \in DOMAIN s1.pool["Sprite"]
  <2>1. SceneOK(s1) /\ s1.overrun = "none" /\ Index(h) \in SlotsOf(s1) /\ Ordered(s1)
    BY <1>1 DEF Within, SlotsOf, IdsGrow
  <2>2. s1.pool["Sprite"] = Put(s.pool["Sprite"], Index(h), Blank["Sprite"])
    BY <1>0, <1>1
  <2> QED
    BY <2>1, <2>2 DEF Put
<1>3. /\ Within(s1, s2, h) /\ s2.entities = s1.entities
      /\ \A U \in Component \ {"Sprite"} : s2.pool[U] = s1.pool[U]
      /\ s2.pool["Sprite"][Index(h)] = sprite
  BY <1>0, <1>1, <1>2, WriteWithin DEF Gains
<1> HIDE DEF s2
<1>4. /\ SceneOK(s2) /\ s2.overrun = "none" /\ Index(h) \in SlotsOf(s2) /\ Ordered(s2)
      /\ Index(h) \in DOMAIN s2.pool["Sprite"]
      /\ HasPool(s2, "Sprite")
  BY <1>0, <1>1, <1>2, <1>3 DEF Within, SlotsOf, IdsGrow, PoolsBut
<1>5. /\ Within(s2, s3, h) /\ HasPool(s3, "SpriteAnimator")
      /\ Gains(s2, s3, h, {"SpriteAnimator"})
      /\ s3.pool = [s2.pool EXCEPT !["SpriteAnimator"] = Put(s2.pool["SpriteAnimator"], Index(h), Blank["SpriteAnimator"])]
      /\ DOMAIN s2.pool = Component
  <2>1. Ready(s2, "SpriteAnimator")
    BY <1>0, <1>4, OrderedReady
  <2> QED
    BY <1>0, <1>4, <2>1, AssignWithin
<1> HIDE DEF s3
<1>6. /\ SceneOK(s3) /\ s3.overrun = "none" /\ Index(h) \in SlotsOf(s3) /\ HasPool(s3, "Sprite")
      /\ Index(h) \in DOMAIN s3.pool["SpriteAnimator"]
      /\ s3.pool["Sprite"] = s2.pool["Sprite"]
  <2>1. SceneOK(s3) /\ s3.overrun = "none" /\ Index(h) \in SlotsOf(s3) /\ HasPool(s3, "Sprite")
    BY <1>0, <1>4, <1>5 DEF Within, SlotsOf, IdsGrow
  <2>2. /\ s3.pool["SpriteAnimator"] = Put(s2.pool["SpriteAnimator"], Index(h), Blank["SpriteAnimator"])
        /\ s3.pool["Sprite"] = s2.pool["Sprite"]
    BY <1>0, <1>5
  <2> QED
    BY <1>4, <2>1, <2>2 DEF Put
<1>7. /\ Within(s3, t, h) /\ t.entities = s3.entities
      /\ t.pool["Sprite"] = s3.pool["Sprite"] /\ t.pool["Position"] = s3.pool["Position"]
      /\ t.pool["SpriteAnimator"][Index(h)] = animator
  BY <1>0, <1>5, <1>6, WriteWithin DEF Gains
<1>8. Index(h) \in DOMAIN t.pool["SpriteAnimator"] /\ HasPool(t, "Sprite") /\ HasPool(t, "SpriteAnimator")
  BY <1>0, <1>5, <1>6, <1>7 DEF Within, PoolsBut, IdsGrow
<1>9. Within(s, t, h)
  <2>1. Within(s, s2, h)
    BY <1>1, <1>3, WithinTwice
  <2>2. Within(s, s3, h)
    BY <1>5, <2>1, WithinTwice
  <2> QED
    BY <1>7, <2>2, WithinTwice
<1>10. InStep(t, Index(h))
  <2>1. /\ Index(h) \in DOMAIN t.pool["Sprite"] /\ t.pool["Sprite"][Index(h)] = sprite
    BY <1>3, <1>4, <1>6, <1>7
  <2>2. WALK_ANIMATION[1] = FirstSource /\ 1 \in 1..2 /\ 0 + 1 = 1 /\ 0 \in 0..FRAME_DURATION
    BY Types DEF WALK_ANIMATION, FirstSource
  <2>3. sprite \in Coloured /\ sprite.source = WALK_ANIMATION[1]
    BY <2>2 DEF sprite, Coloured
  <2>4. animator \in Walking /\ animator.frame = 0
    BY <2>2 DEF animator, Walking
  <2> QED
    BY <1>7, <1>8, <2>1, <2>2, <2>3, <2>4 DEF InStep
<1>11. Gains(s, t, h, {"Sprite", "SpriteAnimator"})
  <2>1. Slot(t, Index(h)).mask = Slot(s3, Index(h)).mask /\ Slot(s2, Index(h)).mask = Slot(s1, Index(h)).mask
    BY <1>3, <1>7 DEF Slot
  <2> QED
    BY <1>1, <1>5, <2>1 DEF Gains
<1>12. t.pool["Position"] = s.pool["Position"]
  <2>1. s1.pool["Position"] = s.pool["Position"]
    BY <1>0, <1>1
  <2>2. s2.pool["Position"] = s1.pool["Position"]
    BY <1>0, <1>3
  <2>3. s3.pool["Position"] = s2.pool["Position"]
    BY <1>0, <1>5
  <2> QED
    BY <1>7, <2>1, <2>2, <2>3
<1>13. t.pool["Sprite"][Index(h)].palette = palette
  BY <1>0, <1>3, <1>6, <1>7
<1> QED
  BY <1>8, <1>9, <1>10, <1>11, <1>12, <1>13

(* A view that names types that all have an id.                            *)
LEMMA MentionAllKnown ==
  ASSUME NEW s, SceneOK(s), NEW Ts \in Seq(Component),
         \A k \in 1..Len(Ts) : s.componentId[Ts[k]] # NO_ID
  PROVE  MentionAll(s, Ts) = s
<1>1. PICK f : /\ f[0] = s /\ f[Len(Ts)] = MentionAll(s, Ts)
               /\ \A n \in 1..Len(Ts) : f[n] = Mention(f[n - 1], Ts[n])
  BY MentionAllChain
<1> DEFINE Wrong == {n \in 0..Len(Ts) : f[n] # s}
<1>2. Len(Ts) \in Nat
  OBVIOUS
<1>3. Wrong = {}
  <2> SUFFICES ASSUME Wrong # {}
               PROVE  FALSE
    OBVIOUS
  <2>1. Wrong \in SUBSET Nat
    BY <1>2
  <2>2. PICK n \in Wrong : \A k \in Wrong : n <= k
    <3> HIDE DEF Wrong
    <3> QED
      BY <2>1, First
  <2>3. n \in 1..Len(Ts) /\ f[n - 1] = s
    BY <1>1, <1>2, <2>2
  <2>4. f[n] = Mention(s, Ts[n])
    BY <1>1, <2>3
  <2>5. Mention(s, Ts[n]) = s
    BY <2>3 DEF Mention
  <2> QED
    BY <2>2, <2>4, <2>5
<1> QED
  BY <1>1, <1>2, <1>3

(* A view of one type.                                                     *)
LEMMA MentionOne ==
  ASSUME NEW s, NEW T \in Component
  PROVE  MentionAll(s, <<T>>) = Mention(s, T)
<1>1. PICK f : /\ f[0] = s /\ f[Len(<<T>>)] = MentionAll(s, <<T>>)
               /\ \A n \in 1..Len(<<T>>) : f[n] = Mention(f[n - 1], <<T>>[n])
  BY MentionAllChain
<1>2. Len(<<T>>) = 1 /\ 1 \in 1..1 /\ 1 - 1 = 0 /\ <<T>>[1] = T
  OBVIOUS
<1>3. f[1] = Mention(f[1 - 1], <<T>>[1])
  BY <1>1, <1>2
<1>4. f[1 - 1] = s
  BY <1>1, <1>2
<1> QED
  BY <1>1, <1>2, <1>3, <1>4, Zenon

(* An animator with its time and frame changed.                            *)
LEMMA AnimatorChange ==
  ASSUME NEW x \in Walking, NEW c \in 0..FRAME_DURATION, NEW d \in 0..1
  PROVE  /\ [x EXCEPT !.time = c, !.frame = d] \in Walking
         /\ [x EXCEPT !.time = c, !.frame = d].frame = d
BY DEF Walking

(* A tick of the animation leaves the sprite at its animator's frame.      *)
LEMMA TickKeeps ==
  ASSUME NEW delta \in Nat,
         NEW animator \in Walking,
         NEW sprite \in Coloured,
         sprite.source = WALK_ANIMATION[animator.frame + 1],
         NEW now, now = Tick(sprite, animator, delta)
  PROVE  /\ now.animator \in Walking
         /\ now.sprite \in Coloured
         /\ now.sprite.source = WALK_ANIMATION[now.animator.frame + 1]
         /\ now.sprite.palette = sprite.palette
<1> DEFINE frame == (animator.frame + 1) % Len(animator.frames)
<1>1. /\ animator.frames = WALK_ANIMATION /\ animator.time \in Nat /\ animator.frame \in 0..1
      /\ FRAME_DURATION \in Nat
  BY Types DEF Walking
<1>2. Len(WALK_ANIMATION) = 2
  BY DEF WALK_ANIMATION
<1>3. frame \in 0..1
  BY <1>1, <1>2
<1> HIDE DEF frame
<1>4. CASE animator.time + delta > FRAME_DURATION
  <2>1. now = [sprite |-> [sprite EXCEPT !.source = animator.frames[frame + 1]],
               animator |-> [animator EXCEPT !.time = 0, !.frame = frame]]
    BY <1>4 DEF Tick, frame
  <2>2. frame + 1 \in 1..2 /\ 0 \in 0..FRAME_DURATION
    BY <1>1, <1>3
  <2>3. now.animator \in Walking /\ now.animator.frame = frame
    <3>1. now.animator = [animator EXCEPT !.time = 0, !.frame = frame]
      BY <2>1
    <3>2. /\ [animator EXCEPT !.time = 0, !.frame = frame] \in Walking
          /\ [animator EXCEPT !.time = 0, !.frame = frame].frame = frame
      <4>1. animator \in Walking /\ 0 \in 0..FRAME_DURATION /\ frame \in 0..1
        BY <1>3, <2>2
      <4> QED
        BY <4>1, AnimatorChange
    <3> QED
      BY <3>1, <3>2, Zenon
  <2>4. /\ now.sprite \in Coloured
        /\ now.sprite.source = WALK_ANIMATION[frame + 1]
        /\ now.sprite.palette = sprite.palette
    BY <1>1, <2>1, <2>2 DEF Coloured
  <2> QED
    BY <2>3, <2>4
<1>5. CASE ~(animator.time + delta > FRAME_DURATION)
  <2>1. now.sprite = sprite /\ now.animator = [animator EXCEPT !.time = animator.time + delta]
    BY <1>5 DEF Tick
  <2>2. animator.time + delta \in 0..FRAME_DURATION
    BY <1>1, <1>5
  <2>3. /\ now.animator \in Walking
        /\ now.animator.frame = animator.frame
    BY <2>1, <2>2 DEF Walking
  <2> QED
    BY <2>1, <2>3
<1> QED
  BY <1>4, <1>5

(* A frame's animation.                                                    *)
LEMMA AnimatedFacts ==
  ASSUME NEW s, SceneOK(s), NEW delta \in Nat, NEW t, t = Animated(s, delta)
  PROVE  /\ SceneOK(t) /\ t.entities = s.entities /\ t.free = s.free /\ t.overrun = s.overrun
         /\ SameIds(s, t)
         /\ \A i : InStep(s, i) =>
              InStep(t, i) /\ t.pool["Sprite"][i].palette = s.pool["Sprite"][i].palette
         /\ \A T \in Component \ {"Sprite", "SpriteAnimator"} : t.pool[T] = s.pool[T]
<1> DEFINE At(i) == Tick(s.pool["Sprite"][i], s.pool["SpriteAnimator"][i], delta)
           on == Visited(s, {"Sprite", "SpriteAnimator"})
           sprites == [i \in DOMAIN s.pool["Sprite"] |-> IF i \in on THEN At(i).sprite ELSE s.pool["Sprite"][i]]
           animators == [i \in DOMAIN s.pool["SpriteAnimator"] |->
                           IF i \in on THEN At(i).animator ELSE s.pool["SpriteAnimator"][i]]
<1>1. /\ DOMAIN s = Fields /\ DOMAIN s.pool = Component
      /\ "Sprite" \in Component /\ "SpriteAnimator" \in Component
  BY Types DEF SceneOK
<1>2. t = [s EXCEPT !.pool["Sprite"] = sprites, !.pool["SpriteAnimator"] = animators]
  BY <1>1 DEF Animated, Fields
<1> HIDE DEF sprites, animators
<1>3. /\ DOMAIN t = Fields /\ t.entities = s.entities /\ t.free = s.free /\ t.overrun = s.overrun
      /\ t.componentId = s.componentId /\ t.counter = s.counter /\ t.poolsSize = s.poolsSize
  BY <1>1, <1>2 DEF Fields
<1>4. /\ DOMAIN t.pool = Component
      /\ t.pool["Sprite"] = sprites /\ t.pool["SpriteAnimator"] = animators
      /\ \A T \in Component \ {"Sprite", "SpriteAnimator"} : t.pool[T] = s.pool[T]
  BY <1>1, <1>2 DEF Fields
<1>5. SceneOK(t) /\ SameIds(s, t)
  BY <1>3, <1>4 DEF SceneOK, IdsOK, Mentioned, SameIds
<1>6. ASSUME NEW i, InStep(s, i)
      PROVE  InStep(t, i) /\ t.pool["Sprite"][i].palette = s.pool["Sprite"][i].palette
  <2>1. /\ i \in DOMAIN s.pool["Sprite"] /\ i \in DOMAIN s.pool["SpriteAnimator"]
        /\ s.pool["SpriteAnimator"][i] \in Walking
        /\ s.pool["Sprite"][i] \in Coloured
        /\ s.pool["Sprite"][i].source = WALK_ANIMATION[s.pool["SpriteAnimator"][i].frame + 1]
    BY <1>6 DEF InStep
  <2>2. /\ i \in DOMAIN t.pool["Sprite"] /\ i \in DOMAIN t.pool["SpriteAnimator"]
        /\ t.pool["Sprite"][i] = IF i \in on THEN At(i).sprite ELSE s.pool["Sprite"][i]
        /\ t.pool["SpriteAnimator"][i] = IF i \in on THEN At(i).animator ELSE s.pool["SpriteAnimator"][i]
    BY <1>4, <2>1 DEF sprites, animators
  <2>3. CASE i \in on
    <3>1. /\ At(i).animator \in Walking
          /\ At(i).sprite \in Coloured
          /\ At(i).sprite.source = WALK_ANIMATION[At(i).animator.frame + 1]
          /\ At(i).sprite.palette = s.pool["Sprite"][i].palette
      BY <2>1, TickKeeps
    <3> HIDE DEF At
    <3> QED
      BY <2>2, <2>3, <3>1 DEF InStep
  <2>4. CASE i \notin on
    <3> HIDE DEF At
    <3> QED
      BY <2>1, <2>2, <2>4 DEF InStep
  <2> QED
    BY <2>3, <2>4
<1> QED
  BY <1>3, <1>4, <1>5, <1>6

-----------------------------------------------------------------------------
(* The invariant.                                                          *)

Entities == {tilemap} \union {players[uid] : uid \in DOMAIN players}

StageInv ==
  /\ own \in Uid \union {NoUid} /\ DOMAIN players \subseteq Uid
  /\ stage \in {"built", "attached", "running"}
  /\ stage = "built" => DOMAIN players = {}

(* The scene s holds the tilemap and the players, each an entity of his    *)
(* own, has no more slots than there can be of them at once, and shows     *)
(* every player in his step.                                               *)
Peopled(s) ==
  /\ Holding(s, Entities) /\ s.overrun = "none"
  /\ Size(s) <= Cardinality(Uid) + 1
  /\ \A uid \in DOMAIN players : players[uid] # tilemap
  /\ \A uid, other \in DOMAIN players : players[uid] = players[other] => uid = other
  /\ \A uid \in DOMAIN players : IsClient => InStep(s, Index(players[uid]))

(* The ids are taken in an order in which every type finds its pool.       *)
IdsInv ==
  /\ stage = "built" => Ordered(scene)
  /\ stage # "built" => /\ HasPool(scene, "Position") /\ Ready(scene, "Player")
                        /\ IsClient => Ordered(scene) /\ \A T \in Component : HasPool(scene, T)
  /\ stage = "running" => scene.componentId["Player"] # NO_ID

GameInv == StageInv /\ Peopled(scene) /\ IdsInv

(* These say what the properties say.                                      *)
LEMMA GameInvImplies == GameInv => DestroysLive /\ PoolsInOrder /\ PlayersInStep
<1> SUFFICES ASSUME GameInv
             PROVE  DestroysLive /\ PoolsInOrder /\ PlayersInStep
  OBVIOUS
<1>1. /\ tilemap \in Entities /\ \A uid \in DOMAIN players : players[uid] \in Entities
      /\ \A h \in Entities : h = tilemap \/ \E uid \in DOMAIN players : h = players[uid]
  BY DEF Entities
<1>2. \A h \in Entities : Index(h) \in SlotsOf(scene) /\ Slot(scene, Index(h)).id = h /\ Index(h) # INVALID_INDEX
  <2>1. \A h \in Entities : Index(h) \in SlotsOf(scene) /\ Slot(scene, Index(h)).id = h /\ Size(scene) \in Nat
    BY DEF GameInv, Peopled, Holding, SceneOK, Size
  <2> QED
    BY <2>1 DEF SlotsOf, INVALID_INDEX
<1>3. DestroysLive
  <2>1. \A uid \in DOMAIN players : players[uid] # tilemap
    BY DEF GameInv, Peopled
  <2>2. \A uid, other \in DOMAIN players : players[uid] = players[other] => uid = other
    BY DEF GameInv, Peopled
  <2>3. \A g, h \in Entities : Index(g) = Index(h) => g = h
    BY <1>2
  <2> QED
    BY <1>1, <1>2, <2>1, <2>2, <2>3 DEF DestroysLive
<1>4. PoolsInOrder
  BY DEF GameInv, Peopled, PoolsInOrder
<1>5. NoGhosts
  <2> DEFINE valid == {i \in 0..(Size(scene) - 1) : IsEntityValid(Slot(scene, i).id)}
  <2>1. ASSUME NEW i \in valid
        PROVE  Slot(scene, i).id \in Entities /\ Index(Slot(scene, i).id) = i
    BY DEF GameInv, Peopled, Holding, SlotsOf, IsEntityValid
  <2>2. \A h \in Entities : Index(h) \in valid
    BY <1>2 DEF IsEntityValid, SlotsOf
  <2> HIDE DEF valid
  <2>3. {Index(players[uid]) : uid \in DOMAIN players} \union {Index(tilemap)} = valid
    BY <1>1, <2>1, <2>2
  <2> QED
    BY <2>3 DEF NoGhosts, valid
<1>6. AnimationInStep
  <2>1. ASSUME NEW uid \in DOMAIN players, IsClient
        PROVE  SpriteOf(uid).source = AnimatorOf(uid).frames[AnimatorOf(uid).frame + 1]
    <3>1. InStep(scene, Index(players[uid]))
      BY <2>1 DEF GameInv, Peopled
    <3>2. /\ SpriteOf(uid).source = WALK_ANIMATION[AnimatorOf(uid).frame + 1]
          /\ AnimatorOf(uid) \in Walking
      BY <3>1 DEF InStep, SpriteOf, AnimatorOf, Content
    <3>3. AnimatorOf(uid).frames = WALK_ANIMATION
      BY <3>2 DEF Walking
    <3> QED
      BY <3>2, <3>3
  <2> QED
    BY <2>1 DEF AnimationInStep
<1> QED
  BY <1>3, <1>4, <1>5, <1>6 DEF PlayersInStep

(* The layer is built with the tilemap's entity alone.                     *)
LEMMA EmptyHolds ==
  ASSUME NEW s, s = EmptyScene
  PROVE  Holding(s, {}) /\ s.overrun = "none" /\ Size(s) = 0 /\ s.free = <<>> /\ Ordered(s)
<1>1. /\ DOMAIN s = Fields /\ s.entities = <<>> /\ s.free = <<>> /\ s.poolsSize = 0
      /\ s.pool = [T \in Component |-> <<>>] /\ s.componentId = [T \in Component |-> NO_ID]
      /\ s.counter = 0 /\ s.overrun = "none"
  BY DEF EmptyScene, Fields
<1>2. Mentioned(s) = {} /\ Cardinality({}) = 0
  BY <1>1, FS_EmptySet DEF Mentioned
<1>3. IdsOK(s)
  BY <1>1, <1>2 DEF IdsOK, NO_ID
<1>4. SceneOK(s)
  BY <1>1, <1>3 DEF SceneOK
<1>5. Size(s) = 0 /\ Len(s.free) = 0 /\ SlotsOf(s) = {}
  BY <1>1 DEF Size, SlotsOf
<1> QED
  BY <1>1, <1>4, <1>5 DEF Holding, Ordered

LEMMA GameInvInit == GameSceneInit => GameInv
<1> SUFFICES ASSUME GameSceneInit
             PROVE  GameInv
  OBVIOUS
<1>1. /\ own \in Owns /\ players = <<>> /\ stage = "built"
      /\ scene = NewEntity(EmptyScene) /\ tilemap = NewHandle(EmptyScene)
  BY DEF GameSceneInit
<1>2. DOMAIN players = {} /\ Entities = {} \union {tilemap}
  BY <1>1 DEF Entities
<1>3. /\ Holding(EmptyScene, {}) /\ EmptyScene.overrun = "none" /\ Size(EmptyScene) = 0
      /\ EmptyScene.free = <<>> /\ Ordered(EmptyScene)
  BY EmptyHolds
<1>4. /\ Holding(scene, {} \union {tilemap}) /\ scene.overrun = "none" /\ SameIds(EmptyScene, scene)
      /\ Size(scene) = 0 + 1
  BY <1>1, <1>3, NewHolds
<1>5. Cardinality(Uid) \in Nat
  BY GameAssumption, FS_CardinalityType
<1>6. Ordered(scene)
  BY <1>3, <1>4 DEF Ordered, SameIds
<1>7. StageInv
  BY <1>1, <1>2, GameAssumption DEF StageInv
<1>8. Size(scene) <= Cardinality(Uid) + 1
  BY <1>4, <1>5
<1> QED
  BY <1>1, <1>2, <1>4, <1>6, <1>7, <1>8 DEF GameInv, Peopled, IdsInv

(* While a player is out of the table there are no more entities than      *)
(* uids.                                                                   *)
LEMMA RoomForOne ==
  ASSUME DOMAIN players \subseteq Uid, NEW uid \in Uid, uid \notin DOMAIN players
  PROVE  /\ IsFiniteSet(Entities) /\ Cardinality(Entities) <= Cardinality(Uid)
         /\ Cardinality(Uid) \in Nat /\ Cardinality(Uid) < MAX_ENTITIES
<1> DEFINE others == (Uid \ {uid}) \union {NoUid}
           f == [h \in Entities |-> IF h = tilemap THEN NoUid
                                    ELSE CHOOSE other \in DOMAIN players : players[other] = h]
<1>1. IsFiniteSet(Uid) /\ Cardinality(Uid) \in Nat /\ Cardinality(Uid) < MAX_ENTITIES /\ NoUid \notin Uid
  BY GameAssumption, FS_CardinalityType
<1>2. IsFiniteSet(Uid \ {uid}) /\ Cardinality(Uid \ {uid}) = Cardinality(Uid) - 1
  BY <1>1, FS_RemoveElement
<1>3. IsFiniteSet(others) /\ Cardinality(others) = Cardinality(Uid)
  <2>1. NoUid \notin Uid \ {uid}
    BY <1>1
  <2>2. IsFiniteSet(others) /\ Cardinality(others) = Cardinality(Uid \ {uid}) + 1
    BY <1>2, <2>1, FS_AddElement
  <2> HIDE DEF others
  <2> QED
    BY <1>1, <1>2, <2>2
<1>4. f \in Injection(Entities, others)
  <2>1. ASSUME NEW h \in Entities, h # tilemap
        PROVE  f[h] \in DOMAIN players /\ players[f[h]] = h
    <3>1. \E other \in DOMAIN players : players[other] = h
      BY <2>1 DEF Entities
    <3> QED
      BY <2>1, <3>1
  <2>2. tilemap \in Entities => f[tilemap] = NoUid
    OBVIOUS
  <2>3. DOMAIN f = Entities /\ f = [h \in Entities |-> f[h]]
    OBVIOUS
  <2> HIDE DEF f
  <2>4. \A h \in Entities : f[h] \in others
    BY <2>1, <2>2
  <2>5. \A g, h \in Entities : f[g] = f[h] => g = h
    BY <1>1, <2>1, <2>2
  <2>6. f \in [Entities -> others]
    BY <2>3, <2>4
  <2> QED
    BY <2>3, <2>5, <2>6 DEF Injection, IsInjective
<1> HIDE DEF f, others
<1>5. IsFiniteSet(Entities) /\ Cardinality(Entities) <= Cardinality(others)
  BY <1>3, <1>4, FS_Injection
<1> QED
  BY <1>1, <1>3, <1>5

-----------------------------------------------------------------------------
(* The steps.                                                              *)

(* A scene whose people are the same, the layer being as it was.           *)
LEMMA SamePeople ==
  ASSUME Peopled(scene'), UNCHANGED <<own, tilemap, players>>
  PROVE  Peopled(scene)'
BY DEF Peopled, Entities, IsClient

(* The entity in a slot looks as its player: it has a position and, on a   *)
(* client, a sprite of his colours.                                        *)
Dressed(s, i, palette) ==
  /\ "Position" \in Slot(s, i).mask
  /\ i \in DOMAIN s.pool["Position"] /\ s.pool["Position"][i] \in Place
  /\ IsClient => "Sprite" \in Slot(s, i).mask /\ s.pool["Sprite"][i].palette = palette

(* From s to t the entity in a slot stays where it is and as it looks.     *)
LookKept(s, t, i) ==
  /\ Slot(t, i).mask = Slot(s, i).mask
  /\ i \in DOMAIN s.pool["Position"] =>
       i \in DOMAIN t.pool["Position"] /\ t.pool["Position"][i] = s.pool["Position"][i]
  /\ InStep(s, i) => t.pool["Sprite"][i].palette = s.pool["Sprite"][i].palette

LEMMA DressedKept ==
  ASSUME NEW s, NEW t, NEW i, NEW palette, LookKept(s, t, i), Dressed(s, i, palette),
         IsClient => InStep(s, i)
  PROVE  Dressed(t, i, palette) /\ t.pool["Position"][i] = s.pool["Position"][i]
BY DEF Dressed, LookKept

(* What a change at one entity leaves as it looks.                         *)
LEMMA LookWithin ==
  ASSUME NEW s, NEW h, NEW t, Within(s, t, h), NEW i \in SlotsOf(s), i # Index(h)
  PROVE  LookKept(s, t, i)
<1>1. Slot(t, i) = Slot(s, i)
  BY DEF Within
<1>2. \A T \in {"Position", "Sprite"} : i \in DOMAIN s.pool[T] =>
        i \in DOMAIN t.pool[T] /\ t.pool[T][i] = s.pool[T][i]
  BY Types DEF Within, PoolsBut
<1> QED
  BY <1>1, <1>2 DEF LookKept, InStep

(* A player has joined: his new entity looks as he does, the others stay.  *)
Joined(s, t, h, place, palette) ==
  /\ Dressed(t, Index(h), palette) /\ t.pool["Position"][Index(h)] = place
  /\ \A g \in Entities : Index(g) \in SlotsOf(s) /\ Index(g) # Index(h)
  /\ \A i \in SlotsOf(s) : i # Index(h) => LookKept(s, t, i)

(* A change at one of the entities, which stays in step.                   *)
LEMMA PeopledWithin ==
  ASSUME NEW s, Peopled(s), NEW h \in Entities, NEW t, Within(s, t, h),
         InStep(s, Index(h)) => InStep(t, Index(h))
  PROVE  Peopled(t)
<1>1. Holding(t, Entities) /\ t.overrun = "none" /\ Size(t) = Size(s) /\ PoolsBut(s, t, Index(h))
  BY WithinHolds DEF Peopled, Within
<1>2. \A uid \in DOMAIN players : IsClient => InStep(t, Index(players[uid]))
  BY <1>1, StepKept DEF Peopled
<1> QED
  BY <1>1, <1>2 DEF Peopled

(* A player's entity is one of the scene's.                                *)
LEMMA PlayerFacts ==
  ASSUME NEW s, Peopled(s), NEW h \in Entities
  PROVE  SceneOK(s) /\ s.overrun = "none" /\ Index(h) \in SlotsOf(s) /\ Size(s) \in Nat
BY DEF Peopled, Holding, SceneOK, Size

(* on_attach gives the tilemap its components.                             *)
LEMMA TilemapMade ==
  ASSUME NEW s, SceneOK(s), s.overrun = "none", NEW h, Index(h) \in SlotsOf(s), Index(h) < MAX_ENTITIES,
         Ordered(s), NEW t, t = AssignComponent(AssignComponent(s, h, "Tilemap"), h, "Position")
  PROVE  /\ Within(s, t, h) /\ HasPool(t, "Tilemap") /\ HasPool(t, "Position")
         /\ SceneOK(t) /\ t.overrun = "none" /\ Index(h) \in SlotsOf(t) /\ Ordered(t)
         /\ Gains(s, t, h, {"Tilemap", "Position"})
<1> DEFINE s1 == AssignComponent(s, h, "Tilemap")
<1>0. "Tilemap" \in Component /\ "Position" \in Component
  BY Types
<1>1. /\ Within(s, s1, h) /\ HasPool(s1, "Tilemap")
      /\ Gains(s, s1, h, {"Tilemap"})
  <2>1. Ready(s, "Tilemap")
    BY <1>0, OrderedReady
  <2> QED
    BY <1>0, <2>1, AssignWithin
<1>2. t = AssignComponent(s1, h, "Position")
  OBVIOUS
<1> HIDE DEF s1
<1>3. SceneOK(s1) /\ s1.overrun = "none" /\ Index(h) \in SlotsOf(s1) /\ Ordered(s1)
  BY <1>1 DEF Within, SlotsOf, IdsGrow
<1>4. Ready(s1, "Position")
  BY <1>0, <1>3, OrderedReady
<1>5. /\ Within(s1, t, h) /\ HasPool(t, "Position")
      /\ Gains(s1, t, h, {"Position"})
  BY <1>0, <1>2, <1>3, <1>4, AssignWithin
<1>6. Within(s, t, h)
  BY <1>1, <1>5, WithinTwice
<1> QED
  BY <1>0, <1>1, <1>3, <1>5, <1>6 DEF Within, SlotsOf, IdsGrow, Gains

(* register_player of a uid that is not in the table: the new entity is    *)
(* the player's.                                                           *)
LEMMA JoinStep ==
  ASSUME NEW s, Peopled(s), StageInv, Ready(s, "Player"), HasPool(s, "Position"), IsClient => Ordered(s),
         NEW uid \in Uid, uid \notin DOMAIN players, NEW place \in Place, NEW palette \in Palette,
         Register(s, uid, place, palette), UNCHANGED <<own, tilemap>>
  PROVE  /\ Peopled(scene)' /\ IdsGrow(s, scene') /\ DOMAIN players' \subseteq Uid
         /\ HasPool(scene', "Player")
         /\ IsClient => HasPool(scene', "Sprite") /\ HasPool(scene', "SpriteAnimator")
         /\ Joined(s, scene', NewHandle(s), place, palette)
<1> DEFINE h == NewHandle(s)
           e == NewEntity(s)
           base == WithPlayer(s, h, place)
<1>0. /\ scene' = IF IsClient THEN WithSprite(base, h, palette) ELSE base
      /\ players' = Put(players, uid, h)
  BY DEF Register
<1>1. base = WriteComponent(AssignComponent(AssignComponent(e, h, "Player"), h, "Position"),
                            h, "Position", place)
  BY DEF WithPlayer
<1>2. Holding(s, Entities) /\ h = NewHandle(s) /\ e = NewEntity(s)
  BY DEF Peopled
<1> HIDE DEF h, e, base
<1>3. /\ Holding(e, Entities \union {h}) /\ h \notin Entities
      /\ Index(h) \in SlotsOf(e)
      /\ \A g \in Entities : Index(g) # Index(h)
      /\ e.pool = s.pool /\ e.overrun = s.overrun /\ SameIds(s, e)
      /\ IF s.free # <<>> THEN Size(e) = Size(s) /\ Index(h) \in SlotsOf(s)
         ELSE Size(e) = Size(s) + 1 /\ Index(h) = Size(s)
      /\ Size(s) \in Nat
      /\ Fresh(s, e, h)
  <2> DEFINE Made(H, hh, tt) ==
        /\ Holding(tt, H \union {hh}) /\ hh \notin H
        /\ Index(hh) \in SlotsOf(tt)
        /\ \A g \in H : Index(g) # Index(hh)
        /\ tt.pool = s.pool /\ tt.overrun = s.overrun /\ SameIds(s, tt)
        /\ IF s.free # <<>> THEN Size(tt) = Size(s) /\ Index(hh) \in SlotsOf(s)
           ELSE Size(tt) = Size(s) + 1 /\ Index(hh) = Size(s)
        /\ Size(s) \in Nat
        /\ Fresh(s, tt, hh)
  <2>1. \A H, hh, tt : Holding(s, H) /\ hh = NewHandle(s) /\ tt = NewEntity(s) => Made(H, hh, tt)
    BY NewHolds
  <2> HIDE DEF Made
  <2>2. Made(Entities, h, e)
    BY <1>2, <2>1, Zenon
  <2> QED
    BY <2>2 DEF Made
<1>4. Index(h) < MAX_ENTITIES /\ Size(e) <= Cardinality(Uid) + 1
  <2>1. /\ IsFiniteSet(Entities) /\ Cardinality(Entities) <= Cardinality(Uid)
        /\ Cardinality(Uid) \in Nat /\ Cardinality(Uid) < MAX_ENTITIES /\ MAX_ENTITIES \in Nat
    BY RoomForOne, Types DEF StageInv
  <2>2. CASE s.free # <<>>
    <3>1. Size(s) <= Cardinality(Uid) + 1
      BY DEF Peopled
    <3> QED
      BY <1>3, <2>1, <2>2, <3>1 DEF SlotsOf
  <2>3. CASE s.free = <<>>
    <3>1. Size(s) <= Cardinality(Entities) /\ Cardinality(Entities) \in Nat
      BY <2>1, <2>3, NoneFree, FS_CardinalityType DEF Peopled
    <3> QED
      BY <1>3, <2>1, <2>3, <3>1
  <2> QED
    BY <2>2, <2>3
<1>5. SceneOK(e) /\ e.overrun = "none" /\ Ready(e, "Player") /\ HasPool(e, "Position")
  BY <1>3 DEF Holding, Peopled, SameIds, Ready, HasPool
<1>6. /\ Within(e, base, h) /\ HasPool(base, "Player")
      /\ Gains(e, base, h, {"Player", "Position"})
      /\ Index(h) \in DOMAIN base.pool["Position"] /\ base.pool["Position"][Index(h)] = place
  BY <1>3, <1>1, <1>4, <1>5, PlayerMade
<1>7. IdsGrow(s, e)
  BY <1>3 DEF IdsGrow, SameIds, HasPool, Ordered
<1>8. /\ Within(e, scene', h) /\ HasPool(scene', "Player")
      /\ IsClient => /\ HasPool(scene', "Sprite") /\ HasPool(scene', "SpriteAnimator")
                     /\ InStep(scene', Index(h))
      /\ Dressed(scene', Index(h), palette) /\ scene'.pool["Position"][Index(h)] = place
  <2>1. CASE IsClient
    <3>1. SceneOK(base) /\ base.overrun = "none" /\ Index(h) \in SlotsOf(base) /\ Ordered(base)
      BY <1>3, <1>6, <1>7, <2>1 DEF Within, SlotsOf, IdsGrow
    <3>2. scene' = WithSprite(base, h, palette)
      BY <1>0, <2>1
    <3>3. /\ Within(base, scene', h) /\ HasPool(scene', "Sprite") /\ HasPool(scene', "SpriteAnimator")
          /\ InStep(scene', Index(h))
          /\ Gains(base, scene', h, {"Sprite", "SpriteAnimator"})
          /\ scene'.pool["Sprite"][Index(h)].palette = palette
          /\ scene'.pool["Position"] = base.pool["Position"]
      BY <1>4, <3>1, <3>2, SpriteMade
    <3>4. Within(e, scene', h)
      BY <1>5, <1>6, <3>3, WithinTwice
    <3>5. HasPool(scene', "Player")
      BY <1>6, <3>3, Types DEF Within, IdsGrow
    <3>6. Dressed(scene', Index(h), palette) /\ scene'.pool["Position"][Index(h)] = place
      BY <1>6, <3>3 DEF Dressed, Gains
    <3> QED
      BY <3>3, <3>4, <3>5, <3>6
  <2>2. CASE ~IsClient
    BY <1>0, <1>6, <2>2 DEF Dressed, Gains
  <2> QED
    BY <2>1, <2>2
<1>9. IdsGrow(s, scene')
  BY <1>7, <1>8 DEF Within, IdsGrow
<1>10. /\ DOMAIN players' = DOMAIN players \union {uid} /\ players'[uid] = h
      /\ \A other \in DOMAIN players : players'[other] = players[other]
  BY <1>0 DEF Put
<1>11. Entities' = Entities \union {h}
  BY <1>10 DEF Entities
<1>12. Holding(scene', Entities \union {h})
  BY <1>3, <1>8, WithinHolds
<1>13. \A other \in DOMAIN players : players[other] \in Entities /\ players[other] # h
  BY <1>3 DEF Entities
<1>14. ASSUME NEW other \in DOMAIN players, IsClient
       PROVE  InStep(scene', Index(players[other]))
  <2>1. InStep(s, Index(players[other]))
    BY <1>14 DEF Peopled
  <2>2. InStep(e, Index(players[other]))
    BY <1>3, <2>1 DEF InStep
  <2>3. Index(players[other]) # Index(h) /\ PoolsBut(e, scene', Index(h))
    BY <1>3, <1>8, <1>13 DEF Within
  <2> QED
    BY <2>2, <2>3, StepKept
<1>15. Size(scene') = Size(e) /\ scene'.overrun = "none"
  BY <1>8 DEF Within
<1>16. /\ \A other \in DOMAIN players' : players'[other] # tilemap'
       /\ \A a, b \in DOMAIN players' : players'[a] = players'[b] => a = b
  <2>1. h # tilemap
    BY <1>3 DEF Entities
  <2> QED
    BY <1>10, <1>13, <2>1 DEF Peopled
<1>17. \A other \in DOMAIN players' : IsClient' => InStep(scene', Index(players'[other]))
  BY <1>8, <1>10, <1>14 DEF IsClient
<1>18. Peopled(scene)'
  BY <1>4, <1>11, <1>12, <1>15, <1>16, <1>17 DEF Peopled
<1>19. Joined(s, scene', h, place, palette)
  <2>1. ASSUME NEW i \in SlotsOf(s), i # Index(h)
        PROVE  LookKept(s, scene', i)
    <3>1. i \in SlotsOf(e)
      BY <1>3 DEF SlotsOf
    <3>2. LookKept(e, scene', i)
      BY <1>8, <2>1, <3>1, LookWithin
    <3>3. Slot(e, i) = Slot(s, i)
      BY <1>3, <2>1 DEF Fresh, SlotsKept
    <3> QED
      BY <1>3, <3>2, <3>3 DEF LookKept, InStep
  <2>2. \A g \in Entities : Index(g) \in SlotsOf(s) /\ Index(g) # Index(h)
    BY <1>2, <1>3 DEF Holding
  <2> QED
    BY <1>8, <2>1, <2>2 DEF Joined
<1> QED
  BY <1>8, <1>9, <1>10, <1>18, <1>19 DEF StageInv, h

(* A change of the pools alone, which leaves every sprite in step.         *)
LEMMA PeopledSame ==
  ASSUME NEW s, Peopled(s), NEW t, SceneOK(t), t.entities = s.entities, t.free = s.free, t.overrun = s.overrun,
         \A i : InStep(s, i) => InStep(t, i)
  PROVE  Peopled(t)
<1>1. Size(t) = Size(s) /\ SlotsOf(t) = SlotsOf(s) /\ \A i : Slot(t, i) = Slot(s, i)
  BY DEF Size, SlotsOf, Slot
<1>2. Holding(t, Entities)
  BY <1>1 DEF Peopled, Holding
<1> QED
  BY <1>1, <1>2 DEF Peopled

(* While there is no player.                                               *)
LEMMA PeopledAlone ==
  ASSUME NEW s, Peopled(s), NEW t, Within(s, t, tilemap), DOMAIN players = {}
  PROVE  Peopled(t)
<1>1. Holding(t, Entities) /\ t.overrun = "none" /\ Size(t) = Size(s)
  <2>1. tilemap \in Entities
    BY DEF Entities
  <2> QED
    BY <2>1, WithinHolds DEF Peopled, Within
<1> QED
  BY <1>1 DEF Peopled

(* What on_attach leaves the tilemap with; it brings no sprite.            *)
Bare(s, t) == Slot(t, Index(tilemap)).mask
                \subseteq Slot(s, Index(tilemap)).mask \union {"Tilemap", "Position", "TilemapRenderer"}

(* The layer is attached: the tilemap is made and, on a client, its own    *)
(* player has joined.                                                      *)
Attached ==
  IF IsClient
  THEN \E s : \E place \in Place, palette \in Palette :
         /\ Peopled(s) /\ Bare(scene, s)
         /\ Register(s, own, place, palette) /\ Joined(s, scene', NewHandle(s), place, palette)
  ELSE Bare(scene, scene') /\ UNCHANGED <<players, infos>>

(* on_attach.                                                              *)
LEMMA AttachStep == GameInv /\ Attach => GameInv' /\ Attached
<1> SUFFICES ASSUME GameInv, Attach
             PROVE  GameInv' /\ Attached
  OBVIOUS
<1> DEFINE base == AssignComponent(AssignComponent(scene, tilemap, "Tilemap"), tilemap, "Position")
           full == AssignComponent(base, tilemap, "TilemapRenderer")
<1>1. /\ stage = "built" /\ stage' = "attached" /\ own' = own /\ tilemap' = tilemap
      /\ DOMAIN players = {} /\ Ordered(scene) /\ Peopled(scene) /\ own \in Uid \union {NoUid}
  BY DEF Attach, GameInv, StageInv, IdsInv
<1>2. SceneOK(scene) /\ scene.overrun = "none" /\ Index(tilemap) \in SlotsOf(scene) /\ Size(scene) \in Nat
  <2>1. tilemap \in Entities
    BY DEF Entities
  <2> QED
    BY <1>1, <2>1, PlayerFacts
<1>3. Index(tilemap) < MAX_ENTITIES
  <2>1. Size(scene) <= Cardinality(Uid) + 1
    BY <1>1 DEF Peopled
  <2>2. Cardinality(Uid) \in Nat /\ Cardinality(Uid) < MAX_ENTITIES /\ MAX_ENTITIES \in Nat
    BY Types, GameAssumption, FS_CardinalityType
  <2> QED
    BY <1>2, <2>1, <2>2 DEF SlotsOf
<1>4. /\ Within(scene, base, tilemap) /\ HasPool(base, "Tilemap") /\ HasPool(base, "Position")
      /\ SceneOK(base) /\ base.overrun = "none" /\ Index(tilemap) \in SlotsOf(base) /\ Ordered(base)
      /\ Gains(scene, base, tilemap, {"Tilemap", "Position"})
  BY <1>1, <1>2, <1>3, TilemapMade
<1>5. Attach => IF IsClient
                THEN \E place \in Place, palette \in Palette : Register(full, own, place, palette)
                ELSE scene' = base /\ UNCHANGED <<players, infos, created>>
  BY DEF Attach
<1> HIDE DEF base
<1>6. \A T \in {"Player", "TilemapRenderer"} : Ready(base, T)
  BY <1>4, OrderedReady, Types
<1>7. Peopled(base)
  BY <1>1, <1>4, PeopledAlone
<1>8. CASE ~IsClient
  <2>1. scene' = base /\ players' = players
    BY <1>5, <1>8
  <2>2. Peopled(scene)'
    <3>1. Peopled(scene')
      BY <1>7, <2>1
    <3> QED
      BY <1>1, <2>1, <3>1, SamePeople
  <2>3. StageInv'
    BY <1>1, <2>1 DEF StageInv
  <2>4. ~IsClient'
    BY <1>1, <1>8 DEF IsClient
  <2>5. IdsInv'
    BY <1>1, <1>4, <1>6, <2>1, <2>4 DEF IdsInv
  <2>6. Attached
    BY <1>4, <1>5, <1>8, <2>1 DEF Attached, Bare, Gains
  <2> QED
    BY <2>2, <2>3, <2>5, <2>6 DEF GameInv
<1>9. CASE IsClient
  <2>1. PICK place \in Place, palette \in Palette : Register(full, own, place, palette)
    BY <1>5, <1>9
  <2>2. /\ Within(base, full, tilemap) /\ HasPool(full, "TilemapRenderer")
        /\ Gains(base, full, tilemap, {"TilemapRenderer"})
    BY <1>3, <1>4, <1>6, Types, AssignWithin
  <2> HIDE DEF full
  <2>3. Peopled(full) /\ SceneOK(full) /\ Ordered(full)
    BY <1>1, <1>4, <1>7, <2>2, PeopledAlone DEF Within, IdsGrow
  <2>4. /\ HasPool(full, "Tilemap") /\ HasPool(full, "Position") /\ HasPool(full, "TilemapRenderer")
        /\ Ready(full, "Player")
    BY <1>4, <2>2, <2>3, OrderedReady, Types DEF Within, IdsGrow
  <2>5. own \in Uid /\ own \notin DOMAIN players /\ StageInv
    BY <1>1, <1>9 DEF IsClient, GameInv
  <2>6. /\ Peopled(scene)' /\ IdsGrow(full, scene') /\ DOMAIN players' \subseteq Uid
        /\ HasPool(scene', "Player")
        /\ HasPool(scene', "Sprite") /\ HasPool(scene', "SpriteAnimator")
        /\ Joined(full, scene', NewHandle(full), place, palette)
    BY <1>1, <1>9, <2>1, <2>3, <2>4, <2>5, JoinStep
  <2>7. /\ \A T \in Component : HasPool(scene', T)
        /\ Ordered(scene')
    BY <2>3, <2>4, <2>6, Types DEF IdsGrow
  <2>8. Ready(scene', "Player")
    BY <2>6, <2>7, PoolReady, Types DEF Peopled, Holding
  <2>9. StageInv'
    BY <1>1, <2>6 DEF StageInv
  <2>10. IdsInv'
    BY <1>1, <2>7, <2>8, Types DEF IdsInv
  <2>11. Bare(scene, full)
    BY <1>4, <2>2 DEF Bare, Gains
  <2>12. Attached
    BY <1>9, <2>1, <2>3, <2>6, <2>11 DEF Attached
  <2> QED
    BY <2>6, <2>9, <2>10, <2>12 DEF GameInv
<1> QED
  BY <1>8, <1>9

(* on_update.                                                              *)
LEMMA UpdateStep == GameInv /\ Update => GameInv'
<1> SUFFICES ASSUME GameInv, Update
             PROVE  GameInv'
  OBVIOUS
<1>1. /\ stage # "built" /\ stage' = "running" /\ UNCHANGED <<own, tilemap, players>>
      /\ Peopled(scene) /\ HasPool(scene, "Position") /\ Ready(scene, "Player")
      /\ IsClient => Ordered(scene) /\ \A T \in Component : HasPool(scene, T)
      /\ "Player" \in Component /\ "Position" \in Component
  BY Types DEF Update, GameInv, IdsInv
<1>2. SceneOK(scene)
  BY <1>1 DEF Peopled, Holding
<1>3. scene' = Mention(scene, "Player")
  BY <1>1, MentionOne DEF Update
<1>4. /\ SceneOK(scene') /\ SameEntities(scene, scene') /\ scene'.poolsSize = scene.poolsSize
      /\ scene'.componentId["Player"] \in 0..(scene'.counter - 1) /\ scene.counter \in Nat
      /\ IF scene.componentId["Player"] # NO_ID THEN scene' = scene
         ELSE /\ scene'.componentId = [scene.componentId EXCEPT !["Player"] = scene.counter]
              /\ scene'.counter = scene.counter + 1
  BY <1>1, <1>2, <1>3, MentionFacts
<1>5. Peopled(scene)'
  <2>1. \A i : InStep(scene, i) => InStep(scene', i)
    BY <1>4 DEF SameEntities, InStep
  <2>2. Peopled(scene')
    BY <1>1, <1>4, <2>1, PeopledSame DEF SameEntities
  <2> QED
    BY <1>1, <2>2, SamePeople
<1>6. StageInv'
  BY <1>1 DEF GameInv, StageInv
<1>7. scene'.componentId["Player"] # NO_ID
  BY <1>4 DEF NO_ID
<1>8. HasPool(scene', "Position") /\ Ready(scene', "Player")
  <2>1. CASE scene.componentId["Player"] # NO_ID
    BY <1>1, <1>4, <2>1
  <2>2. CASE scene.componentId["Player"] = NO_ID
    <3>1. scene.counter = scene.poolsSize
      BY <1>1, <2>2 DEF Ready
    <3>2. /\ scene'.componentId["Player"] = scene'.poolsSize
          /\ scene'.componentId["Position"] = scene.componentId["Position"]
      BY <1>1, <1>2, <1>4, <2>2, <3>1 DEF SceneOK, IdsOK
    <3>3. scene'.poolsSize \in Nat
      BY <1>4 DEF SceneOK, IdsOK
    <3> QED
      BY <1>1, <1>4, <1>7, <3>2, <3>3 DEF HasPool, Ready
  <2> QED
    BY <2>1, <2>2
<1>9. IsClient' => Ordered(scene') /\ \A T \in Component : HasPool(scene', T)
  <2>1. IsClient => scene.componentId["Player"] # NO_ID
    BY <1>1, <1>2, PoolReady
  <2> QED
    BY <1>1, <1>4, <2>1 DEF IsClient
<1>10. IdsInv'
  BY <1>1, <1>7, <1>8, <1>9 DEF IdsInv
<1> QED
  BY <1>5, <1>6, <1>10 DEF GameInv

(* The ids stay when no type is asked for that has none.                   *)
LEMMA IdsSame ==
  ASSUME IdsInv, SameIds(scene, scene'), UNCHANGED <<own, stage>>
  PROVE  IdsInv'
BY DEF IdsInv, SameIds, Ordered, HasPool, Ready, IsClient

(* A player who is in the table is not registered again.                   *)
LEMMA RegisterStep ==
  ASSUME GameInv, NEW uid \in Uid, NEW place \in Place, NEW palette \in Palette,
         RegisterPlayer(uid, place, palette)
  PROVE  GameInv'
<1>1. /\ stage = "running" /\ Register(scene, uid, place, palette) /\ UNCHANGED <<own, tilemap, stage>>
      /\ Peopled(scene) /\ StageInv /\ IdsInv
  BY DEF RegisterPlayer, GameInv
<1>2. CASE uid \in DOMAIN players
  <2>1. scene' = scene /\ players' = players
    BY <1>1, <1>2 DEF Register
  <2>2. Peopled(scene)'
    <3>1. Peopled(scene')
      BY <1>1, <2>1
    <3> QED
      BY <1>1, <2>1, <3>1, SamePeople
  <2>3. IdsInv'
    BY <1>1, <2>1, IdsSame DEF SameIds
  <2>4. StageInv'
    BY <1>1, <2>1 DEF StageInv
  <2> QED
    BY <2>2, <2>3, <2>4 DEF GameInv
<1>3. CASE uid \notin DOMAIN players
  <2>1. /\ HasPool(scene, "Position") /\ Ready(scene, "Player")
        /\ IsClient => Ordered(scene) /\ \A T \in Component : HasPool(scene, T)
    BY <1>1 DEF IdsInv
  <2>2. /\ Peopled(scene)' /\ IdsGrow(scene, scene') /\ DOMAIN players' \subseteq Uid
        /\ HasPool(scene', "Player")
    BY <1>1, <1>3, <2>1, JoinStep
  <2>3. SceneOK(scene')
    BY <2>2 DEF Peopled, Holding
  <2>4. Ready(scene', "Player") /\ scene'.componentId["Player"] # NO_ID
    BY <2>2, <2>3, PoolReady, Types
  <2>5. /\ HasPool(scene', "Position")
        /\ IsClient' => Ordered(scene') /\ \A T \in Component : HasPool(scene', T)
    BY <1>1, <2>1, <2>2, Types DEF IdsGrow, IsClient
  <2>6. IdsInv'
    BY <1>1, <2>4, <2>5 DEF IdsInv
  <2>7. StageInv'
    BY <1>1, <2>2 DEF StageInv
  <2> QED
    BY <2>2, <2>6, <2>7 DEF GameInv
<1> QED
  BY <1>2, <1>3

(* A player who leaves takes his entity, and nobody else's, with him.      *)
LEMMA DeregisterStep ==
  ASSUME GameInv, NEW uid \in Uid, DeregisterPlayer(uid)
  PROVE  GameInv'
<1> DEFINE h == players[uid]
<1>1. /\ stage = "running" /\ uid \in DOMAIN players /\ UNCHANGED <<own, tilemap, stage>>
      /\ scene' = DestroyEntity(scene, h)
      /\ Peopled(scene) /\ StageInv /\ IdsInv
  BY DEF DeregisterPlayer, GameInv
<1>2. /\ DOMAIN players' = DOMAIN players \ {uid}
      /\ \A other \in DOMAIN players' : players'[other] = players[other]
  BY DEF DeregisterPlayer, Restrict
<1>3. h \in Entities /\ Holding(scene, Entities)
  BY <1>1 DEF Entities, Peopled
<1>4. Entities' = Entities \ {h}
  <2>1. h # tilemap /\ \A other \in DOMAIN players : players[other] = h => other = uid
    BY <1>1 DEF Peopled
  <2> HIDE DEF h
  <2>2. \A g : g \in Entities' <=> g = tilemap \/ \E other \in DOMAIN players' : g = players[other]
    BY <1>1, <1>2 DEF Entities
  <2>3. \A g : g \in Entities <=> g = tilemap \/ \E other \in DOMAIN players : g = players[other]
    BY DEF Entities
  <2>4. players[uid] = h
    BY DEF h
  <2> QED
    BY <1>2, <2>1, <2>2, <2>3, <2>4
<1> HIDE DEF h
<1>5. /\ Holding(scene', Entities \ {h})
      /\ scene'.pool = scene.pool /\ scene'.overrun = scene.overrun /\ SameIds(scene, scene')
      /\ Size(scene') = Size(scene)
  BY <1>1, <1>3, DestroyHolds
<1>6. \A i : InStep(scene, i) => InStep(scene', i)
  BY <1>5 DEF InStep
<1>7. Peopled(scene)'
  <2>1. Holding(scene', Entities')
    BY <1>4, <1>5
  <2>2. \A other \in DOMAIN players' : other \in DOMAIN players /\ players'[other] = players[other]
    BY <1>2
  <2> QED
    BY <1>1, <1>5, <1>6, <2>1, <2>2 DEF Peopled, IsClient
<1>8. IdsInv'
  BY <1>1, <1>5, IdsSame
<1>9. StageInv'
  BY <1>1, <1>2 DEF StageInv
<1> QED
  BY <1>7, <1>8, <1>9 DEF GameInv

(* A player who moves changes his own position alone.                      *)
LEMMA MoveStep ==
  ASSUME GameInv, NEW uid \in Uid, NEW place \in Place, MovePlayer(uid, place)
  PROVE  GameInv'
<1> DEFINE h == players[uid]
<1>1. /\ stage = "running" /\ uid \in DOMAIN players /\ UNCHANGED <<own, tilemap, players, stage>>
      /\ scene' = WriteComponent(scene, h, "Position", place)
      /\ Peopled(scene) /\ StageInv /\ IdsInv /\ HasPool(scene, "Position")
  BY DEF MovePlayer, GameInv, IdsInv
<1>2. h \in Entities
  BY <1>1 DEF Entities
<1> HIDE DEF h
<1>3. SceneOK(scene) /\ scene.overrun = "none" /\ Index(h) \in SlotsOf(scene)
  BY <1>1, <1>2, PlayerFacts
<1>4. /\ Within(scene, scene', h) /\ SameIds(scene, scene')
      /\ \A U \in Component \ {"Position"} : scene'.pool[U] = scene.pool[U]
  BY <1>1, <1>3, Types, WriteWithin
<1>5. InStep(scene, Index(h)) => InStep(scene', Index(h))
  <2>1. scene'.pool["Sprite"] = scene.pool["Sprite"] /\ scene'.pool["SpriteAnimator"] = scene.pool["SpriteAnimator"]
    BY <1>4, Types
  <2> QED
    BY <2>1 DEF InStep
<1>6. Peopled(scene')
  BY <1>1, <1>2, <1>4, <1>5, PeopledWithin
<1>7. Peopled(scene)'
  BY <1>1, <1>6, SamePeople
<1>8. IdsInv'
  BY <1>1, <1>4, IdsSame
<1>9. StageInv'
  BY <1>1 DEF StageInv
<1> QED
  BY <1>7, <1>8, <1>9 DEF GameInv

(* on_draw: all its types have ids, and the animation moves the sprites    *)
(* and their animators together.                                           *)
LEMMA DrawStep ==
  ASSUME GameInv, NEW delta \in Deltas, Draw(delta)
  PROVE  GameInv' /\ scene' = Animated(scene, delta)
<1> DEFINE Ts == <<"Tilemap", "TilemapRenderer", "Position", "Sprite", "SpriteAnimator">>
<1>1. /\ stage = "running" /\ IsClient /\ UNCHANGED <<own, tilemap, players, stage>>
      /\ scene' = Animated(MentionAll(scene, Ts), delta)
      /\ Peopled(scene) /\ StageInv /\ IdsInv
      /\ \A T \in Component : HasPool(scene, T)
  BY DEF Draw, GameInv, IdsInv
<1>2. SceneOK(scene)
  BY <1>1 DEF Peopled, Holding
<1>3. \A T \in Component : scene.componentId[T] # NO_ID
  BY <1>1, <1>2, PoolReady
<1>4. Ts \in Seq(Component) /\ \A k \in 1..Len(Ts) : Ts[k] \in Component
  BY Types
<1> HIDE DEF Ts
<1>5. MentionAll(scene, Ts) = scene
  BY <1>2, <1>3, <1>4, MentionAllKnown
<1>6. delta \in Nat
  BY GameAssumption
<1>12. scene' = Animated(scene, delta)
  BY <1>1, <1>5
<1>7. /\ SceneOK(scene') /\ scene'.entities = scene.entities /\ scene'.free = scene.free
      /\ scene'.overrun = scene.overrun /\ SameIds(scene, scene')
      /\ \A i : InStep(scene, i) => InStep(scene', i)
  BY <1>2, <1>6, <1>12, AnimatedFacts
<1>8. Peopled(scene')
  BY <1>1, <1>7, PeopledSame
<1>9. Peopled(scene)'
  BY <1>1, <1>8, SamePeople
<1>10. IdsInv'
  BY <1>1, <1>7, IdsSame
<1>11. StageInv'
  BY <1>1 DEF StageInv
<1> QED
  BY <1>9, <1>10, <1>11, <1>12 DEF GameInv

LEMMA GameInvStep == GameInv /\ [GameSceneNext]_gameSceneVars => GameInv'
<1> SUFFICES ASSUME GameInv, [GameSceneNext]_gameSceneVars
             PROVE  GameInv'
  OBVIOUS
<1>1. CASE Attach
  BY <1>1, AttachStep
<1>2. CASE Update
  BY <1>2, UpdateStep
<1>3. ASSUME NEW uid \in Uid, NEW place \in Place, NEW palette \in Palette,
             RegisterPlayer(uid, place, palette)
      PROVE  GameInv'
  BY <1>3, RegisterStep
<1>4. ASSUME NEW uid \in Uid, DeregisterPlayer(uid)
      PROVE  GameInv'
  BY <1>4, DeregisterStep
<1>5. ASSUME NEW uid \in Uid, NEW place \in Place, MovePlayer(uid, place)
      PROVE  GameInv'
  BY <1>5, MoveStep
<1>6. CASE DrawFrame
  <2>1. PICK delta \in Deltas : Draw(delta)
    BY <1>6 DEF DrawFrame
  <2> QED
    BY <2>1, DrawStep
<1>7. CASE UNCHANGED gameSceneVars
  <2>1. UNCHANGED <<own, scene, tilemap, players, stage>>
    BY <1>7 DEF gameSceneVars
  <2>2. Peopled(scene)'
    <3>1. Peopled(scene')
      BY <2>1 DEF GameInv
    <3> QED
      BY <2>1, <3>1, SamePeople
  <2>3. IdsInv'
    BY <2>1, IdsSame DEF SameIds, GameInv
  <2>4. StageInv'
    BY <2>1 DEF GameInv, StageInv
  <2> QED
    BY <2>2, <2>3, <2>4 DEF GameInv
<1> QED
  BY <1>1, <1>2, <1>3, <1>4, <1>5, <1>6, <1>7 DEF GameSceneNext

-----------------------------------------------------------------------------
(* The table of players.                                                   *)

(* Every player has his colours and an entity that looks as he does, and   *)
(* the tilemap has no sprite.                                              *)
Looks(s) ==
  /\ DOMAIN infos = DOMAIN players
  /\ \A uid \in DOMAIN players : infos[uid] \in Palette
  /\ \A uid \in DOMAIN players : Dressed(s, Index(players[uid]), infos[uid])
  /\ "Sprite" \notin Slot(s, Index(tilemap)).mask

TableStep == [PlayerTable!TableNext]_(PlayerTable!tableVars)

(* Where nobody comes, moves or goes the table stays.                      *)
LEMMA RosterSame ==
  ASSUME UNCHANGED <<players, infos>>, \A uid \in DOMAIN players : PlaceOf(uid)' = PlaceOf(uid)
  PROVE  Roster' = Roster
BY DEF Roster

(* Between frames the picture does.                                        *)
LEMMA ShownSame == drawn' = drawn => Shown' = Shown
BY DEF Shown

(* The entities of the game are in its slots.                              *)
LEMMA EntitySlots ==
  ASSUME NEW s, Peopled(s)
  PROVE  /\ Index(tilemap) \in SlotsOf(s)
         /\ \A uid \in DOMAIN players : Index(players[uid]) \in SlotsOf(s)
         /\ \A uid \in DOMAIN players : Index(players[uid]) # Index(tilemap)
         /\ \A uid, other \in DOMAIN players : Index(players[uid]) = Index(players[other]) => uid = other
<1>1. tilemap \in Entities /\ \A uid \in DOMAIN players : players[uid] \in Entities
  BY DEF Entities
<1>2. \A h \in Entities : Index(h) \in SlotsOf(s) /\ Slot(s, Index(h)).id = h
  BY DEF Peopled, Holding
<1>3. \A g, h \in Entities : Index(g) = Index(h) => g = h
  BY <1>2
<1> QED
  BY <1>1, <1>2, <1>3 DEF Peopled

(* A step that keeps all looks.                                            *)
LEMMA LooksSame ==
  ASSUME Peopled(scene), Looks(scene), UNCHANGED <<own, tilemap, players, infos>>,
         \A i \in SlotsOf(scene) : LookKept(scene, scene', i)
  PROVE  Looks(scene)' /\ Roster' = Roster
<1>1. /\ Index(tilemap) \in SlotsOf(scene)
      /\ \A uid \in DOMAIN players : Index(players[uid]) \in SlotsOf(scene)
  BY EntitySlots
<1>2. ASSUME NEW uid \in DOMAIN players
      PROVE  /\ Dressed(scene', Index(players[uid]), infos[uid])
             /\ scene'.pool["Position"][Index(players[uid])] = scene.pool["Position"][Index(players[uid])]
  <2>1. IsClient => InStep(scene, Index(players[uid]))
    BY DEF Peopled
  <2>2. Dressed(scene, Index(players[uid]), infos[uid])
    BY DEF Looks
  <2> QED
    BY <1>1, <2>1, <2>2, DressedKept
<1>3. \A uid \in DOMAIN players' : Dressed(scene, Index(players[uid]), infos[uid])'
  BY <1>2 DEF Dressed, IsClient
<1>4. "Sprite" \notin Slot(scene', Index(tilemap)).mask
  BY <1>1 DEF Looks, LookKept
<1>5. Looks(scene)'
  BY <1>3, <1>4 DEF Looks
<1>6. \A uid \in DOMAIN players : PlaceOf(uid)' = PlaceOf(uid)
  BY <1>2 DEF PlaceOf, Content
<1> QED
  BY <1>5, <1>6, RosterSame

(* A player joins.                                                         *)
LEMMA JoinLooks ==
  ASSUME NEW s, Peopled(s), Looks(s), NEW uid \in Uid, uid \notin DOMAIN players, NEW place \in Place,
         NEW palette \in Palette, Register(s, uid, place, palette),
         Joined(s, scene', NewHandle(s), place, palette), UNCHANGED <<own, tilemap, drawn>>,
         \A other \in DOMAIN players : Content(s, players[other], "Position") = PlaceOf(other)
  PROVE  Looks(scene)' /\ PlayerTable!Join(uid, place, palette)
<1> DEFINE h == NewHandle(s)
<1>1. players' = Put(players, uid, h) /\ infos' = Put(infos, uid, palette)
  BY DEF Register
<1>2. Joined(s, scene', h, place, palette)
  OBVIOUS
<1> HIDE DEF h
<1>3. /\ DOMAIN players' = DOMAIN players \union {uid} /\ players'[uid] = h /\ infos'[uid] = palette
      /\ DOMAIN infos' = DOMAIN infos \union {uid} /\ DOMAIN infos = DOMAIN players
      /\ \A other \in DOMAIN players : players'[other] = players[other] /\ infos'[other] = infos[other]
  BY <1>1 DEF Put, Looks
<1>4. ASSUME NEW other \in DOMAIN players
      PROVE  /\ Dressed(scene', Index(players[other]), infos[other])
             /\ scene'.pool["Position"][Index(players[other])] = s.pool["Position"][Index(players[other])]
             /\ infos[other] \in Palette
  <2>1. LookKept(s, scene', Index(players[other]))
    BY <1>2 DEF Joined, Entities
  <2>2. IsClient => InStep(s, Index(players[other]))
    BY DEF Peopled
  <2>3. Dressed(s, Index(players[other]), infos[other])
    BY DEF Looks
  <2> QED
    BY <2>1, <2>2, <2>3, DressedKept DEF Looks
<1>5. \A other \in DOMAIN players' : Dressed(scene, Index(players[other]), infos[other])'
  <2>1. Dressed(scene', Index(h), palette)
    BY <1>2 DEF Joined
  <2>2. \A other \in DOMAIN players' : Dressed(scene', Index(players'[other]), infos'[other])
    BY <1>3, <1>4, <2>1
  <2> QED
    BY <2>2 DEF Dressed, IsClient
<1>6. "Sprite" \notin Slot(scene', Index(tilemap)).mask
  BY <1>2 DEF Joined, Entities, Looks, LookKept
<1>7. Looks(scene)'
  BY <1>3, <1>4, <1>5, <1>6 DEF Looks
<1>8. /\ PlaceOf(uid)' = place
      /\ \A other \in DOMAIN players : PlaceOf(other)' = PlaceOf(other)
  BY <1>2, <1>3, <1>4 DEF Joined, PlaceOf, Content
<1>9. Roster' = [u \in DOMAIN Roster \union {uid} |->
                   IF u = uid THEN [place |-> place, palette |-> palette] ELSE Roster[u]]
  BY <1>3, <1>8 DEF Roster
<1>10. uid \notin DOMAIN Roster
  BY DEF Roster
<1> QED
  BY <1>7, <1>9, <1>10, ShownSame DEF PlayerTable!Join

(* At first there is the tilemap alone, without a component.               *)
LEMMA LooksInit == GameSceneInit => Looks(scene) /\ PlayerTable!TableInit
<1> SUFFICES ASSUME GameSceneInit
             PROVE  Looks(scene) /\ PlayerTable!TableInit
  OBVIOUS
<1>1. /\ players = <<>> /\ infos = <<>> /\ drawn = <<>>
      /\ scene = NewEntity(EmptyScene) /\ tilemap = NewHandle(EmptyScene)
  BY DEF GameSceneInit
<1>2. DOMAIN players = {} /\ DOMAIN infos = {} /\ DOMAIN drawn = {}
  BY <1>1
<1>3. Fresh(EmptyScene, scene, tilemap)
  BY <1>1, EmptyHolds, NewHolds
<1>4. Looks(scene)
  BY <1>2, <1>3 DEF Looks, Fresh
<1>5. Roster = <<>>
  BY <1>2 DEF Roster
<1>6. Shown = [look \in PlayerTable!Looks |-> 0]
  <2>1. ASSUME NEW look \in PlayerTable!Looks
        PROVE  Cardinality({k \in DOMAIN drawn : drawn[k].place = look.place /\ drawn[k].palette = look.palette}) = 0
    <3>1. {k \in DOMAIN drawn : drawn[k].place = look.place /\ drawn[k].palette = look.palette} = {}
      BY <1>2
    <3> QED
      BY <3>1, FS_EmptySet
  <2> QED
    BY <2>1 DEF Shown, PlayerTable!Looks
<1> QED
  BY <1>4, <1>5, <1>6 DEF PlayerTable!TableInit

(* on_attach: a client's own player joins.                                 *)
LEMMA AttachLooks ==
  ASSUME GameInv, Looks(scene), Attach
  PROVE  Looks(scene)' /\ TableStep
<1>1. Attached /\ UNCHANGED <<own, tilemap, drawn>> /\ DOMAIN players = {} /\ own \in Uid \union {NoUid}
  BY AttachStep DEF Attach, GameInv, StageInv
<1>2. CASE IsClient
  <2>1. PICK s : \E place \in Place, palette \in Palette :
                   /\ Peopled(s) /\ Bare(scene, s)
                   /\ Register(s, own, place, palette) /\ Joined(s, scene', NewHandle(s), place, palette)
    BY <1>1, <1>2 DEF Attached
  <2>2. PICK place \in Place, palette \in Palette :
               /\ Peopled(s) /\ Bare(scene, s)
               /\ Register(s, own, place, palette) /\ Joined(s, scene', NewHandle(s), place, palette)
    BY <2>1
  <2>3. Looks(s)
    BY <1>1, <2>2 DEF Looks, Bare
  <2>4. own \in Uid /\ own \notin DOMAIN players
    BY <1>1, <1>2 DEF IsClient
  <2>5. Looks(scene)' /\ PlayerTable!Join(own, place, palette)
    BY <1>1, <2>2, <2>3, <2>4, JoinLooks
  <2> QED
    BY <2>4, <2>5 DEF TableStep, PlayerTable!TableNext
<1>3. CASE ~IsClient
  <2>1. UNCHANGED <<players, infos>> /\ Bare(scene, scene')
    BY <1>1, <1>3 DEF Attached
  <2>2. Looks(scene)'
    BY <1>1, <2>1 DEF Looks, Bare
  <2>3. Roster' = Roster
    BY <1>1, <2>1, RosterSame
  <2> QED
    BY <1>1, <2>2, <2>3, ShownSame DEF TableStep, PlayerTable!tableVars
<1> QED
  BY <1>2, <1>3

(* on_update: nothing is seen of it.                                       *)
LEMMA UpdateLooks ==
  ASSUME GameInv, Looks(scene), Update
  PROVE  Looks(scene)' /\ TableStep
<1>1. UNCHANGED <<own, tilemap, players, infos, drawn>> /\ Peopled(scene) /\ SceneOK(scene)
  BY DEF Update, GameInv, Peopled, Holding
<1>2. scene' = Mention(scene, "Player")
  BY Types, MentionOne DEF Update
<1>3. SameEntities(scene, scene')
  BY <1>1, <1>2, Types, MentionFacts
<1>4. \A i \in SlotsOf(scene) : LookKept(scene, scene', i)
  BY <1>3 DEF LookKept, SameEntities, Slot
<1> QED
  BY <1>1, <1>4, LooksSame, ShownSame DEF TableStep, PlayerTable!tableVars

(* register_player.                                                        *)
LEMMA RegisterLooks ==
  ASSUME GameInv, Looks(scene), NEW uid \in Uid, NEW place \in Place, NEW palette \in Palette,
         RegisterPlayer(uid, place, palette)
  PROVE  Looks(scene)' /\ TableStep
<1>1. /\ stage = "running" /\ Register(scene, uid, place, palette) /\ UNCHANGED <<own, tilemap, drawn>>
      /\ Peopled(scene) /\ StageInv /\ IdsInv
  BY DEF RegisterPlayer, GameInv
<1>2. CASE uid \in DOMAIN players
  <2>1. UNCHANGED <<scene, players, infos>>
    BY <1>1, <1>2 DEF Register
  <2>2. \A i \in SlotsOf(scene) : LookKept(scene, scene', i)
    BY <2>1 DEF LookKept
  <2> QED
    BY <1>1, <2>1, <2>2, LooksSame, ShownSame DEF TableStep, PlayerTable!tableVars
<1>3. CASE uid \notin DOMAIN players
  <2>1. HasPool(scene, "Position") /\ Ready(scene, "Player") /\ (IsClient => Ordered(scene))
    BY <1>1 DEF IdsInv
  <2>2. Joined(scene, scene', NewHandle(scene), place, palette)
    BY <1>1, <1>3, <2>1, JoinStep
  <2>3. \A other \in DOMAIN players : Content(scene, players[other], "Position") = PlaceOf(other)
    BY DEF PlaceOf
  <2>4. Looks(scene)' /\ PlayerTable!Join(uid, place, palette)
    BY <1>1, <1>3, <2>2, <2>3, JoinLooks
  <2> QED
    BY <2>4 DEF TableStep, PlayerTable!TableNext
<1> QED
  BY <1>2, <1>3

(* deregister_player: the other entities look as before.                   *)
LEMMA DeregisterLooks ==
  ASSUME GameInv, Looks(scene), NEW uid \in Uid, DeregisterPlayer(uid)
  PROVE  Looks(scene)' /\ TableStep
<1> DEFINE h == players[uid]
<1>1. /\ uid \in DOMAIN players /\ UNCHANGED <<own, tilemap, drawn>>
      /\ scene' = DestroyEntity(scene, h)
      /\ Peopled(scene) /\ Holding(scene, Entities) /\ h \in Entities
  BY DEF DeregisterPlayer, GameInv, Peopled, Entities
<1>2. /\ DOMAIN players' = DOMAIN players \ {uid} /\ DOMAIN infos' = DOMAIN infos \ {uid}
      /\ \A other \in DOMAIN players' : players'[other] = players[other]
      /\ \A other \in DOMAIN infos' : infos'[other] = infos[other]
      /\ DOMAIN infos = DOMAIN players
  BY DEF DeregisterPlayer, Restrict, Looks
<1> HIDE DEF h
<1>3. /\ scene'.pool = scene.pool
      /\ \A i \in SlotsOf(scene) : i # Index(h) => Slot(scene', i) = Slot(scene, i)
  <2>1. Holding(scene, Entities) /\ h \in Entities /\ scene' = DestroyEntity(scene, h)
    BY <1>1
  <2>2. Holding(scene', Entities \ {h}) /\ scene'.pool = scene.pool /\ SlotsKept(scene, scene', h)
    BY <2>1, DestroyHolds
  <2> QED
    BY <2>2 DEF SlotsKept
<1>4. /\ Index(tilemap) \in SlotsOf(scene) /\ Index(tilemap) # Index(h)
      /\ \A other \in DOMAIN players' : /\ Index(players[other]) \in SlotsOf(scene)
                                        /\ Index(players[other]) # Index(h)
  BY <1>1, <1>2, EntitySlots DEF h
<1>5. \A other \in DOMAIN players' : Dressed(scene, Index(players[other]), infos[other])'
  <2>1. \A other \in DOMAIN players' : Dressed(scene', Index(players'[other]), infos'[other])
    BY <1>2, <1>3, <1>4 DEF Dressed, Looks
  <2> QED
    BY <1>1, <2>1 DEF Dressed, IsClient
<1>6. Looks(scene)'
  BY <1>1, <1>2, <1>3, <1>4, <1>5 DEF Looks
<1>7. Roster' = [u \in DOMAIN Roster \ {uid} |-> Roster[u]]
  <2>1. \A other \in DOMAIN players' : PlaceOf(other)' = PlaceOf(other)
    BY <1>2, <1>3 DEF PlaceOf, Content
  <2> QED
    BY <1>2, <2>1 DEF Roster
<1>8. PlayerTable!Leave(uid)
  BY <1>1, <1>7, ShownSame DEF PlayerTable!Leave
<1> QED
  BY <1>6, <1>8 DEF TableStep, PlayerTable!TableNext

(* A player moves, and nobody with him.                                    *)
LEMMA MoveLooks ==
  ASSUME GameInv, Looks(scene), NEW uid \in Uid, NEW place \in Place, MovePlayer(uid, place)
  PROVE  Looks(scene)' /\ TableStep
<1> DEFINE h == players[uid]
<1>1. /\ uid \in DOMAIN players /\ UNCHANGED <<own, tilemap, players, infos, drawn>>
      /\ scene' = WriteComponent(scene, h, "Position", place)
      /\ Peopled(scene) /\ HasPool(scene, "Position") /\ h \in Entities
      /\ SceneOK(scene) /\ scene.overrun = "none" /\ Index(h) \in SlotsOf(scene)
  BY PlayerFacts DEF MovePlayer, GameInv, IdsInv, Entities
<1>2. /\ Within(scene, scene', h) /\ scene'.entities = scene.entities
      /\ \A U \in Component \ {"Position"} : scene'.pool[U] = scene.pool[U]
      /\ scene'.pool["Position"][Index(h)] = place /\ Index(h) \in DOMAIN scene'.pool["Position"]
  <2>1. "Position" \in Slot(scene, Index(h)).mask /\ Index(h) \in DOMAIN scene.pool["Position"]
    BY <1>1 DEF Looks, Dressed
  <2>2. /\ Within(scene, scene', h) /\ scene'.entities = scene.entities
        /\ \A U \in Component \ {"Position"} : scene'.pool[U] = scene.pool[U]
        /\ scene'.pool["Position"][Index(h)] = place
    BY <1>1, <2>1, Types, WriteWithin
  <2> QED
    BY <2>1, <2>2, Types DEF Within, PoolsBut
<1>3. scene'.pool["Sprite"] = scene.pool["Sprite"] /\ \A i : Slot(scene', i) = Slot(scene, i)
  BY <1>2, Types DEF Slot
<1>4. ASSUME NEW other \in DOMAIN players
      PROVE  /\ Dressed(scene', Index(players[other]), infos[other])
             /\ PlaceOf(other)' = IF other = uid THEN place ELSE PlaceOf(other)
  <2>1. Dressed(scene, Index(players[other]), infos[other])
    BY DEF Looks
  <2>2. CASE other = uid
    BY <1>1, <1>2, <1>3, <2>1, <2>2 DEF Dressed, PlaceOf, Content
  <2>3. CASE other # uid
    <3>1. Index(players[other]) # Index(h)
      BY <1>1, <2>3, EntitySlots
    <3>2. /\ Index(players[other]) \in DOMAIN scene'.pool["Position"]
          /\ scene'.pool["Position"][Index(players[other])] = scene.pool["Position"][Index(players[other])]
      BY <1>2, <2>1, <3>1, Types DEF Within, PoolsBut, Dressed
    <3> QED
      BY <1>1, <1>3, <2>1, <2>3, <3>2 DEF Dressed, PlaceOf, Content
  <2> QED
    BY <2>2, <2>3
<1>5. \A other \in DOMAIN players' : Dressed(scene, Index(players[other]), infos[other])'
  BY <1>1, <1>4 DEF Dressed, IsClient
<1>6. Looks(scene)'
  BY <1>1, <1>3, <1>5 DEF Looks
<1>7. Roster' = [Roster EXCEPT ![uid].place = place]
  BY <1>1, <1>4 DEF Roster
<1>8. PlayerTable!Move(uid, place)
  BY <1>1, <1>7, ShownSame DEF PlayerTable!Move, Roster
<1> QED
  BY <1>6, <1>8 DEF TableStep, PlayerTable!TableNext

(* What a frame draws is the players, each by the slot of his entity.      *)
LEMMA PictureOfPlayers ==
  ASSUME NEW s, Peopled(s), Looks(s), IsClient, NEW picture, picture = Pictured(s)
  PROVE  /\ \A i \in DOMAIN picture : \E uid \in DOMAIN players : i = Index(players[uid])
         /\ \A uid \in DOMAIN players :
              /\ Index(players[uid]) \in DOMAIN picture
              /\ picture[Index(players[uid])] =
                   [place |-> Content(s, players[uid], "Position"), palette |-> infos[uid],
                    source |-> Content(s, players[uid], "Sprite").source]
<1> DEFINE Ts == {"Position", "Sprite"}
<1>1. /\ DOMAIN picture = Visited(s, Ts)
      /\ \A i \in Visited(s, Ts) :
           picture[i] = [place |-> s.pool["Position"][i], palette |-> s.pool["Sprite"][i].palette,
                         source |-> s.pool["Sprite"][i].source]
  BY DEF Pictured
<1>2. \A i : i \in Visited(s, Ts) <=> /\ i \in SlotsOf(s) /\ Index(Slot(s, i).id) # INVALID_INDEX
                                      /\ Ts \subseteq Slot(s, i).mask
  BY DEF Visited, SlotsOf, Matches, IsEntityValid
<1>3. ASSUME NEW i \in Visited(s, Ts)
      PROVE  \E uid \in DOMAIN players : i = Index(players[uid])
  <2>1. Slot(s, i).id \in Entities /\ Index(Slot(s, i).id) = i
    BY <1>2 DEF Peopled, Holding
  <2>2. Slot(s, i).id # tilemap
    BY <1>2, <2>1 DEF Looks
  <2> QED
    BY <2>1, <2>2 DEF Entities
<1>4. ASSUME NEW uid \in DOMAIN players
      PROVE  /\ Index(players[uid]) \in Visited(s, Ts)
             /\ s.pool["Sprite"][Index(players[uid])].palette = infos[uid]
  <2>1. /\ Index(players[uid]) \in SlotsOf(s) /\ Slot(s, Index(players[uid])).id = players[uid]
        /\ Size(s) \in Nat
    BY DEF Peopled, Holding, Entities, SceneOK, Size
  <2>2. Index(players[uid]) # INVALID_INDEX
    BY <2>1 DEF SlotsOf, INVALID_INDEX
  <2>3. /\ Ts \subseteq Slot(s, Index(players[uid])).mask
        /\ s.pool["Sprite"][Index(players[uid])].palette = infos[uid]
    BY DEF Looks, Dressed
  <2> QED
    BY <1>2, <2>1, <2>2, <2>3
<1> HIDE DEF Ts
<1> QED
  BY <1>1, <1>3, <1>4 DEF Content

DrawnSo(picture, look) ==
  {k \in DOMAIN picture : picture[k].place = look.place /\ picture[k].palette = look.palette}
LookingSo(table, look) == {uid \in DOMAIN table : table[uid] = look}

(* So each look is drawn as often as the table has it.                     *)
LEMMA ShownOnce ==
  ASSUME NEW s, Peopled(s), NEW look, NEW picture,
         NEW table, DOMAIN table = DOMAIN players, DOMAIN players \subseteq Uid,
         \A i \in DOMAIN picture : \E uid \in DOMAIN players : i = Index(players[uid]),
         \A uid \in DOMAIN players : Index(players[uid]) \in DrawnSo(picture, look) <=> table[uid] = look
  PROVE  Cardinality(DrawnSo(picture, look)) = Cardinality(LookingSo(table, look))
<1> DEFINE drawnSo == DrawnSo(picture, look)
           looking == LookingSo(table, look)
           f == [uid \in looking |-> Index(players[uid])]
<1>1. \A uid, other \in DOMAIN players : Index(players[uid]) = Index(players[other]) => uid = other
  BY EntitySlots
<1>2. \A uid \in looking : uid \in DOMAIN players /\ f[uid] = Index(players[uid]) /\ f[uid] \in drawnSo
  BY DEF LookingSo
<1>3. \A i \in drawnSo : \E uid \in looking : f[uid] = i
  BY DEF LookingSo, DrawnSo
<1>4. IsFiniteSet(looking)
  BY GameAssumption, FS_Subset DEF LookingSo
<1>5. f = [uid \in looking |-> f[uid]] /\ DOMAIN f = looking
  OBVIOUS
<1> HIDE DEF f, looking, drawnSo
<1>6. f \in [looking -> drawnSo]
  BY <1>2, <1>5
<1>7. f \in Injection(looking, drawnSo)
  BY <1>1, <1>2, <1>6 DEF Injection, IsInjective
<1>8. f \in Surjection(looking, drawnSo)
  BY <1>3, <1>6 DEF Surjection
<1>9. ExistsBijection(looking, drawnSo)
  BY <1>7, <1>8 DEF ExistsBijection, Bijection
<1>10. Cardinality(drawnSo) = Cardinality(looking)
  BY <1>4, <1>9, FS_Bijection
<1> QED
  BY <1>10 DEF drawnSo, looking

(* on_draw shows the table.                                                *)
LEMMA DrawLooks ==
  ASSUME GameInv, Looks(scene), NEW delta \in Deltas, Draw(delta)
  PROVE  /\ Looks(scene)' /\ TableStep
         /\ \A k \in DOMAIN drawn' : \E uid \in DOMAIN players :
              drawn'[k] = [place |-> PlaceOf(uid)', palette |-> infos[uid], source |-> SpriteOf(uid)'.source]
<1>1. /\ UNCHANGED <<own, tilemap, players, infos>> /\ IsClient /\ drawn' = Pictured(scene')
      /\ Peopled(scene) /\ SceneOK(scene) /\ StageInv /\ Peopled(scene)' /\ scene' = Animated(scene, delta)
  BY DrawStep DEF Draw, GameInv, Peopled, Holding
<1>2. \A i \in SlotsOf(scene) : LookKept(scene, scene', i)
  <2>1. /\ scene'.entities = scene.entities
        /\ \A i : InStep(scene, i) =>
             InStep(scene', i) /\ scene'.pool["Sprite"][i].palette = scene.pool["Sprite"][i].palette
        /\ \A T \in Component \ {"Sprite", "SpriteAnimator"} : scene'.pool[T] = scene.pool[T]
    BY <1>1, AnimatedFacts, GameAssumption
  <2>2. scene'.pool["Position"] = scene.pool["Position"]
    BY <2>1, Types
  <2> QED
    BY <2>1, <2>2 DEF LookKept, Slot
<1>3. Looks(scene)' /\ Roster' = Roster
  BY <1>1, <1>2, LooksSame
<1>4. Peopled(scene') /\ Looks(scene')
  BY <1>1, <1>3 DEF Peopled, Looks, Entities, IsClient, Dressed
<1>5. /\ \A i \in DOMAIN drawn' : \E uid \in DOMAIN players : i = Index(players[uid])
      /\ \A uid \in DOMAIN players :
           /\ Index(players[uid]) \in DOMAIN drawn'
           /\ drawn'[Index(players[uid])] =
                [place |-> Content(scene', players[uid], "Position"), palette |-> infos[uid],
                 source |-> Content(scene', players[uid], "Sprite").source]
  BY <1>1, <1>4, PictureOfPlayers
<1>6. \A uid \in DOMAIN players :
        /\ Content(scene', players[uid], "Position") = PlaceOf(uid)'
        /\ Content(scene', players[uid], "Sprite") = SpriteOf(uid)'
        /\ Roster[uid] = [place |-> PlaceOf(uid)', palette |-> infos[uid]]
  BY <1>1, <1>3 DEF PlaceOf, SpriteOf, Roster
<1>7. DOMAIN Roster = DOMAIN players /\ DOMAIN players \subseteq Uid
  BY <1>1 DEF Roster, StageInv
<1>8. Shown' = [look \in PlayerTable!Looks |-> Cardinality({uid \in DOMAIN Roster : Roster[uid] = look})]
  <2>1. ASSUME NEW look \in PlayerTable!Looks
        PROVE  Cardinality(DrawnSo(drawn', look)) = Cardinality(LookingSo(Roster, look))
    <3>1. look = [place |-> look.place, palette |-> look.palette]
      BY DEF PlayerTable!Looks
    <3>2. ASSUME NEW uid \in DOMAIN players
          PROVE  Index(players[uid]) \in DrawnSo(drawn', look) <=> Roster[uid] = look
      <4>1. PICK place, palette, source :
              /\ Index(players[uid]) \in DOMAIN drawn'
              /\ drawn'[Index(players[uid])] = [place |-> place, palette |-> palette, source |-> source]
              /\ Roster[uid] = [place |-> place, palette |-> palette]
        <5>1. /\ Index(players[uid]) \in DOMAIN drawn'
              /\ drawn'[Index(players[uid])] =
                   [place |-> PlaceOf(uid)', palette |-> infos[uid], source |-> SpriteOf(uid)'.source]
          BY <1>5, <1>6
        <5>2. Roster[uid] = [place |-> PlaceOf(uid)', palette |-> infos[uid]]
          BY <1>6
        <5> QED
          BY <5>1, <5>2, Zenon
      <4>2. Index(players[uid]) \in DrawnSo(drawn', look) <=> place = look.place /\ palette = look.palette
        BY <4>1 DEF DrawnSo
      <4>3. Roster[uid] = look <=> place = look.place /\ palette = look.palette
        <5>1. Roster[uid].place = place /\ Roster[uid].palette = palette
          BY <4>1
        <5> QED
          BY <3>1, <4>1, <5>1
      <4> QED
        BY <4>2, <4>3
    <3> QED
      BY <1>4, <1>5, <1>7, <3>2, ShownOnce
  <2> QED
    BY <2>1 DEF Shown, PlayerTable!Looks, DrawnSo, LookingSo
<1>9. PlayerTable!Show
  <2>1. \A S : PlayerTable!Cardinality(S) = Cardinality(S)
    BY DEF PlayerTable!Cardinality, Cardinality
  <2> QED
    BY <1>3, <1>8, <2>1 DEF PlayerTable!Show, PlayerTable!Looks
<1> QED
  BY <1>3, <1>5, <1>6, <1>9 DEF TableStep, PlayerTable!TableNext

LEMMA LooksStep == GameInv /\ Looks(scene) /\ [GameSceneNext]_gameSceneVars => Looks(scene)' /\ TableStep
<1> SUFFICES ASSUME GameInv, Looks(scene), [GameSceneNext]_gameSceneVars
             PROVE  Looks(scene)' /\ TableStep
  OBVIOUS
<1>1. CASE Attach
  BY <1>1, AttachLooks
<1>2. CASE Update
  BY <1>2, UpdateLooks
<1>3. ASSUME NEW uid \in Uid, NEW place \in Place, NEW palette \in Palette,
             RegisterPlayer(uid, place, palette)
      PROVE  Looks(scene)' /\ TableStep
  BY <1>3, RegisterLooks
<1>4. ASSUME NEW uid \in Uid, DeregisterPlayer(uid)
      PROVE  Looks(scene)' /\ TableStep
  BY <1>4, DeregisterLooks
<1>5. ASSUME NEW uid \in Uid, NEW place \in Place, MovePlayer(uid, place)
      PROVE  Looks(scene)' /\ TableStep
  BY <1>5, MoveLooks
<1>6. CASE DrawFrame
  <2>1. PICK delta \in Deltas : Draw(delta)
    BY <1>6 DEF DrawFrame
  <2> QED
    BY <2>1, DrawLooks
<1>7. CASE UNCHANGED gameSceneVars
  <2>1. UNCHANGED <<own, scene, tilemap, players, infos, drawn>> /\ Peopled(scene)
    BY <1>7 DEF gameSceneVars, GameInv
  <2>2. \A i \in SlotsOf(scene) : LookKept(scene, scene', i)
    BY <2>1 DEF LookKept
  <2> QED
    BY <2>1, <2>2, LooksSame, ShownSame DEF TableStep, PlayerTable!tableVars
<1> QED
  BY <1>1, <1>2, <1>3, <1>4, <1>5, <1>6, <1>7 DEF GameSceneNext

-----------------------------------------------------------------------------
(* The types of what the entities do not hold.                             *)

Drawn == [place : Place, palette : Palette, source : Range(WALK_ANIMATION)]
TypesInv == own \in Owns /\ created \in 1..MaxCreate /\ \A k \in DOMAIN drawn : drawn[k] \in Drawn

LEMMA SourceType == \A x \in Coloured : x.palette \in Palette /\ x.source \in Range(WALK_ANIMATION)
<1>1. DOMAIN WALK_ANIMATION = 1..2
  BY DEF WALK_ANIMATION
<1> QED
  BY <1>1 DEF Coloured, Range

LEMMA TypesInvInit == GameSceneInit => TypesInv
BY GameAssumption DEF GameSceneInit, TypesInv

LEMMA TypesInvStep ==
  ASSUME TypesInv, GameInv, GameInv', Looks(scene), Looks(scene)', [GameSceneNext]_gameSceneVars
  PROVE  TypesInv'
<1>1. MaxCreate \in Nat
  BY Types
<1>2. ASSUME NEW s, NEW uid, NEW place, NEW palette, Register(s, uid, place, palette), created < MaxCreate
      PROVE  created' \in 1..MaxCreate
  BY <1>1, <1>2 DEF Register, TypesInv
<1>3. CASE Attach
  <2>1. created' \in 1..MaxCreate
    BY <1>2, <1>3 DEF Attach, TypesInv
  <2> QED
    BY <1>3, <2>1 DEF Attach, TypesInv
<1>4. CASE Update
  BY <1>4 DEF Update, TypesInv
<1>5. ASSUME NEW uid \in Uid, NEW place \in Place, NEW palette \in Palette,
             RegisterPlayer(uid, place, palette)
      PROVE  TypesInv'
  BY <1>2, <1>5 DEF RegisterPlayer, TypesInv
<1>6. ASSUME NEW uid \in Uid, DeregisterPlayer(uid)
      PROVE  TypesInv'
  BY <1>6 DEF DeregisterPlayer, TypesInv
<1>7. ASSUME NEW uid \in Uid, NEW place \in Place, MovePlayer(uid, place)
      PROVE  TypesInv'
  BY <1>7 DEF MovePlayer, TypesInv
<1>8. CASE DrawFrame
  <2>1. PICK delta \in Deltas : Draw(delta)
    BY <1>8 DEF DrawFrame
  <2>2. UNCHANGED <<own, players, infos, created>> /\ IsClient
    BY <2>1 DEF Draw
  <2>3. ASSUME NEW k \in DOMAIN drawn'
        PROVE  drawn'[k] \in Drawn
    <3>1. PICK uid \in DOMAIN players :
            drawn'[k] = [place |-> PlaceOf(uid)', palette |-> infos[uid], source |-> SpriteOf(uid)'.source]
      BY <2>1, DrawLooks
    <3>2. SpriteOf(uid)' \in Coloured
      BY <2>2 DEF GameInv, Peopled, InStep, SpriteOf, Content, IsClient
    <3>3. PlaceOf(uid)' \in Place /\ infos[uid] \in Palette
      BY <2>2 DEF Looks, Dressed, PlaceOf, Content
    <3> QED
      BY <3>1, <3>2, <3>3, SourceType DEF Drawn
  <2> QED
    BY <2>2, <2>3 DEF TypesInv
<1>9. CASE UNCHANGED gameSceneVars
  BY <1>9 DEF gameSceneVars, TypesInv
<1> QED
  BY <1>3, <1>4, <1>5, <1>6, <1>7, <1>8, <1>9 DEF GameSceneNext

(* So everything has its type.                                             *)
LEMMA GameTyped == GameInv /\ Looks(scene) /\ TypesInv => GameSceneTypeOK
<1> SUFFICES ASSUME GameInv, Looks(scene), TypesInv
             PROVE  GameSceneTypeOK
  OBVIOUS
<1>1. ASSUME NEW uid \in DOMAIN players
      PROVE  /\ PlaceOf(uid) \in Place /\ infos[uid] \in Palette
             /\ IsClient => SpriteOf(uid) \in Sprites /\ AnimatorOf(uid) \in Animators
  <2>1. PlaceOf(uid) \in Place /\ infos[uid] \in Palette
    BY DEF Looks, Dressed, PlaceOf, Content
  <2>2. ASSUME IsClient
        PROVE  SpriteOf(uid) \in Coloured /\ AnimatorOf(uid) \in Walking
    BY <2>2 DEF GameInv, Peopled, InStep, SpriteOf, AnimatorOf, Content
  <2> QED
    BY <2>1, <2>2 DEF Coloured, Walking, Sprites, Animators
<1> QED
  BY <1>1 DEF GameSceneTypeOK, GameInv, StageInv, Looks, TypesInv, Drawn

-----------------------------------------------------------------------------
(* The results.                                                            *)

THEOREM GameHolds == GameSceneSpec => []GameInv
<1> QED
  BY GameInvInit, GameInvStep, PTL DEF GameSceneSpec

LEMMA LooksHold == GameSceneSpec => []Looks(scene)
<1> QED
  BY LooksInit, LooksStep, GameHolds, PTL DEF GameSceneSpec

(* Whatever players come and go, in whatever order: every destroy_entity   *)
(* of the game, which looks at no version, destroys a living entity that   *)
(* is one player's alone (deregister_player).                              *)
THEOREM DestroysAreSound == GameSceneSpec => []DestroysLive
<1>1. GameInv => DestroysLive
  BY GameInvImplies
<1> QED
  BY <1>1, GameHolds, PTL

(* In whatever order systems and players come, the list of pools is long   *)
(* enough for every component assigned, and every pool for every entity.   *)
THEOREM PoolsSuffice == GameSceneSpec => []PoolsInOrder
<1>1. GameInv => PoolsInOrder
  BY GameInvImplies
<1> QED
  BY <1>1, GameHolds, PTL

(* The scene shows the players of the table and nobody else, and each of   *)
(* their sprites the frame its animator is at, after any number of frames  *)
(* of any length.                                                          *)
THEOREM PlayersAreShown == GameSceneSpec => []PlayersInStep
<1>1. GameInv => PlayersInStep
  BY GameInvImplies
<1> QED
  BY <1>1, GameHolds, PTL

(* The entities and their components are the players' table that the       *)
(* session keeps: whoever registers joins it where he says, who moves and  *)
(* who leaves changes nobody else's entry, and each frame shows every      *)
(* player of it once, with his own place and colours.                      *)
THEOREM PlayersAreTable == GameSceneSpec => RefinesPlayerTable
<1>1. GameSceneInit => PlayerTable!TableInit
  BY LooksInit
<1>2. GameInv /\ Looks(scene) /\ [GameSceneNext]_gameSceneVars
        => [PlayerTable!TableNext]_(PlayerTable!tableVars)
  BY LooksStep DEF TableStep
<1> QED
  BY <1>1, <1>2, GameHolds, LooksHold, PTL DEF GameSceneSpec, RefinesPlayerTable, PlayerTable!Table

(* Every component of a player holds a value of its own kind, whatever its *)
(* slot held before.                                                       *)
THEOREM GameSceneTypes == GameSceneSpec => []GameSceneTypeOK
<1>1. GameInv /\ GameInv' /\ Looks(scene) /\ Looks(scene)' /\ TypesInv /\ [GameSceneNext]_gameSceneVars
        => TypesInv'
  BY TypesInvStep
<1> QED
  BY <1>1, TypesInvInit, GameHolds, LooksHold, GameTyped, PTL DEF GameSceneSpec
-----------------------------------------------------------------------------
(* The application: for each place of the main thread, what of the window, *)
(* the renderer, the network device and the layers is there.               *)


(* What is known of the layers, and of what main does with them.           *)
LayersInv ==
  /\ m_network_device \in {"none", "open"}
  /\ pushed \in Nat /\ detached \in Nat /\ detached <= pushed
  /\ at \in {"window", "renderer"} => pushed = 0 /\ m_network_device = "none"
  /\ detached = 0 \/ at \in {"detach", "statics", "exited"}
  /\ at \in {"detach", "statics", "exited"} /\ ending # "thrown" =>
       m_network_device = "none"
  /\ ending = "thrown" => at \in {"statics", "exited"} /\ detached = 0
  /\ at \in {"statics", "exited"} /\ ending # "thrown" => detached = pushed
  /\ ending = "attach" /\ at # "aborted" => pushed > 0

(* What is known of the window and the renderer.                           *)
WindowInv ==
  /\ program \in {"client", "server"}
  /\ context \in {"none", "made"} /\ globals \in {"empty", "held"}
  /\ at \in {"window", "renderer", "begin", "draw", "end", "poll", "focus", "shutdown",
             "window gone"} => program = "client"
  /\ program = "client"
     /\ at \in {"renderer", "layers", "loop", "update", "network", "begin", "draw", "end",
                "poll", "focus", "shutdown", "window gone"}
     => context = "made"
  /\ at \in {"window gone", "network device", "detach"} => globals = "empty"
  /\ at \in {"network device", "detach"} => context = "none"
  /\ at = "statics" /\ globals = "held" =>
       ending = "init" \/ (ending = "thrown" /\ (program = "client" => context = "made"))
  /\ at \in {"statics", "exited"} /\ ending # "thrown" => context = "none"
  /\ at = "exited" => globals = "empty"
  /\ program = "server" => context = "none" /\ globals = "empty"

MainInv == LayersInv /\ WindowInv

(* The initial state of either program satisfies the invariant.            *)
LEMMA MainInvInit == ApplicationInit => MainInv
  BY DEF ApplicationInit, MainInv, LayersInv, WindowInv

(* No step of main, and nothing the user does, breaks it.                  *)
LEMMA MainInvStep == MainInv /\ [ApplicationNext]_applicationVars => MainInv'
<1> SUFFICES ASSUME MainInv, [ApplicationNext]_applicationVars PROVE MainInv'
  OBVIOUS
<1> USE DEF MainInv, LayersInv, WindowInv
<1>1. CASE MakeWindow
  BY <1>1 DEF MakeWindow, Abort
<1>2. CASE InitRenderer
  BY <1>2 DEF InitRenderer
<1>3. CASE PushLayer
  <2>1. /\ pushed' \in Nat /\ detached' \in Nat /\ detached' <= pushed'
        /\ pushed' = pushed + 1 => pushed' > 0
    BY <1>3 DEF PushLayer, Abort
  <2>2. CASE Abort("attach")
    BY <2>1, <2>2, <1>3 DEF PushLayer, Abort
  <2>3. CASE pushed' = pushed + 1 /\ at' # "aborted" /\ UNCHANGED detached
    BY <2>1, <2>3, <1>3 DEF PushLayer, Abort, Destroy
  <2> QED
    BY <2>2, <2>3, <1>3 DEF PushLayer, Destroy
<1>4. CASE Loop
  BY <1>4 DEF Loop, Destroy
<1>5. CASE Throw
  BY <1>5 DEF Throw
<1>6. CASE Frame
  BY <1>6 DEF Frame, After
<1>7. CASE Poll
  BY <1>7 DEF Poll
<1>8. CASE Focus
  BY <1>8 DEF Focus
<1>9. CASE Shutdown \/ CloseWindow \/ CloseNetwork
  BY <1>9 DEF Shutdown, CloseWindow, CloseNetwork
<1>10. CASE DetachLayer
  <2>1. CASE detached < pushed
    BY <1>10, <2>1 DEF DetachLayer
  <2>2. CASE ~(detached < pushed)
    <3>1. detached = pushed
      <4>1. pushed \in Nat /\ detached \in Nat /\ detached <= pushed
        OBVIOUS
      <4> QED
        BY ONLY <2>2, <4>1
    <3>2. at = "detach" /\ at' = "statics" /\ UNCHANGED detached
      BY <1>10, <2>2 DEF DetachLayer
    <3>3. ending # "thrown" /\ context = "none" /\ globals = "empty"
          /\ m_network_device = "none"
      BY <3>2
    <3> QED
      BY <1>10, <3>1, <3>2, <3>3 DEF DetachLayer
  <2> QED
    BY <2>1, <2>2
<1>11. CASE Statics
  BY <1>11 DEF Statics
<1>12. CASE UNCHANGED main
  BY <1>12 DEF main
<1>13. User \/ UNCHANGED applicationVars => UNCHANGED main
  BY DEF User, applicationVars
<1> QED
  BY <1>1, <1>2, <1>3, <1>4, <1>5, <1>6, <1>7, <1>8, <1>9, <1>10, <1>11, <1>12, <1>13
     DEF ApplicationNext, Main

(* So it holds always.                                                     *)
LEMMA MainInvAlways == ApplicationSpec => []MainInv
<1> QED BY MainInvInit, MainInvStep, PTL DEF ApplicationSpec

(* Setting up, drawing and cleaning up call OpenGL with a context, static  *)
(* objects included, unless Renderer::init has failed.                     *)
THEOREM ContextThere == ApplicationSpec => []GLNeedsContext
<1>1. MainInv => GLNeedsContext
  BY DEF MainInv, WindowInv, GLNeedsContext
<1> QED BY <1>1, MainInvAlways, PTL

(* The network device is destroyed before the layers it calls.             *)
THEOREM NetworkGoesFirst == ApplicationSpec => []LayersOutliveNetwork
<1>1. MainInv => LayersOutliveNetwork
  BY DEF MainInv, LayersInv, LayersOutliveNetwork
<1> QED BY <1>1, MainInvAlways, PTL

(* Every ending but an exception out of run() releases what was made.      *)
THEOREM EverythingReleased == ApplicationSpec => []Released
<1>1. MainInv => Released
  BY DEF MainInv, LayersInv, WindowInv, Released
<1> QED BY <1>1, MainInvAlways, PTL
-----------------------------------------------------------------------------
(* Types of the application's variables; a layer is pushed while there is  *)
(* one to push.                                                            *)
Desktop == [size : FrameSize, focused : BOOLEAN, queue : Seq(Inputs), closed : BOOLEAN]
WordTypes ==
  /\ program \in {"client", "server"} /\ m_network_device \in {"none", "open"}
  /\ context \in {"none", "made"} /\ globals \in {"empty", "held"}
  /\ at \in {"window", "renderer", "layers", "loop", "update", "network", "begin", "draw",
             "end", "poll", "focus", "shutdown", "window gone", "network device",
             "detach", "statics", "exited", "aborted", "terminated"}
  /\ ending \in {"no", "window", "init", "framebuffer", "attach", "closed", "thrown"}
CountTypes ==
  /\ pushed \in 0..NumLayers /\ detached \in 0..pushed /\ layer \in 1..NumLayers
  /\ at = "layers" => pushed < NumLayers
HeardTypes ==
  /\ m_running \in BOOLEAN /\ m_focused \in BOOLEAN /\ told \in BOOLEAN
  /\ viewport \in FrameSize /\ desktop \in Desktop /\ events \in 0..MaxEvents
MainTypes == WordTypes /\ CountTypes /\ HeardTypes

LEMMA MainTypesMean == MainTypes => ApplicationTypeOK
BY DEF MainTypes, WordTypes, CountTypes, HeardTypes, Desktop, ApplicationTypeOK

LEMMA MainTypesInit == ApplicationInit => MainTypes
<1> SUFFICES ASSUME ApplicationInit
             PROVE  MainTypes
  OBVIOUS
<1>1. WordTypes
  BY DEF ApplicationInit, WordTypes
<1>2. CountTypes
  BY ApplicationAssumption DEF ApplicationInit, CountTypes
<1>3. HeardTypes
  <2>1. desktop = [size |-> viewport, focused |-> TRUE, queue |-> <<>>, closed |-> FALSE]
        /\ viewport \in FrameSize /\ events = 0
    BY DEF ApplicationInit
  <2>2. <<>> \in Seq(Inputs)
    OBVIOUS
  <2>3. desktop \in Desktop
    BY <2>1, <2>2 DEF Desktop
  <2> QED
    BY <2>1, <2>3, ApplicationAssumption DEF ApplicationInit, HeardTypes
<1> QED
  BY <1>1, <1>2, <1>3 DEF MainTypes

LEMMA WordTypesStep == WordTypes /\ [ApplicationNext]_applicationVars => WordTypes'
<1> SUFFICES ASSUME WordTypes, [ApplicationNext]_applicationVars
             PROVE  WordTypes'
  OBVIOUS
<1>1. CASE MakeWindow \/ InitRenderer
  BY <1>1 DEF MakeWindow, InitRenderer, Abort, WordTypes
<1>2. CASE PushLayer
  BY <1>2 DEF PushLayer, Abort, Destroy, WordTypes
<1>3. CASE Loop \/ Throw
  BY <1>3 DEF Loop, Throw, Destroy, WordTypes
<1>4. CASE Frame
  BY <1>4 DEF Frame, After, WordTypes
<1>5. CASE Poll \/ Focus
  BY <1>5 DEF Poll, Focus, WordTypes
<1>6. CASE Shutdown \/ CloseWindow
  BY <1>6 DEF Shutdown, CloseWindow, WordTypes
<1>7. CASE CloseNetwork \/ DetachLayer \/ Statics
  BY <1>7 DEF CloseNetwork, DetachLayer, Statics, WordTypes
<1>8. CASE UNCHANGED main
  BY <1>8 DEF main, WordTypes
<1>9. User \/ UNCHANGED applicationVars => UNCHANGED main
  BY DEF User, applicationVars
<1> QED
  BY <1>1, <1>2, <1>3, <1>4, <1>5, <1>6, <1>7, <1>8, <1>9 DEF ApplicationNext, Main

LEMMA CountTypesStep == CountTypes /\ MainInv /\ [ApplicationNext]_applicationVars => CountTypes'
<1> SUFFICES ASSUME CountTypes, MainInv, [ApplicationNext]_applicationVars
             PROVE  CountTypes'
  OBVIOUS
<1>1. NumLayers \in Nat \ {0} /\ pushed \in 0..NumLayers /\ detached \in 0..pushed /\ layer \in 1..NumLayers
      /\ (at = "layers" => pushed < NumLayers)
  BY ApplicationAssumption DEF CountTypes
<1>2. CASE InitRenderer
  <2>1. pushed = 0
    BY <1>2 DEF InitRenderer, MainInv, LayersInv
  <2> QED
    BY <1>1, <1>2, <2>1 DEF InitRenderer, CountTypes
<1>3. CASE PushLayer
  <2>1. /\ at = "layers" /\ UNCHANGED <<layer, detached>>
        /\ \/ pushed' = pushed /\ at' = "aborted"
           \/ pushed' = pushed + 1 /\ at' = (IF pushed' = NumLayers THEN "loop" ELSE "layers")
           \/ pushed' = pushed + 1 /\ at' = Destroy
    BY <1>3 DEF PushLayer, Abort
  <2>2. Destroy # "layers"
    BY DEF Destroy
  <2> HIDE DEF Destroy
  <2> QED
    BY ONLY <1>1, <2>1, <2>2 DEF CountTypes
<1>4. CASE Loop
  <2>1. at' # "layers" /\ layer' = 1 /\ UNCHANGED <<pushed, detached>>
    BY <1>4 DEF Loop, Destroy
  <2>2. 1 \in 1..NumLayers
    BY ONLY <1>1
  <2> QED
    BY <1>1, <2>1, <2>2 DEF CountTypes
<1>5. CASE Frame
  <2>1. layer' \in 1..NumLayers
    BY <1>1, <1>5 DEF Frame
  <2>2. at' # "layers"
    BY <1>5 DEF Frame, After
  <2> QED
    BY <1>1, <1>5, <2>1, <2>2 DEF Frame, CountTypes
<1>6. CASE DetachLayer
  BY <1>1, <1>6 DEF DetachLayer, CountTypes
<1>7. CASE MakeWindow
  <2>1. at' # "layers" /\ UNCHANGED <<layer, pushed, detached>>
    BY <1>7 DEF MakeWindow, Abort
  <2> QED
    BY <1>1, <2>1 DEF CountTypes
<1>8. CASE Throw \/ Poll \/ Focus \/ Shutdown \/ CloseWindow \/ CloseNetwork \/ Statics
  <2>1. at' # "layers" /\ UNCHANGED <<layer, pushed, detached>>
    BY <1>8 DEF Throw, Poll, Focus, Shutdown, CloseWindow, CloseNetwork, Statics
  <2> QED
    BY <1>1, <2>1 DEF CountTypes
<1>9. CASE UNCHANGED main
  BY <1>1, <1>9 DEF main, CountTypes
<1>10. User \/ UNCHANGED applicationVars => UNCHANGED main
  BY DEF User, applicationVars
<1> QED
  BY <1>2, <1>3, <1>4, <1>5, <1>6, <1>7, <1>8, <1>9, <1>10 DEF ApplicationNext, Main

(* What an event that is handled leaves of the queue.                      *)
LEMMA PollTypes ==
  ASSUME HeardTypes, Poll
  PROVE  /\ desktop' \in Desktop
         /\ viewport' \in FrameSize /\ m_running' \in BOOLEAN
<1>1. CASE desktop.queue = <<>>
  BY <1>1 DEF Poll, HeardTypes
<1>2. CASE desktop.queue # <<>>
  <2> DEFINE e == Head(desktop.queue)
  <2>1. /\ desktop.queue \in Seq(Inputs) /\ desktop.size \in FrameSize
        /\ desktop.focused \in BOOLEAN /\ desktop.closed \in BOOLEAN
        /\ desktop = [size |-> desktop.size, focused |-> desktop.focused, queue |-> desktop.queue,
                      closed |-> desktop.closed]
    BY DEF HeardTypes, Desktop
  <2>2. e \in Inputs /\ Tail(desktop.queue) \in Seq(Inputs)
    BY <1>2, <2>1
  <2>3. /\ \E handled \in BOOLEAN : OnEvent(e, handled)
        /\ desktop' = [desktop EXCEPT !.queue = Tail(@), !.closed = @ \/ e.type = "close"]
    BY <1>2 DEF Poll
  <2> HIDE DEF e
  <2>4. desktop' = [size |-> desktop.size, focused |-> desktop.focused, queue |-> Tail(desktop.queue),
                    closed |-> (desktop.closed \/ e.type = "close")]
    BY <2>1, <2>3
  <2>5. (desktop.closed \/ e.type = "close") \in BOOLEAN
    OBVIOUS
  <2>6. e.type = "resize" => e.size \in FrameSize
    BY <2>2 DEF Inputs
  <2>7. viewport' \in FrameSize /\ m_running' \in BOOLEAN
    BY <2>3, <2>6 DEF OnEvent, HeardTypes
  <2>8. desktop' \in Desktop
    BY <2>1, <2>2, <2>4, <2>5 DEF Desktop
  <2> QED
    BY <2>7, <2>8
<1> QED
  BY <1>1, <1>2

LEMMA UserTypes ==
  ASSUME HeardTypes, User
  PROVE  /\ desktop' \in Desktop
         /\ events' \in 0..MaxEvents
<1>1. /\ desktop.queue \in Seq(Inputs) /\ desktop.size \in FrameSize
      /\ desktop.focused \in BOOLEAN /\ desktop.closed \in BOOLEAN
      /\ desktop = [size |-> desktop.size, focused |-> desktop.focused, queue |-> desktop.queue,
                    closed |-> desktop.closed]
  BY DEF HeardTypes, Desktop
<1>2. events' \in 0..MaxEvents
  <2>1. MaxEvents \in Nat /\ events \in 0..MaxEvents /\ events < MaxEvents /\ events' = events + 1
    BY ApplicationAssumption DEF User, HeardTypes
  <2> QED
    BY ONLY <2>1
<1>3. ASSUME NEW e \in Inputs,
             desktop' = [desktop EXCEPT !.queue = Append(@, e),
                                        !.size = IF e.type = "resize" THEN e.size ELSE @]
      PROVE  desktop' \in Desktop
  <2>1. Append(desktop.queue, e) \in Seq(Inputs)
    BY <1>1
  <2>2. (IF e.type = "resize" THEN e.size ELSE desktop.size) \in FrameSize
    BY <1>1 DEF Inputs
  <2>3. desktop' = [size |-> IF e.type = "resize" THEN e.size ELSE desktop.size, focused |-> desktop.focused,
                    queue |-> Append(desktop.queue, e), closed |-> desktop.closed]
    BY <1>1, <1>3
  <2> QED
    BY <1>1, <2>1, <2>2, <2>3 DEF Desktop
<1>4. ASSUME desktop' = [desktop EXCEPT !.focused = ~@]
      PROVE  desktop' \in Desktop
  <2>1. desktop' = [size |-> desktop.size, focused |-> ~desktop.focused, queue |-> desktop.queue,
                    closed |-> desktop.closed]
    BY <1>1, <1>4
  <2>2. (~desktop.focused) \in BOOLEAN
    BY <1>1
  <2> QED
    BY <1>1, <2>1, <2>2 DEF Desktop
<1> QED
  BY <1>2, <1>3, <1>4 DEF User

LEMMA HeardTypesStep == HeardTypes /\ [ApplicationNext]_applicationVars => HeardTypes'
<1> SUFFICES ASSUME HeardTypes, [ApplicationNext]_applicationVars
             PROVE  HeardTypes'
  OBVIOUS
<1>1. CASE Poll /\ UNCHANGED events
  BY <1>1, PollTypes DEF Poll, HeardTypes
<1>2. CASE Focus /\ UNCHANGED events
  <2>1. desktop.focused \in BOOLEAN
    BY DEF HeardTypes, Desktop
  <2> QED
    BY <1>2, <2>1 DEF Focus, HeardTypes
<1>3. CASE CloseNetwork /\ UNCHANGED events
  BY <1>3 DEF CloseNetwork, HeardTypes
<1>4. CASE User
  BY <1>4, UserTypes DEF User, main, HeardTypes
<1>5. CASE UNCHANGED <<m_running, m_focused, told, viewport, desktop, events>>
  BY <1>5 DEF HeardTypes
<1>6. Main => \/ (Poll \/ Focus \/ CloseNetwork) /\ UNCHANGED events
              \/ UNCHANGED <<m_running, m_focused, told, viewport, desktop, events>>
  BY DEF Main, MakeWindow, InitRenderer, PushLayer, Abort, Loop, Throw, Frame, Shutdown, CloseWindow,
         DetachLayer, Statics
<1>7. UNCHANGED applicationVars => UNCHANGED <<m_running, m_focused, told, viewport, desktop, events>>
  BY DEF applicationVars, main
<1> QED
  BY <1>1, <1>2, <1>3, <1>4, <1>5, <1>6, <1>7 DEF ApplicationNext

LEMMA MainTypesStep == MainTypes /\ MainInv /\ [ApplicationNext]_applicationVars => MainTypes'
BY WordTypesStep, CountTypesStep, HeardTypesStep DEF MainTypes

-----------------------------------------------------------------------------
(* The renderer follows the window.                                        *)

(* It has the window's size, or the last resize in the queue has.          *)
SizeComes(queue, size, now) ==
  \/ now = size /\ \A k \in 1..Len(queue) : queue[k].type # "resize"
  \/ \E k \in 1..Len(queue) :
       /\ queue[k].type = "resize" /\ queue[k].size = size
       /\ \A j \in (k + 1)..Len(queue) : queue[j].type # "resize"

LEMMA SizeComesAppended ==
  ASSUME NEW queue \in Seq(Inputs), NEW size, NEW now, SizeComes(queue, size, now), NEW e \in Inputs
  PROVE  SizeComes(Append(queue, e), IF e.type = "resize" THEN e.size ELSE size, now)
<1> DEFINE q == Append(queue, e)
           n == Len(queue)
<1>1. /\ n \in Nat /\ Len(q) = n + 1 /\ q[n + 1] = e /\ \A k \in 1..n : q[k] = queue[k]
      /\ n + 1 \in 1..(n + 1) /\ \A j \in (n + 2)..(n + 1) : FALSE
      /\ \A k \in 1..(n + 1) : k \in 1..n \/ k = n + 1
  OBVIOUS
<1> HIDE DEF q
<1>2. CASE e.type = "resize"
  <2>1. \A j \in ((n + 1) + 1)..Len(q) : q[j].type # "resize"
    BY <1>1
  <2> QED
    BY <1>1, <1>2, <2>1 DEF SizeComes, q
<1>3. CASE e.type # "resize"
  <2>1. CASE now = size /\ \A k \in 1..n : queue[k].type # "resize"
    BY <1>1, <1>3, <2>1 DEF SizeComes, q
  <2>2. ASSUME NEW k \in 1..n, queue[k].type = "resize", queue[k].size = size,
               \A j \in (k + 1)..n : queue[j].type # "resize"
        PROVE  SizeComes(q, size, now)
    <3>1. \A j \in (k + 1)..(n + 1) : j \in (k + 1)..n \/ j = n + 1
      BY <1>1
    <3>2. \A j \in (k + 1)..n : j \in 1..n
      OBVIOUS
    <3>3. \A j \in (k + 1)..Len(q) : q[j].type # "resize"
      BY <1>1, <1>3, <2>2, <3>1, <3>2
    <3>4. k \in 1..Len(q) /\ q[k] = queue[k]
      BY <1>1
    <3> QED
      BY <2>2, <3>3, <3>4 DEF SizeComes
  <2> QED
    BY <1>3, <2>1, <2>2 DEF SizeComes, q
<1> QED
  BY <1>2, <1>3

LEMMA SizeComesPolled ==
  ASSUME NEW queue \in Seq(Inputs), queue # <<>>, NEW size, NEW now, SizeComes(queue, size, now)
  PROVE  SizeComes(Tail(queue), size, IF Head(queue).type = "resize" THEN Head(queue).size ELSE now)
<1> DEFINE q == Tail(queue)
           n == Len(queue)
<1>1. /\ n \in Nat \ {0} /\ Len(q) = n - 1 /\ \A k \in 1..(n - 1) : q[k] = queue[k + 1]
      /\ Head(queue) = queue[1] /\ 1 \in 1..n
      /\ \A k \in 1..(n - 1) : k + 1 \in 1..n /\ k + 1 \in 2..n
  OBVIOUS
<1> HIDE DEF q
<1>2. CASE now = size /\ \A k \in 1..n : queue[k].type # "resize"
  BY <1>1, <1>2 DEF SizeComes, q
<1>3. ASSUME NEW k \in 1..n, queue[k].type = "resize", queue[k].size = size,
             \A j \in (k + 1)..n : queue[j].type # "resize"
      PROVE  SizeComes(q, size, IF Head(queue).type = "resize" THEN Head(queue).size ELSE now)
  <2>1. CASE k = 1
    <3>1. \A j \in 1..(n - 1) : q[j].type # "resize"
      BY <1>1, <1>3, <2>1
    <3> QED
      BY <1>1, <1>3, <2>1, <3>1 DEF SizeComes
  <2>2. CASE k # 1
    <3>1. k - 1 \in 1..(n - 1) /\ (k - 1) + 1 = k
      BY <1>1, <2>2
    <3>2. q[k - 1] = queue[k]
      BY <1>1, <3>1
    <3>3. \A j \in ((k - 1) + 1)..(n - 1) : j \in 1..(n - 1) /\ j + 1 \in (k + 1)..n
      BY <1>1, <2>2
    <3>4. \A j \in ((k - 1) + 1)..(n - 1) : q[j].type # "resize"
      BY <1>1, <1>3, <3>3
    <3> QED
      BY <1>1, <1>3, <3>1, <3>2, <3>4 DEF SizeComes
  <2> QED
    BY <2>1, <2>2
<1> QED
  BY <1>2, <1>3 DEF SizeComes, q

FollowInv == SizeComes(desktop.queue, desktop.size, viewport)

LEMMA FollowInit == ApplicationInit => FollowInv
<1> SUFFICES ASSUME ApplicationInit
             PROVE  FollowInv
  OBVIOUS
<1>1. desktop.queue = <<>> /\ desktop.size = viewport /\ Len(<<>>) = 0
  BY DEF ApplicationInit
<1> QED
  BY <1>1 DEF FollowInv, SizeComes

LEMMA FollowStep == ApplicationTypeOK /\ FollowInv /\ [ApplicationNext]_applicationVars => FollowInv'
<1> SUFFICES ASSUME ApplicationTypeOK, FollowInv, [ApplicationNext]_applicationVars
             PROVE  FollowInv'
  OBVIOUS
<1>1. /\ desktop.queue \in Seq(Inputs)
      /\ desktop = [size |-> desktop.size, focused |-> desktop.focused, queue |-> desktop.queue,
                    closed |-> desktop.closed]
  BY DEF ApplicationTypeOK
<1>2. CASE UNCHANGED <<desktop, viewport>>
  BY <1>2 DEF FollowInv
<1>3. CASE Poll
  <2>1. CASE desktop.queue = <<>>
    BY <1>2, <1>3, <2>1 DEF Poll
  <2>2. CASE desktop.queue # <<>>
    <3>1. /\ viewport' = IF Head(desktop.queue).type = "resize" THEN Head(desktop.queue).size ELSE viewport
          /\ desktop'.queue = Tail(desktop.queue) /\ desktop'.size = desktop.size
      BY <1>1, <1>3, <2>2 DEF Poll, OnEvent
    <3> QED
      BY <1>1, <2>2, <3>1, SizeComesPolled DEF FollowInv
  <2> QED
    BY <2>1, <2>2
<1>4. CASE User
  <2>1. viewport' = viewport
    BY <1>4 DEF User, main
  <2>2. ASSUME NEW e \in Inputs,
               desktop' = [desktop EXCEPT !.queue = Append(@, e),
                                          !.size = IF e.type = "resize" THEN e.size ELSE @]
        PROVE  FollowInv'
    <3>1. /\ desktop'.queue = Append(desktop.queue, e)
          /\ desktop'.size = IF e.type = "resize" THEN e.size ELSE desktop.size
      BY <1>1, <2>2
    <3> QED
      BY <1>1, <2>1, <3>1, SizeComesAppended DEF FollowInv
  <2>3. ASSUME desktop' = [desktop EXCEPT !.focused = ~@]
        PROVE  FollowInv'
    <3>1. desktop'.queue = desktop.queue /\ desktop'.size = desktop.size
      BY <1>1, <2>3
    <3> QED
      BY <2>1, <3>1 DEF FollowInv
  <2> QED
    BY <1>4, <2>2, <2>3 DEF User
<1>5. Main => Poll \/ UNCHANGED <<desktop, viewport>>
  BY DEF Main, MakeWindow, InitRenderer, PushLayer, Abort, Loop, Throw, Frame, Focus, Shutdown, CloseWindow,
         CloseNetwork, DetachLayer, Statics
<1>6. UNCHANGED applicationVars => UNCHANGED <<desktop, viewport>>
  BY DEF applicationVars, main
<1> QED
  BY <1>2, <1>3, <1>4, <1>5, <1>6 DEF ApplicationNext

-----------------------------------------------------------------------------
(* The results that need both.                                             *)

ApplicationSafety == ApplicationInit /\ [][ApplicationNext]_applicationVars

LEMMA ApplicationSafe == ApplicationSafety => [](MainTypes /\ FollowInv)
<1>1. ApplicationSafety => []MainInv
  BY MainInvInit, MainInvStep, PTL DEF ApplicationSafety
<1>2. MainTypes => ApplicationTypeOK
  BY MainTypesMean
<1> QED
  BY <1>1, <1>2, MainTypesInit, MainTypesStep, FollowInit, FollowStep, PTL DEF ApplicationSafety

(* Whenever the events of the window are handled the renderer has its      *)
(* size, in whatever order resizes, closes and input came, and whichever   *)
(* of them a layer has handled (gui_application.cpp, on_event).            *)
THEOREM RendererFollows == ApplicationSpec => []ViewportFollows
<1>1. FollowInv => ViewportFollows
  <2> SUFFICES ASSUME FollowInv, desktop.queue = <<>>
               PROVE  viewport = desktop.size
    BY DEF ViewportFollows
  <2>1. Len(desktop.queue) = 0
    OBVIOUS
  <2> QED
    BY <2>1 DEF FollowInv, SizeComes
<1>2. ApplicationSpec => ApplicationSafety
  BY PTL DEF ApplicationSpec, ApplicationSafety
<1> QED
  BY <1>1, <1>2, ApplicationSafe, PTL

(* In every run of the game's parts all variables of the game layer and of *)
(* the application have their types.                                       *)
THEOREM GameTypesHold == GamePartsSpec => []GameTypesOK
<1>1. GameInit => GameSceneInit /\ ApplicationInit
  BY DEF GameInit
<1>2. [GameNext]_gameVars => [GameSceneNext]_gameSceneVars /\ [ApplicationNext]_applicationVars
  BY DEF GameNext, Scened, Framed, gameVars
<1>3. GamePartsSpec => GameSceneSpec /\ ApplicationSafety
  BY <1>1, <1>2, PTL DEF GamePartsSpec, GameSceneSpec, ApplicationSafety
<1>4. GameSceneTypeOK /\ MainTypes => GameTypesOK
  BY MainTypesMean DEF GameTypesOK
<1> QED
  BY <1>3, <1>4, GameSceneTypes, ApplicationSafe, PTL
=============================================================================
