--------------------- MODULE SuperAgentMissionStoreProofs ---------------------
(***************************************************************************)
(* The mission store for any capacity, ring, time to live and clients.     *)
(*                                                                         *)
(* That an active mission is never dropped looks like a matter of who may  *)
(* be evicted, but a refused put removes the very id it was to store.      *)
(* Only because the store never holds more than its capacity is that id a  *)
(* new one, so the bound on the size has to be carried along, and with it  *)
(* that one eviction is enough, which rests on the ranks being distinct.   *)
(*                                                                         *)
(* That what lapses is remembered needs the order of the puts as well: the *)
(* ring drops its oldest ids, and an id that has just lapsed must not be   *)
(* among them.                                                             *)
(***************************************************************************)
EXTENDS SuperAgentMissionStore, FiniteSetTheorems, WellFoundedInduction, TLAPS

(* A set of ranks has a least one.                                          *)
LEMMA LeastRank ==
  ASSUME NEW T \in SUBSET Nat, T # {}
  PROVE  \E x \in T : \A y \in T : x <= y
<1> DEFINE R == {ss \in Nat \X Nat : ss[1] < ss[2]}
<1>1. IsWellFoundedOn(OpToRel(<, Nat), Nat)
  BY NatLessThanWellFounded
<1>2. OpToRel(<, Nat) = R
  BY DEF OpToRel
<1>3. IsWellFoundedOn(R, Nat)
  BY <1>1, <1>2
<1> HIDE DEF R
<1>4. PICK x \in T : \A y \in T : ~(<<y, x>> \in R)
  BY <1>3, WFMin
<1>5. \A y \in T : y < x => <<y, x>> \in R
  BY DEF R
<1>6. \A y \in T : ~(y < x)
  BY <1>4, <1>5
<1> QED
  BY <1>6

(* No two ids, stored or remembered, share a rank.                          *)
RanksDistinct ==
  /\ \A m \in DOMAIN missions : missions[m].rank <= puts
  /\ \A x \in DOMAIN expired : expired[x] <= puts
  /\ \A m, n \in DOMAIN missions : missions[m].rank = missions[n].rank => m = n
  /\ \A x, y \in DOMAIN expired : expired[x] = expired[y] => x = y
  /\ \A m \in DOMAIN missions, x \in DOMAIN expired : missions[m].rank # expired[x]

WithinCapacity ==
  /\ IsFiniteSet(DOMAIN missions)
  /\ Cardinality(DOMAIN missions) <= StoreCapacity

RingIsBounded ==
  /\ DOMAIN missions \cap DOMAIN expired = {}
  /\ IsFiniteSet(DOMAIN expired)
  /\ Cardinality(DOMAIN expired) <= RingLength

StoreInv == StoreTypeOK /\ RanksDistinct /\ WithinCapacity /\ RingIsBounded
-----------------------------------------------------------------------------
(* The ring after a purge: it holds what it held or what has lapsed, with   *)
(* the ranks those had, and no more than its length.                        *)
LEMMA RememberedEffect ==
  ASSUME StoreInv
  PROVE  /\ DOMAIN Remembered \subseteq DOMAIN expired \cup Lapsed
         /\ \A x \in DOMAIN Remembered :
              Remembered[x] = IF x \in Lapsed THEN missions[x].rank ELSE expired[x]
         /\ IsFiniteSet(DOMAIN Remembered)
         /\ Cardinality(DOMAIN Remembered) <= RingLength
<1> USE StoreAssumption DEF StoreInv
<1> DEFINE ids == DOMAIN expired \cup Lapsed
           all == [m \in ids |-> IF m \in Lapsed THEN missions[m].rank ELSE expired[m]]
           newer(m) == {n \in ids : all[n] > all[m]}
           kept == {n \in ids : Cardinality(newer(n)) < RingLength}
<1>1. Remembered = [m \in kept |-> all[m]]
  BY DEF Remembered
<1>2. RingLength \in Nat \ {0}
  BY DEF RingLength
<1>3. IsFiniteSet(ids)
  <2>1. IsFiniteSet(DOMAIN expired) /\ IsFiniteSet(DOMAIN missions)
    BY DEF WithinCapacity, RingIsBounded
  <2>2. Lapsed \in SUBSET DOMAIN missions
    BY DEF Lapsed
  <2>3. IsFiniteSet(Lapsed)
    BY <2>1, <2>2, FS_Subset
  <2> QED
    BY <2>1, <2>3, FS_Union
<1>4. \A m, n \in ids : all[m] \in Nat /\ (all[m] = all[n] => m = n)
  BY DEF StoreTypeOK, Stored, RanksDistinct, RingIsBounded, Lapsed
<1>8. /\ kept \in SUBSET ids
      /\ \A n \in kept : Cardinality(newer(n)) < RingLength
      /\ \A n \in ids : newer(n) \in SUBSET ids
  OBVIOUS
<1> HIDE DEF ids, all, kept
<1>5. /\ IsFiniteSet(kept)
      /\ \A S \in SUBSET ids : IsFiniteSet(S) /\ Cardinality(S) \in Nat
  BY <1>3, <1>8, FS_Subset, FS_CardinalityType
<1>6. Cardinality(kept) <= RingLength
  <2>1. CASE kept = {}
    <3>1. Cardinality(kept) = 0
      BY <2>1, FS_EmptySet
    <3> QED
      BY <1>2, <3>1
  <2>2. CASE kept # {}
    <3> DEFINE ranks == {all[n] : n \in kept}
    <3>1. ranks \in SUBSET Nat /\ ranks # {}
      BY <1>4, <1>8, <2>2
    <3>2. PICK r \in ranks : \A s \in ranks : r <= s
      BY <3>1, LeastRank
    <3>3. PICK low \in kept : \A n \in kept : all[low] <= all[n]
      BY <3>2
    <3>4. kept \ {low} \subseteq newer(low)
      BY <1>4, <1>8, <3>3
    <3>5. /\ Cardinality(kept \ {low}) = Cardinality(kept) - 1
          /\ Cardinality(kept) \in Nat
      BY <1>5, <1>8, FS_RemoveElement
    <3>6. Cardinality(kept \ {low}) <= Cardinality(newer(low))
      BY <1>5, <1>8, <3>4, FS_Subset
    <3>7. Cardinality(newer(low)) \in Nat /\ Cardinality(newer(low)) < RingLength
      BY <1>5, <1>8
    <3> HIDE DEF newer
    <3> QED
      BY <1>2, <3>5, <3>6, <3>7
  <2> QED
    BY <2>1, <2>2
<1>7. DOMAIN Remembered = kept /\ \A x \in kept : Remembered[x] = all[x]
  BY <1>1 DEF kept
<1> QED
  BY <1>5, <1>6, <1>7, <1>8 DEF ids, all

(* What is left after a purge is within the capacity and disjoint from the  *)
(* ring.                                                                    *)
LEMMA LiveEffect ==
  ASSUME StoreInv
  PROVE  /\ Live \in SUBSET DOMAIN missions
         /\ Live \cap (DOMAIN expired \cup Lapsed) = {}
         /\ IsFiniteSet(Live)
         /\ Cardinality(Live) \in Nat /\ Cardinality(Live) <= StoreCapacity
<1>1. /\ Live \in SUBSET DOMAIN missions
      /\ Live \cap (DOMAIN expired \cup Lapsed) = {}
  BY DEF StoreInv, RingIsBounded, Live
<1>2. IsFiniteSet(Live) /\ Cardinality(Live) <= Cardinality(DOMAIN missions)
  BY <1>1, FS_Subset DEF StoreInv, WithinCapacity
<1>3. Cardinality(Live) \in Nat /\ Cardinality(DOMAIN missions) \in Nat
  BY <1>2, FS_CardinalityType DEF StoreInv, WithinCapacity
<1> QED
  BY <1>1, <1>2, <1>3, StoreAssumption DEF StoreInv, WithinCapacity

(* A put that would overfill the store evicts one mission, not active, or   *)
(* is refused.                                                              *)
LEMMA RoomIsMade ==
  ASSUME StoreInv, NEW id
  PROVE  /\ PutAccepted(id) =>
              /\ IsFiniteSet((Live \cup {id}) \ Victims(id))
              /\ Cardinality((Live \cup {id}) \ Victims(id)) <= StoreCapacity
         /\ ~PutAccepted(id) => id \notin Live
<1> DEFINE all == Live \cup {id}
<1>1. /\ IsFiniteSet(all) /\ Cardinality(all) \in Nat
      /\ Cardinality(all) <= StoreCapacity + 1
      /\ Overfull(id) => id \notin Live
  BY LiveEffect, FS_AddElement, StoreAssumption DEF Overfull
<1>2. all \ Victims(id) \in SUBSET all
  OBVIOUS
<1>3. /\ IsFiniteSet(all \ Victims(id))
      /\ Cardinality(all \ Victims(id)) <= Cardinality(all)
      /\ Cardinality(all \ Victims(id)) = Cardinality(all) => all \ Victims(id) = all
      /\ Cardinality(all \ Victims(id)) \in Nat
  BY <1>1, <1>2, FS_Subset, FS_CardinalityType
<1>4. CASE ~Overfull(id)
  BY <1>1, <1>3, <1>4, StoreAssumption DEF Overfull, PutAccepted
<1>5. CASE Overfull(id) /\ Evictable(id) # {}
  <2> DEFINE ranks == {missions[m].rank : m \in Evictable(id)}
  <2>1. ranks \in SUBSET Nat /\ ranks # {}
    BY <1>5, LiveEffect DEF Evictable, StoreInv, StoreTypeOK, Stored
  <2>2. PICK r \in ranks : \A s \in ranks : r <= s
    BY <2>1, LeastRank
  <2>3. PICK v \in Evictable(id) : \A n \in Evictable(id) : missions[v].rank <= missions[n].rank
    BY <2>2
  <2>4. v \in Victims(id) /\ v \in all
    BY <1>5, <2>3 DEF Victims, Evictable
  <2> HIDE DEF all
  <2> QED
    BY <1>1, <1>3, <1>5, <2>4, StoreAssumption DEF all, PutAccepted
<1>6. CASE Overfull(id) /\ Evictable(id) = {}
  BY <1>1, <1>6 DEF PutAccepted
<1> QED
  BY <1>4, <1>5, <1>6
-----------------------------------------------------------------------------
(* An empty store satisfies the invariant.                                  *)
LEMMA StoreInit == Init => StoreInv
<1> SUFFICES ASSUME Init PROVE StoreInv
  OBVIOUS
<1>1. DOMAIN missions = {} /\ DOMAIN expired = {} /\ puts = 0 /\ clock = 0
  BY DEF Init
<1>2. StoreTypeOK
  BY DEF Init, StoreTypeOK
<1>3. IsFiniteSet({}) /\ Cardinality({}) = 0
  BY FS_EmptySet
<1>4. RingLength \in Nat
  BY StoreAssumption DEF RingLength
<1>5. WithinCapacity /\ RingIsBounded
  BY <1>1, <1>3, <1>4, StoreAssumption DEF WithinCapacity, RingIsBounded
<1> QED
  BY <1>1, <1>2, <1>5 DEF StoreInv, RanksDistinct

(* What the purge of any operation leaves satisfies the invariant, also     *)
(* when one id is forgotten in both places.                                 *)
LEMMA PurgedKeeps ==
  ASSUME StoreInv, NEW S \in SUBSET Live, NEW X,
         missions' = [m \in S |-> missions[m]],
         expired' = [m \in DOMAIN Remembered \ X |-> Remembered[m]],
         UNCHANGED puts, clock' \in Nat
  PROVE  StoreInv'
<1> USE DEF StoreInv
<1>1. /\ DOMAIN missions' = S /\ S \in SUBSET Live /\ S \in SUBSET DOMAIN missions
      /\ \A m \in S : missions'[m] = missions[m]
  BY LiveEffect
<1>2. /\ DOMAIN expired' \in SUBSET DOMAIN Remembered
      /\ \A x \in DOMAIN expired' :
           expired'[x] = IF x \in Lapsed THEN missions[x].rank ELSE expired[x]
      /\ DOMAIN expired' \subseteq DOMAIN expired \cup Lapsed
  BY RememberedEffect
<1>3. Lapsed \in SUBSET DOMAIN missions /\ Lapsed \cap DOMAIN expired = {}
  BY DEF Lapsed, RingIsBounded
<1>4. StoreTypeOK'
  <2>1. \A x \in DOMAIN expired' : expired'[x] \in Nat /\ x \in StoredId
    BY <1>2, <1>3 DEF StoreTypeOK, Stored
  <2>2. expired' \in [DOMAIN expired' -> Nat]
    BY <2>1
  <2>3. missions' \in [DOMAIN missions' -> Stored] /\ DOMAIN missions' \subseteq StoredId
    BY <1>1 DEF StoreTypeOK
  <2> QED
    BY <2>1, <2>2, <2>3 DEF StoreTypeOK
<1>5. RanksDistinct'
  <2>1. \A x \in DOMAIN expired' :
          /\ x \in Lapsed => x \in DOMAIN missions /\ expired'[x] = missions[x].rank
          /\ x \notin Lapsed => x \in DOMAIN expired /\ expired'[x] = expired[x]
    BY <1>2, <1>3
  <2>2. \A m \in S : m \notin Lapsed
    BY <1>1, LiveEffect
  <2> QED
    BY <1>1, <2>1, <2>2 DEF RanksDistinct
<1>6. WithinCapacity'
  BY <1>1, LiveEffect, FS_Subset, FS_CardinalityType, StoreAssumption DEF WithinCapacity
<1>7. RingIsBounded'
  <2>1. DOMAIN missions' \cap DOMAIN expired' = {}
    BY <1>1, <1>2, LiveEffect
  <2>2. /\ IsFiniteSet(DOMAIN expired')
        /\ Cardinality(DOMAIN expired') <= Cardinality(DOMAIN Remembered)
        /\ Cardinality(DOMAIN expired') \in Nat /\ Cardinality(DOMAIN Remembered) \in Nat
    BY <1>2, RememberedEffect, FS_Subset, FS_CardinalityType
  <2>3. Cardinality(DOMAIN expired') <= RingLength
    BY <2>2, RememberedEffect, StoreAssumption DEF RingLength
  <2> QED
    BY <2>1, <2>2, <2>3 DEF RingIsBounded, RingLength
<1> QED
  BY <1>4, <1>5, <1>6, <1>7

(* put keeps the invariant.                                                 *)
LEMMA PutKeeps ==
  ASSUME StoreInv, NEW id \in StoredId, NEW b \in Body, Put(id, b), UNCHANGED clock
  PROVE  StoreInv'
<1> USE DEF StoreInv
<1> DEFINE kept == (Live \cup {id}) \ Victims(id)
<1>1. /\ missions' = [m \in kept |-> IF m = id
                                        THEN [at |-> clock, rank |-> puts + 1, body |-> b]
                                        ELSE missions[m]]
      /\ expired' = [m \in DOMAIN Remembered \ {id} |-> Remembered[m]]
      /\ puts' = puts + 1
  BY DEF Put, RankFor, Without
<1>2. IsFiniteSet(kept) /\ Cardinality(kept) <= StoreCapacity
  BY RoomIsMade DEF Put
<1>3. \A m \in kept : m = id \/ (m \in Live /\ m \in DOMAIN missions)
  BY LiveEffect
<1> HIDE DEF kept
<1>4. /\ DOMAIN missions' = kept
      /\ \A m \in kept :
           /\ m = id => missions'[m] = [at |-> clock, rank |-> puts + 1, body |-> b]
           /\ m # id => m \in Live /\ m \in DOMAIN missions /\ missions'[m] = missions[m]
  BY <1>1, <1>3
<1>5. \A x \in DOMAIN expired' :
        /\ x # id /\ x \in DOMAIN expired \cup Lapsed
        /\ x \in Lapsed => x \in DOMAIN missions /\ expired'[x] = missions[x].rank
        /\ x \notin Lapsed => x \in DOMAIN expired /\ expired'[x] = expired[x]
  BY <1>1, RememberedEffect DEF Lapsed
<1>6. StoreTypeOK'
  <2>1. \A x \in DOMAIN expired' : expired'[x] \in Nat /\ x \in StoredId
    BY <1>5 DEF StoreTypeOK, Stored
  <2>2. expired' \in [DOMAIN expired' -> Nat]
    BY <1>1, <2>1
  <2>3. \A m \in kept : missions'[m] \in Stored /\ m \in StoredId
    BY <1>4 DEF StoreTypeOK, Stored
  <2>4. missions' \in [kept -> Stored]
    BY <1>1, <2>3
  <2> QED
    BY <1>1, <1>4, <2>1, <2>2, <2>3, <2>4 DEF StoreTypeOK
<1>7. RanksDistinct'
  <2>1. \A m \in kept : /\ m = id => missions'[m].rank = puts + 1
                        /\ m # id => missions'[m].rank = missions[m].rank
    BY <1>4
  <2>2. \A m \in DOMAIN missions : missions[m].rank \in Nat /\ missions[m].rank <= puts
    BY DEF StoreTypeOK, Stored, RanksDistinct
  <2>3. \A x \in DOMAIN expired' : expired'[x] <= puts /\ expired'[x] \in Nat
    BY <1>5, <2>2 DEF RanksDistinct, StoreTypeOK
  <2>4. puts \in Nat
    BY DEF StoreTypeOK
  <2>5. \A m \in kept : m # id => m \notin Lapsed
    BY <1>4, LiveEffect
  <2>6. /\ \A m \in DOMAIN missions' : missions'[m].rank <= puts'
        /\ \A x \in DOMAIN expired' : expired'[x] <= puts'
    BY <1>1, <1>4, <2>1, <2>2, <2>3, <2>4
  <2>7. \A m, n \in DOMAIN missions' : missions'[m].rank = missions'[n].rank => m = n
    BY <1>4, <2>1, <2>2, <2>4 DEF RanksDistinct
  <2>8. \A x, y \in DOMAIN expired' : expired'[x] = expired'[y] => x = y
    BY <1>5 DEF RanksDistinct
  <2>9. \A m \in DOMAIN missions', x \in DOMAIN expired' : missions'[m].rank # expired'[x]
    BY <1>4, <1>5, <2>1, <2>3, <2>4, <2>5 DEF RanksDistinct
  <2> QED
    BY <2>6, <2>7, <2>8, <2>9 DEF RanksDistinct
<1>8. WithinCapacity'
  BY <1>2, <1>4 DEF WithinCapacity
<1>9. RingIsBounded'
  <2>1. DOMAIN missions' \cap DOMAIN expired' = {}
    BY <1>4, <1>5, LiveEffect
  <2>2. DOMAIN expired' \in SUBSET DOMAIN Remembered
    BY <1>1
  <2>3. /\ IsFiniteSet(DOMAIN expired')
        /\ Cardinality(DOMAIN expired') <= Cardinality(DOMAIN Remembered)
        /\ Cardinality(DOMAIN expired') \in Nat /\ Cardinality(DOMAIN Remembered) \in Nat
    BY <2>2, RememberedEffect, FS_Subset, FS_CardinalityType
  <2>4. Cardinality(DOMAIN expired') <= RingLength
    BY <2>3, RememberedEffect, StoreAssumption DEF RingLength
  <2> QED
    BY <2>1, <2>3, <2>4 DEF RingIsBounded, RingLength
<1> QED
  BY <1>6, <1>7, <1>8, <1>9

(* No step of any client, nor time, breaks the invariant.                   *)
LEMMA StoreInductive == Spec => []StoreInv
<1>1. StoreInv /\ [Next]_storeVars => StoreInv'
  <2> SUFFICES ASSUME StoreInv, [Next]_storeVars PROVE StoreInv'
    OBVIOUS
  <2>1. CASE Purge /\ UNCHANGED clock
    <3>1. expired' = [m \in DOMAIN Remembered \ {} |-> Remembered[m]]
      BY <2>1 DEF Purge, Remembered
    <3> QED
      BY <2>1, <3>1, PurgedKeeps DEF Purge, StoreInv, StoreTypeOK
  <2>2. ASSUME NEW id \in StoredId, PutRefused(id), UNCHANGED clock
        PROVE  StoreInv'
    BY <2>2, PurgedKeeps DEF PutRefused, Without, StoreInv, StoreTypeOK
  <2>3. CASE Tick
    BY <2>3 DEF Tick, StoreInv, StoreTypeOK, RanksDistinct, WithinCapacity, RingIsBounded,
                RingLength
  <2>4. CASE UNCHANGED storeVars
    BY <2>4 DEF storeVars, StoreInv, StoreTypeOK, RanksDistinct, WithinCapacity,
                RingIsBounded, RingLength
  <2> QED
    BY <2>1, <2>2, <2>3, <2>4, PutKeeps DEF Next
<1> QED
  BY <1>1, StoreInit, PTL DEF Spec

(* The store and the ring are disjoint and bounded, for every capacity and  *)
(* however the puts, reads and expiries of its clients interleave.          *)
THEOREM StoreIsBounded == Spec => []StoredXorExpired
<1>1. StoreInv => StoredXorExpired
  BY DEF StoreInv, WithinCapacity, RingIsBounded, StoredXorExpired
<1> QED
  BY <1>1, StoreInductive, PTL

(* No operation of the store drops a mission whose work is under way: not   *)
(* expiry, not eviction, and not the put that the store refuses.            *)
THEOREM ActiveIsKept == Spec => ActiveNeverDropped
<1> DEFINE Kept == \A m \in DOMAIN missions : IsActive(m) => m \in DOMAIN missions'
<1>1. ASSUME StoreInv, [Next]_storeVars PROVE [Kept]_storeVars
  <2>1. \A m \in DOMAIN missions : IsActive(m) => m \in Live
    BY DEF Live, Lapsed
  <2>2. ASSUME NEW id \in StoredId, NEW b \in Body, Put(id, b) PROVE Kept
    BY <2>1, <2>2 DEF Put, Victims, Evictable
  <2>3. ASSUME NEW id \in StoredId, PutRefused(id) PROVE Kept
    BY <1>1, <2>1, <2>3, RoomIsMade DEF PutRefused
  <2>4. CASE Purge
    BY <2>1, <2>4 DEF Purge
  <2>5. CASE Tick \/ UNCHANGED storeVars
    BY <2>5 DEF Tick, storeVars
  <2> QED
    BY <1>1, <2>2, <2>3, <2>4, <2>5 DEF Next
<1> QED
  BY <1>1, StoreInductive, PTL DEF Spec, ActiveNeverDropped
-----------------------------------------------------------------------------
(* Why nothing that lapses is forgotten: positions follow the times of the  *)
(* puts, so what is in the ring was put before anything that can still      *)
(* lapse, a mission that was active meanwhile having been put again.        *)
LapseOrder ==
  /\ \A m \in DOMAIN missions : missions[m].at <= clock
  /\ \A m, n \in DOMAIN missions :
       missions[m].rank < missions[n].rank => missions[m].at <= missions[n].at
  /\ \A x \in DOMAIN expired, m \in DOMAIN missions :
       ~IsActive(m) => expired[x] < missions[m].rank

LEMMA LapseOrderInit == Init => LapseOrder
  BY DEF Init, LapseOrder

(* A lapsed mission was put before any that is not active and has not       *)
(* lapsed.                                                                  *)
LEMMA LapsedIsOlder ==
  ASSUME StoreInv, LapseOrder, NEW l \in Lapsed, NEW m \in Live, ~IsActive(m)
  PROVE  missions[l].rank < missions[m].rank
<1>1. l \in DOMAIN missions /\ m \in DOMAIN missions /\ m # l
  BY DEF Lapsed, Live
<1>2. missions[l] \in Stored /\ missions[m] \in Stored /\ clock \in Nat
  BY <1>1 DEF StoreInv, StoreTypeOK
<1>3. missions[l].at < missions[m].at
  <2>1. clock - missions[l].at >= StoreTTL /\ ~(clock - missions[m].at >= StoreTTL)
    BY <1>1 DEF Lapsed, Live
  <2> QED
    BY <1>2, <2>1, StoreAssumption DEF Stored
<1>4. missions[l].rank # missions[m].rank
  BY <1>1 DEF StoreInv, RanksDistinct
<1>5. ~(missions[m].rank < missions[l].rank)
  BY <1>1, <1>2, <1>3 DEF LapseOrder, Stored
<1> QED
  BY <1>2, <1>4, <1>5 DEF Stored

(* What an operation leaves after its purge keeps the order.                *)
LEMMA PurgedKeepsOrder ==
  ASSUME StoreInv, LapseOrder, NEW S \in SUBSET Live, NEW X,
         missions' = [m \in S |-> missions[m]],
         expired' = [m \in DOMAIN Remembered \ X |-> Remembered[m]],
         UNCHANGED clock
  PROVE  LapseOrder'
<1>1. /\ DOMAIN missions' = S /\ S \in SUBSET Live /\ S \in SUBSET DOMAIN missions
      /\ \A m \in S : missions'[m] = missions[m]
  BY LiveEffect
<1>2. \A x \in DOMAIN expired' :
        /\ x \in Lapsed => expired'[x] = missions[x].rank
        /\ x \notin Lapsed => x \in DOMAIN expired /\ expired'[x] = expired[x]
  BY RememberedEffect
<1>3. ASSUME NEW x \in DOMAIN expired', NEW m \in DOMAIN missions', ~IsActive(m)'
      PROVE  expired'[x] < missions'[m].rank
  <2>1. m \in Live /\ ~IsActive(m) /\ missions'[m] = missions[m]
    BY <1>1, <1>3 DEF IsActive
  <2>2. CASE x \in Lapsed
    BY <1>2, <1>3, <2>1, <2>2, LapsedIsOlder
  <2>3. CASE x \notin Lapsed
    BY <1>1, <1>2, <1>3, <2>1, <2>3 DEF LapseOrder
  <2> QED
    BY <2>2, <2>3
<1> QED
  BY <1>1, <1>3 DEF LapseOrder

(* A put is the newest of all.                                              *)
LEMMA PutKeepsOrder ==
  ASSUME StoreInv, LapseOrder, NEW id \in StoredId, NEW b \in Body, Put(id, b),
         UNCHANGED clock
  PROVE  LapseOrder'
<1> DEFINE kept == (Live \cup {id}) \ Victims(id)
<1>1. /\ missions' = [m \in kept |-> IF m = id
                                        THEN [at |-> clock, rank |-> puts + 1, body |-> b]
                                        ELSE missions[m]]
      /\ expired' = [m \in DOMAIN Remembered \ {id} |-> Remembered[m]]
  BY DEF Put, RankFor, Without
<1>2. \A m \in kept : m = id \/ (m \in Live /\ m \in DOMAIN missions)
  BY LiveEffect
<1> HIDE DEF kept
<1>3. /\ DOMAIN missions' = kept
      /\ \A m \in kept :
           /\ m = id => missions'[m].at = clock /\ missions'[m].rank = puts + 1
           /\ m # id => m \in Live /\ m \in DOMAIN missions /\ missions'[m] = missions[m]
  BY <1>1, <1>2
<1>4. /\ puts \in Nat /\ clock \in Nat
      /\ \A m \in DOMAIN missions :
           /\ missions[m].rank \in Nat /\ missions[m].rank <= puts
           /\ missions[m].at \in Nat /\ missions[m].at <= clock
      /\ \A x \in DOMAIN expired : expired[x] \in Nat /\ expired[x] <= puts
  BY DEF StoreInv, StoreTypeOK, Stored, RanksDistinct, LapseOrder
<1>5. \A m \in DOMAIN missions' : missions'[m].at <= clock'
  BY <1>3, <1>4
<1>6. \A m, n \in DOMAIN missions' :
        missions'[m].rank < missions'[n].rank => missions'[m].at <= missions'[n].at
  <2> SUFFICES ASSUME NEW m \in kept, NEW n \in kept,
                      missions'[m].rank < missions'[n].rank
               PROVE  missions'[m].at <= missions'[n].at
    BY <1>3
  <2>1. CASE n = id
    BY <1>3, <1>4, <2>1
  <2>2. CASE m = id /\ n # id
    BY <1>3, <1>4, <2>2
  <2>3. CASE m # id /\ n # id
    BY <1>3, <2>3 DEF LapseOrder
  <2> QED
    BY <2>1, <2>2, <2>3
<1>7. ASSUME NEW x \in DOMAIN expired', NEW m \in DOMAIN missions', ~IsActive(m)'
      PROVE  expired'[x] < missions'[m].rank
  <2>1. /\ x \in Lapsed => x \in DOMAIN missions /\ expired'[x] = missions[x].rank
        /\ x \notin Lapsed => x \in DOMAIN expired /\ expired'[x] = expired[x]
    BY <1>1, RememberedEffect DEF Lapsed
  <2>2. CASE m = id
    BY <1>3, <1>4, <2>1, <2>2
  <2>3. CASE m # id
    <3>1. m \in Live /\ m \in DOMAIN missions /\ missions'[m] = missions[m]
      BY <1>3, <2>3
    <3>2. ~IsActive(m)
      BY <1>7, <3>1 DEF IsActive
    <3> QED
      BY <2>1, <3>1, <3>2, LapsedIsOlder DEF LapseOrder
  <2> QED
    BY <2>2, <2>3
<1> QED
  BY <1>5, <1>6, <1>7 DEF LapseOrder

LEMMA LapseOrderNext == StoreInv /\ LapseOrder /\ [Next]_storeVars => LapseOrder'
<1> SUFFICES ASSUME StoreInv, LapseOrder, [Next]_storeVars PROVE LapseOrder'
  OBVIOUS
<1>1. CASE Purge /\ UNCHANGED clock
  <2>1. expired' = [m \in DOMAIN Remembered \ {} |-> Remembered[m]]
    BY <1>1 DEF Purge, Remembered
  <2> QED
    BY <1>1, <2>1, PurgedKeepsOrder DEF Purge
<1>2. ASSUME NEW id \in StoredId, PutRefused(id), UNCHANGED clock
      PROVE  LapseOrder'
  BY <1>2, PurgedKeepsOrder DEF PutRefused, Without
<1>3. CASE Tick
  <2>1. clock' = clock + 1 /\ UNCHANGED <<missions, expired>> /\ clock \in Nat
    BY <1>3 DEF Tick, StoreInv, StoreTypeOK
  <2>2. \A m \in DOMAIN missions : missions[m].at \in Nat /\ missions[m].at <= clock
    BY DEF StoreInv, StoreTypeOK, Stored, LapseOrder
  <2> QED
    BY <2>1, <2>2 DEF LapseOrder, IsActive
<1>4. CASE UNCHANGED storeVars
  BY <1>4 DEF storeVars, LapseOrder, IsActive
<1> QED
  BY <1>1, <1>2, <1>3, <1>4, PutKeepsOrder DEF Next

(* The ring has a place for all that lapses at once.                        *)
LEMMA LapsedIsInRing ==
  ASSUME StoreInv, LapseOrder
  PROVE  Lapsed \subseteq DOMAIN Remembered
<1> SUFFICES ASSUME NEW l \in Lapsed PROVE l \in DOMAIN Remembered
  OBVIOUS
<1> USE StoreAssumption DEF StoreInv
<1> DEFINE ids == DOMAIN expired \cup Lapsed
           all == [m \in ids |-> IF m \in Lapsed THEN missions[m].rank ELSE expired[m]]
           newer(m) == {n \in ids : all[n] > all[m]}
<1>1. Remembered = [m \in {n \in ids : Cardinality(newer(n)) < RingLength} |-> all[m]]
  BY DEF Remembered
<1>2. Lapsed \in SUBSET DOMAIN missions /\ \A m \in Lapsed : ~IsActive(m)
  BY DEF Lapsed
<1>3. newer(l) \in SUBSET (DOMAIN missions \ {l})
  <2> SUFFICES ASSUME NEW n \in ids, all[n] > all[l]
               PROVE  n \in DOMAIN missions /\ n # l
    OBVIOUS
  <2>1. all[l] = missions[l].rank /\ missions[l].rank \in Nat
    BY <1>2 DEF StoreTypeOK, Stored
  <2>2. CASE n \in Lapsed
    BY <1>2, <2>1, <2>2
  <2>3. CASE n \notin Lapsed
    <3>1. n \in DOMAIN expired /\ all[n] = expired[n] /\ expired[n] \in Nat
      BY <2>3 DEF StoreTypeOK
    <3>2. expired[n] < missions[l].rank
      BY <1>2, <3>1 DEF LapseOrder
    <3> HIDE DEF all
    <3> QED
      BY <2>1, <3>1, <3>2
  <2> QED
    BY <2>2, <2>3
<1> HIDE DEF newer
<1>4. /\ IsFiniteSet(DOMAIN missions \ {l})
      /\ Cardinality(DOMAIN missions \ {l}) = Cardinality(DOMAIN missions) - 1
      /\ Cardinality(DOMAIN missions) \in Nat
      /\ Cardinality(DOMAIN missions) <= StoreCapacity
  BY <1>2, FS_RemoveElement, FS_CardinalityType DEF WithinCapacity
<1>5. Cardinality(newer(l)) \in Nat
      /\ Cardinality(newer(l)) <= Cardinality(DOMAIN missions \ {l})
  BY <1>3, <1>4, FS_Subset, FS_CardinalityType
<1>6. StoreCapacity <= RingLength /\ RingLength \in Nat
  <2>1. \A a, c \in Nat \ {0} : c <= a * c /\ a * c \in Nat
    OBVIOUS
  <2> QED
    BY <2>1 DEF RingLength
<1>7. Cardinality(newer(l)) < RingLength
  BY <1>4, <1>5, <1>6
<1> QED
  BY <1>1, <1>7 DEF newer

(* A mission that is lost to age is in the ring from then on: no purge that *)
(* takes it, of a read or of a put, finds the ring full of newer ids.       *)
THEOREM LapsedIsKept == Spec => LapsedIsRemembered
<1> DEFINE Kept == \A m \in Lapsed : m \in DOMAIN missions' \/ m \in DOMAIN expired'
<1>1. ASSUME StoreInv, LapseOrder, [Next]_storeVars PROVE [Kept]_storeVars
  <2>1. Lapsed \subseteq DOMAIN Remembered /\ Lapsed \subseteq DOMAIN missions
    BY <1>1, LapsedIsInRing DEF Lapsed
  <2>2. ASSUME NEW id \in StoredId, NEW b \in Body, Put(id, b) PROVE Kept
    <3>1. DOMAIN expired' = DOMAIN Remembered \ {id}
      BY <2>2 DEF Put, Without
    <3>2. id \in DOMAIN missions'
      BY <2>2 DEF Put, Victims, Evictable
    <3> QED
      BY <2>1, <3>1, <3>2
  <2>3. ASSUME NEW id \in StoredId, MayPut(id), PutRefused(id) PROVE Kept
    <3>1. DOMAIN expired' = DOMAIN Remembered \ {id}
      BY <2>3 DEF PutRefused, Without
    <3>2. id \notin Lapsed
      BY <2>3 DEF MayPut, Lapsed
    <3> QED
      BY <2>1, <3>1, <3>2
  <2>4. CASE Purge
    BY <2>1, <2>4 DEF Purge
  <2>5. CASE Tick \/ UNCHANGED storeVars
    BY <2>1, <2>5 DEF Tick, storeVars
  <2> QED
    BY <1>1, <2>2, <2>3, <2>4, <2>5 DEF Next
<1> QED
  BY <1>1, StoreInductive, LapseOrderInit, LapseOrderNext, PTL
     DEF Spec, LapsedIsRemembered
=============================================================================
