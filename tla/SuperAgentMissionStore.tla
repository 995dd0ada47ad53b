----------------------- MODULE SuperAgentMissionStore -----------------------
(***************************************************************************)
(* The bounded mission store of backend/app/superagent/store.py, shared by *)
(* the three PCAP coordinators and the prompt SuperAgent service.          *)
(*                                                                         *)
(* It is an OrderedDict from mission id to (time of the last put, mission) *)
(* with a capacity and a time to live, beside a ring of the ids that       *)
(* expired.  A mission whose PCAP work is queued or running ("active") is  *)
(* neither expired nor evicted.  Every operation runs under the store's    *)
(* RLock and starts by purging what has lapsed.                            *)
(*                                                                         *)
(* The position in the dictionary is the rank of the last put: put removes *)
(* the id and reinserts it at the end.  The ring keeps ids in the order in *)
(* which they were purged.  That is rank order (a lower rank is an older   *)
(* put, so it lapses no later), so the ring is a function from id to rank  *)
(* of which the highest ranks are kept.  `_expired_ids` is its domain.     *)
(***************************************************************************)
EXTENDS Integers, FiniteSets

CONSTANTS StoredId,        \* ids of the missions any client of the store puts
          Body,            \* what is stored for a mission
          ActiveBody,      \* those with status QUEUED or RUNNING
          StoreTTL,        \* ttl_seconds
          StoreCapacity,   \* capacity
          RingPerSlot,     \* ring length / capacity: 4 in the code
          MaxPuts,         \* bound: puts
          MaxClock         \* bound: last instant of the monotonic clock

ASSUME StoreAssumption ==
  /\ ActiveBody \subseteq Body
  /\ StoreTTL \in Nat \ {0}
  /\ StoreCapacity \in Nat \ {0}
  /\ RingPerSlot \in Nat \ {0}
  /\ MaxPuts \in Nat
  /\ MaxClock \in Nat

VARIABLES missions,  \* id -> [at, rank, body]
          expired,   \* id -> rank it had: the ring of expired ids
          puts,      \* how many puts there were
          clock      \* time.monotonic()

storeVars == <<missions, expired, puts, clock>>

Stored == [at : Nat, rank : Nat, body : Body]

StoreTypeOK ==
  /\ DOMAIN missions \subseteq StoredId
  /\ missions \in [DOMAIN missions -> Stored]
  /\ DOMAIN expired \subseteq StoredId
  /\ expired \in [DOMAIN expired -> Nat]
  /\ puts \in Nat
  /\ clock \in Nat
-----------------------------------------------------------------------------
Init ==
  /\ missions = [m \in {} |-> 0]
  /\ expired = [m \in {} |-> 0]
  /\ puts = 0
  /\ clock = 0

IsActive(m) == missions[m].body \in ActiveBody

(* Beside some operators stands a faulty variant, named for the slip in the *)
(* code that it stands for: here expiry that takes active missions too.     *)
LapsedAnyway == {m \in DOMAIN missions : clock - missions[m].at >= StoreTTL}

(* What _purge_expired removes now, and what it leaves.                     *)
Lapsed == {m \in DOMAIN missions : /\ clock - missions[m].at >= StoreTTL
                                   /\ ~IsActive(m)}
Live == DOMAIN missions \ Lapsed

RingOfOneSlot == RingPerSlot
RingLength == RingPerSlot * StoreCapacity

(* The ring after _remember_expired was called for every lapsed id.         *)
Remembered ==
  LET all  == [m \in DOMAIN expired \cup Lapsed |->
                 IF m \in Lapsed THEN missions[m].rank ELSE expired[m]]
      newer(m) == {n \in DOMAIN all : all[n] > all[m]}
  IN  [m \in {n \in DOMAIN all :
                Cardinality(newer(n)) < RingLength} |-> all[m]]

WithoutForgetting(f, id) == f
Without(f, id) == [m \in DOMAIN f \ {id} |-> f[m]]

(* get and snapshot: purge, then only read.  get finds exactly Live; of the *)
(* others it raises Expired for those in the ring and NotFound for the rest.*)
Purge ==
  /\ missions' = [m \in Live |-> missions[m]]
  /\ expired' = Remembered
  /\ UNCHANGED puts

Found(id) == id \in Live

(* Inserting id takes the store over its capacity, and who may make room.   *)
Overfull(id) == Cardinality(Live \cup {id}) > StoreCapacity
EvictAnyone(id) == Live \ {id}
EvictNobody(id) == {}
Evictable(id) == {m \in Live \ {id} : ~IsActive(m)}
Victims(id) ==
  IF Overfull(id)
    THEN {m \in Evictable(id) :
            \A n \in Evictable(id) : missions[m].rank <= missions[n].rank}
    ELSE {}

PutAccepted(id) == Overfull(id) => Evictable(id) # {}

(* The end of the dictionary.                                               *)
RankFor(id) == puts + 1

(* put: purge, remove and reinsert at the end, forget that the id expired,  *)
(* evict the first mission that is not active.                              *)
Put(id, b) ==
  /\ PutAccepted(id)
  /\ missions' = [m \in (Live \cup {id}) \ Victims(id) |->
                    IF m = id THEN [at |-> clock, rank |-> RankFor(id), body |-> b]
                              ELSE missions[m]]
  /\ expired' = Without(Remembered, id)
  /\ puts' = puts + 1

(* put when every other mission is active: the new one is taken out again   *)
(* and ValueError is raised.                                                *)
PutRefused(id) ==
  /\ ~PutAccepted(id)
  /\ missions' = [m \in Live \ {id} |-> missions[m]]
  /\ expired' = Without(Remembered, id)
  /\ UNCHANGED puts

Tick ==
  /\ clock < MaxClock
  /\ clock' = clock + 1
  /\ UNCHANGED <<missions, expired, puts>>

(* Clients put a mission under a fresh id and again while it is active.     *)
MayPut(id) == id \in DOMAIN missions => IsActive(id)

Next ==
  \/ \E id \in StoredId, b \in Body :
       /\ puts < MaxPuts
       /\ MayPut(id)
       /\ Put(id, b)
       /\ UNCHANGED clock
  \/ \E id \in StoredId : MayPut(id) /\ PutRefused(id) /\ UNCHANGED clock
  \/ Purge /\ UNCHANGED clock
  \/ Tick

Spec == Init /\ [][Next]_storeVars
-----------------------------------------------------------------------------
(* The store never loses a mission whose work is queued or running, however *)
(* full or however old it is: neither expiry nor eviction nor a refused put *)
(* may drop it, or its coordinator could no longer publish the outcome.     *)
ActiveNeverDropped ==
  [][\A m \in DOMAIN missions : IsActive(m) => m \in DOMAIN missions']_storeVars

(* An id is either stored or in the ring of expired ids, never both (GET    *)
(* would otherwise depend on which is looked up first), and neither grows   *)
(* past its limit.                                                          *)
StoredXorExpired ==
  /\ DOMAIN missions \cap DOMAIN expired = {}
  /\ Cardinality(DOMAIN missions) <= StoreCapacity
  /\ Cardinality(DOMAIN expired) <= RingLength

(* A mission that is lost to age is reported expired (410) from then on,    *)
(* not unknown (404): making room for a put never takes what the purge of   *)
(* the same put has already moved to the ring, and the ring has room for    *)
(* everything that can lapse at once.                                       *)
LapsedIsRemembered ==
  [][\A m \in Lapsed : m \in DOMAIN missions' \/ m \in DOMAIN expired']_storeVars
=============================================================================
