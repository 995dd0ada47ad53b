----------------------- MODULE PcapMissionSlotProofs -----------------------
(***************************************************************************)
(* Facts about the two stores and the mission slot that the proofs of the  *)
(* coordinators share.                                                     *)
(***************************************************************************)
EXTENDS PcapMissionSlot, FiniteSetTheorems, TLAPS

(* A put stores the body under the id, keeps every other mission that is    *)
(* open and adds nothing else: expiry and eviction only take settled ones.  *)
LEMMA PutEffect ==
  ASSUME NEW id, NEW b \in Body, Store!StoreTypeOK, Store!Put(id, b)
  PROVE  /\ id \in DOMAIN missions'
         /\ missions'[id].body = b
         /\ \A m \in DOMAIN missions' \ {id} :
              m \in DOMAIN missions /\ missions'[m] = missions[m]
         /\ \A m \in DOMAIN missions :
              missions[m].body \in ActiveBody => m \in DOMAIN missions'
<1>1. Store!Victims(id) \subseteq Store!Live \ {id}
  BY DEF Store!Victims, Store!Evictable
<1>2. \A m \in Store!Victims(id) : missions[m].body \notin ActiveBody
  BY DEF Store!Victims, Store!Evictable, Store!IsActive
<1>3. \A m \in DOMAIN missions :
         missions[m].body \in ActiveBody => m \in Store!Live
  BY DEF Store!Live, Store!Lapsed, Store!IsActive
<1>4. Store!Live \subseteq DOMAIN missions
  BY DEF Store!Live
<1>5. missions' = [m \in (Store!Live \cup {id}) \ Store!Victims(id) |->
                     IF m = id THEN [at |-> clock, rank |-> puts + 1, body |-> b]
                               ELSE missions[m]]
  BY DEF Store!Put, Store!RankFor
<1> QED
  BY <1>1, <1>2, <1>3, <1>4, <1>5

(* A purge keeps what is open and changes nothing that it keeps.            *)
LEMMA PurgeEffect ==
  ASSUME Store!Purge
  PROVE  /\ \A m \in DOMAIN missions' :
              m \in DOMAIN missions /\ missions'[m] = missions[m]
         /\ \A m \in DOMAIN missions :
              missions[m].body \in ActiveBody => m \in DOMAIN missions'
<1>1. missions' = [m \in Store!Live |-> missions[m]]
  BY DEF Store!Purge
<1> QED
  BY <1>1 DEF Store!Live, Store!Lapsed, Store!IsActive

(* The ring stays a function from stored ids to ranks.                      *)
LEMMA RememberedType ==
  ASSUME Store!StoreTypeOK
  PROVE  /\ DOMAIN Store!Remembered \subseteq StoredId
         /\ Store!Remembered \in [DOMAIN Store!Remembered -> Nat]
<1> DEFINE all == [m \in DOMAIN expired \cup Store!Lapsed |->
                     IF m \in Store!Lapsed THEN missions[m].rank ELSE expired[m]]
<1>1. DOMAIN expired \cup Store!Lapsed \subseteq StoredId
  BY DEF Store!StoreTypeOK, Store!Lapsed
<1>2. ASSUME NEW m \in DOMAIN expired \cup Store!Lapsed
      PROVE  all[m] \in Nat
  BY DEF Store!StoreTypeOK, Store!Lapsed, Store!Stored
<1> QED
  BY <1>1, <1>2 DEF Store!Remembered

(* put keeps the type of the mission store.                                 *)
LEMMA PutType ==
  ASSUME NEW id \in StoredId, NEW b \in Body,
         Store!StoreTypeOK, Store!Put(id, b), UNCHANGED clock
  PROVE  Store!StoreTypeOK'
<1>1. /\ DOMAIN missions' \subseteq StoredId
      /\ missions' \in [DOMAIN missions' -> Store!Stored]
  BY DEF Store!Put, Store!RankFor, Store!StoreTypeOK, Store!Stored, Store!Live
<1>2. /\ DOMAIN expired' \subseteq StoredId
      /\ expired' \in [DOMAIN expired' -> Nat]
  BY RememberedType DEF Store!Put, Store!Without
<1> QED
  BY <1>1, <1>2 DEF Store!Put, Store!StoreTypeOK

(* So does the purge of get and snapshot.                                   *)
LEMMA PurgeType ==
  ASSUME Store!StoreTypeOK, Store!Purge, UNCHANGED clock
  PROVE  Store!StoreTypeOK'
<1>1. /\ DOMAIN missions' \subseteq StoredId
      /\ missions' \in [DOMAIN missions' -> Store!Stored]
  BY DEF Store!Purge, Store!StoreTypeOK, Store!Live
<1>2. /\ DOMAIN expired' \subseteq StoredId
      /\ expired' \in [DOMAIN expired' -> Nat]
  BY RememberedType DEF Store!Purge
<1> QED
  BY <1>1, <1>2 DEF Store!Purge, Store!StoreTypeOK

(* So does a refused put, which drops no open mission either.               *)
LEMMA PutRefusedEffect ==
  ASSUME NEW id \in StoredId, Store!StoreTypeOK, Store!PutRefused(id),
         UNCHANGED clock
  PROVE  /\ Store!StoreTypeOK'
         /\ \A m \in DOMAIN missions' :
              m \in DOMAIN missions /\ missions'[m] = missions[m]
         /\ \A m \in DOMAIN missions \ {id} :
              missions[m].body \in ActiveBody => m \in DOMAIN missions'
<1>1. missions' = [m \in Store!Live \ {id} |-> missions[m]]
  BY DEF Store!PutRefused
<1>2. /\ DOMAIN expired' \subseteq StoredId
      /\ expired' \in [DOMAIN expired' -> Nat]
  BY RememberedType DEF Store!PutRefused, Store!Without
<1>3. Store!StoreTypeOK'
  BY <1>1, <1>2 DEF Store!PutRefused, Store!StoreTypeOK, Store!Live
<1> QED
  BY <1>1, <1>3 DEF Store!Live, Store!Lapsed, Store!IsActive
-----------------------------------------------------------------------------
(* The authorization store keeps its type.                                  *)
LEMMA IssueType ==
  ASSUME NEW p \in Purpose, Auth!AuthTypeOK, Auth!Issue(p)
  PROVE  Auth!AuthTypeOK'
<1> USE CoordinatorAssumption DEF Auth!AuthTypeOK
<1> DEFINE held == DOMAIN authorizations \cup {issued + 1}
           entry == [purpose |-> p, expiresAt |-> clock + AuthTTL, used |-> FALSE]
<1>1. issued' \in 0..MaxIssued /\ UNCHANGED <<clock, grants>>
  BY DEF Auth!Issue
<1>2. PICK kept \in SUBSET held :
        authorizations' = [t \in kept |-> IF t = issued + 1 THEN entry
                                          ELSE authorizations[t]]
  BY DEF Auth!Issue, Auth!Deadline
<1>3. held \subseteq 1..issued'
  BY DEF Auth!Issue
<1>4. entry \in Auth!Entry
  BY DEF Auth!Entry
<1>5. \A t \in kept : t # issued + 1 => authorizations[t] \in Auth!Entry
  OBVIOUS
<1> HIDE DEF held, entry
<1>6. /\ DOMAIN authorizations' \subseteq 1..issued'
      /\ authorizations' \in [DOMAIN authorizations' -> Auth!Entry]
  BY <1>1, <1>2, <1>3, <1>4, <1>5
<1> QED
  BY <1>1, <1>6

(* consume keeps the type of the authorization store.                       *)
LEMMA ConsumeType ==
  ASSUME NEW t, NEW p \in Purpose, Auth!AuthTypeOK, Auth!Consume(t, p)
  PROVE  Auth!AuthTypeOK'
<1> USE DEF Auth!AuthTypeOK, Auth!Consume, Auth!Usable, Auth!Entry, Auth!Token
<1>1. t \in DOMAIN authorizations /\ t \in 1..MaxIssued
  BY CoordinatorAssumption
<1>2. /\ DOMAIN authorizations' = DOMAIN authorizations
      /\ \A u \in DOMAIN authorizations :
           authorizations'[u] \in [purpose : Purpose, expiresAt : Nat, used : BOOLEAN]
  BY <1>1
<1>3. grants' \in [1..MaxIssued -> Nat]
  BY <1>1
<1> QED
  BY <1>2, <1>3

(* So does the clock.                                                       *)
LEMMA TickType ==
  ASSUME SlotTypeOK, Auth!Tick, UNCHANGED storeVars
  PROVE  Auth!AuthTypeOK' /\ Store!StoreTypeOK'
<1>1. clock' \in 0..MaxClock /\ clock' \in Nat
  BY CoordinatorAssumption DEF SlotTypeOK, Auth!AuthTypeOK, Auth!Tick
<1>2. Auth!AuthTypeOK'
  BY <1>1 DEF SlotTypeOK, Auth!AuthTypeOK, Auth!Tick
<1>3. Store!StoreTypeOK'
  BY <1>1 DEF SlotTypeOK, Store!StoreTypeOK, storeVars
<1> QED
  BY <1>2, <1>3
-----------------------------------------------------------------------------
(* The missions of this coordinator, except m, only change by being         *)
(* forgotten after they have settled.                                       *)
ForgetsBut(m) ==
  \A n \in MissionId \ {m} :
    /\ n \in DOMAIN missions' => n \in DOMAIN missions /\ missions'[n] = missions[n]
    /\ IsOpen(n) => n \in DOMAIN missions'

Forgets == ForgetsBut(NoMission)

(* An open mission is one that the store holds active.                      *)
LEMMA OpenIsActive ==
  ASSUME Store!StoreTypeOK, NEW m, IsOpen(m)
  PROVE  m \in DOMAIN missions /\ missions[m].body \in ActiveBody
BY DEF IsOpen, Store!StoreTypeOK, Store!Stored, Body, ActiveBody

(* A put by this coordinator stores its mission and forgets no open one.    *)
LEMMA OwnPut ==
  ASSUME SlotTypeOK, NEW m \in MissionId, NEW b \in Body, Store!Put(m, b),
         UNCHANGED clock
  PROVE  /\ Store!StoreTypeOK'
         /\ m \in DOMAIN missions' /\ missions'[m].body = b
         /\ ForgetsBut(m)
BY PutEffect, PutType, OpenIsActive DEF SlotTypeOK, ForgetsBut, StoredId

(* A purge by this coordinator forgets no open mission.                     *)
LEMMA OwnPurge ==
  ASSUME SlotTypeOK, Store!Purge, UNCHANGED clock
  PROVE  Store!StoreTypeOK' /\ Forgets
BY PurgeEffect, PurgeType, OpenIsActive DEF SlotTypeOK, Forgets, ForgetsBut

(* What is not put keeps its status or is forgotten when settled.           *)
LEMMA ForgetsStatus ==
  ASSUME NEW m, ForgetsBut(m)
  PROVE  \A n \in MissionId \ {m} :
           /\ IsOpen(n)' <=> IsOpen(n)
           /\ IsSettled(n)' => IsSettled(n) /\ missions'[n] = missions[n]
           /\ n \in DOMAIN missions' =>
                n \in DOMAIN missions /\ missions'[n] = missions[n]
BY DEF ForgetsBut, IsOpen, IsSettled

(* Other threads leave the slot alone and its open missions in the store.   *)
LEMMA EnvironmentStep ==
  ASSUME SlotTypeOK, Environment
  PROVE  /\ SlotTypeOK'
         /\ Forgets
         /\ UNCHANGED <<workVars, handler, closeVars, historyVars>>
<1> USE DEF workVars, closeVars, historyVars
<1>1. ASSUME NEW p \in Purpose, Issue(p)
      PROVE  /\ Auth!AuthTypeOK' /\ Store!StoreTypeOK' /\ Forgets
             /\ UNCHANGED <<workVars, handler, closeVars, historyVars>>
  <2>1. Auth!AuthTypeOK' /\ UNCHANGED clock
    BY <1>1, IssueType DEF Issue, SlotTypeOK, Auth!Issue
  <2> QED
    BY <1>1, <2>1
       DEF Issue, SlotTypeOK, storeVars, Store!StoreTypeOK, Forgets, ForgetsBut,
           IsOpen
<1>2. ASSUME Tick
      PROVE  /\ Auth!AuthTypeOK' /\ Store!StoreTypeOK' /\ Forgets
             /\ UNCHANGED <<workVars, handler, closeVars, historyVars>>
  BY <1>2, TickType DEF Tick, Forgets, ForgetsBut, IsOpen, storeVars
<1>3. ASSUME NEW f \in ForeignId, ForeignPut(f)
      PROVE  /\ Auth!AuthTypeOK' /\ Store!StoreTypeOK' /\ Forgets
             /\ UNCHANGED <<workVars, handler, closeVars, historyVars>>
  <2>1. PICK status \in {"running", "completed"} :
          Store!Put(f, [status |-> status, summary |-> "none"])
    BY <1>3 DEF ForeignPut
  <2>2. [status |-> status, summary |-> "none"] \in Body
    BY DEF Body, Status, Open, Settled, Summary
  <2>3. UNCHANGED <<authVars, clock, workVars, handler, closeVars, historyVars>>
    BY <1>3 DEF ForeignPut
  <2>4. Store!StoreTypeOK'
    BY <2>1, <2>2, <2>3, PutType DEF SlotTypeOK, StoredId
  <2>5. Forgets
    BY <2>1, <2>2, PutEffect, OpenIsActive, CoordinatorAssumption
       DEF SlotTypeOK, Forgets, ForgetsBut
  <2> QED
    BY <2>3, <2>4, <2>5 DEF SlotTypeOK, authVars, Auth!AuthTypeOK
<1>4. ASSUME NEW f \in ForeignId, ForeignPutRefused(f)
      PROVE  /\ Auth!AuthTypeOK' /\ Store!StoreTypeOK' /\ Forgets
             /\ UNCHANGED <<workVars, handler, closeVars, historyVars>>
  <2>1. UNCHANGED <<authVars, clock, workVars, handler, closeVars, historyVars>>
    BY <1>4 DEF ForeignPutRefused
  <2>2. Store!StoreTypeOK' /\ Forgets
    BY <1>4, <2>1, PutRefusedEffect, OpenIsActive, CoordinatorAssumption
       DEF ForeignPutRefused, SlotTypeOK, Forgets, ForgetsBut, StoredId
  <2> QED
    BY <2>1, <2>2 DEF SlotTypeOK, authVars, Auth!AuthTypeOK
<1>5. ASSUME ReadStore
      PROVE  /\ Auth!AuthTypeOK' /\ Store!StoreTypeOK' /\ Forgets
             /\ UNCHANGED <<workVars, handler, closeVars, historyVars>>
  <2>1. UNCHANGED <<authVars, clock, workVars, handler, closeVars, historyVars>>
    BY <1>5 DEF ReadStore
  <2>2. Store!StoreTypeOK' /\ Forgets
    BY <1>5, <2>1, OwnPurge DEF ReadStore
  <2> QED
    BY <2>1, <2>2 DEF SlotTypeOK, authVars, Auth!AuthTypeOK
<1>6. /\ Auth!AuthTypeOK' /\ Store!StoreTypeOK' /\ Forgets
      /\ UNCHANGED <<workVars, handler, closeVars, historyVars>>
  BY <1>1, <1>2, <1>3, <1>4, <1>5 DEF Environment
<1> QED
  BY <1>6 DEF SlotTypeOK
-----------------------------------------------------------------------------
(* The steps of start and close keep the types; start leaves the missions   *)
(* and the slot alone until it publishes.                                   *)
LEMMA StartCheckStep ==
  ASSUME SlotTypeOK, NEW t \in 1..MaxIssued, StartCheck(t)
  PROVE  /\ SlotTypeOK'
         /\ active = {} /\ closer = "open"
         /\ handler' = [op |-> "consume", token |-> t]
         /\ UNCHANGED <<missions, workVars, closeVars, historyVars>>
BY DEF StartCheck, SlotTypeOK, authVars, storeVars, workVars, closeVars,
       historyVars, Auth!AuthTypeOK, Store!StoreTypeOK

(* consume, or its refusal, touches no mission and no slot.                 *)
LEMMA StartConsumeStep ==
  ASSUME SlotTypeOK, handler \in StartHandler, StartConsume
  PROVE  /\ SlotTypeOK'
         /\ handler.op = "consume"
         /\ \/ handler' = [op |-> "publish", token |-> handler.token]
            \/ handler' = Free
         /\ UNCHANGED <<missions, workVars, closeVars, historyVars>>
<1>1. handler.op = "consume" /\ UNCHANGED <<storeVars, workVars, closeVars, historyVars>>
  BY DEF StartConsume
<1>2. CASE /\ Auth!Consume(handler.token, OwnPurpose)
           /\ handler' = [handler EXCEPT !.op = "publish"]
  <2>1. Auth!AuthTypeOK' /\ UNCHANGED clock
    BY <1>2, ConsumeType, CoordinatorAssumption DEF SlotTypeOK, Auth!Consume
  <2>2. handler' = [op |-> "publish", token |-> handler.token]
    BY <1>1, <1>2 DEF StartHandler
  <2> QED
    BY <1>1, <2>1, <2>2
       DEF SlotTypeOK, storeVars, workVars, closeVars, historyVars, Store!StoreTypeOK
<1>3. CASE handler' = Free /\ UNCHANGED <<authVars, clock>>
  BY <1>1, <1>3
     DEF SlotTypeOK, authVars, storeVars, workVars, closeVars, historyVars,
         Auth!AuthTypeOK, Store!StoreTypeOK
<1> QED
  BY <1>2, <1>3 DEF StartConsume

(* Publishing the queued mission takes the slot and queues the work.        *)
LEMMA StartPublishStep ==
  ASSUME SlotTypeOK, handler \in StartHandler,
         NEW m \in MissionId, StartPublish(m)
  PROVE  /\ SlotTypeOK'
         /\ handler.op = "publish" /\ handler' = Free
         /\ funded[m] = 0
         /\ ForgetsBut(m)
         /\ m \in DOMAIN missions'
         /\ missions'[m].body = [status |-> "queued", summary |-> "none"]
         /\ funded'[m] # 0
         /\ \A n \in MissionId \ {m} : funded'[n] = funded[n]
         /\ active' = active \cup {m}
         /\ queue' = Append(queue, m)
         /\ UNCHANGED <<cancelRequested, worker, closeVars, acknowledged>>
<1> DEFINE b == [status |-> "queued", summary |-> "none"]
<1>1. b \in Body
  BY DEF Body, Status, Open, Settled, Summary
<1>2. Store!Put(m, b) /\ UNCHANGED <<authVars, clock, closeVars>>
  BY DEF StartPublish
<1>3. /\ Store!StoreTypeOK' /\ ForgetsBut(m)
      /\ m \in DOMAIN missions' /\ missions'[m].body = b
  BY <1>1, <1>2, OwnPut
<1>4. handler.token \in 1..MaxIssued
  BY DEF StartPublish, StartHandler
<1>5. /\ funded' \in [MissionId -> 0..MaxIssued]
      /\ funded'[m] # 0
      /\ \A n \in MissionId \ {m} : funded'[n] = funded[n]
  BY <1>4, CoordinatorAssumption DEF StartPublish, SlotTypeOK
<1> QED
  BY <1>2, <1>3, <1>5
     DEF StartPublish, Fresh, SlotTypeOK, authVars, closeVars, Auth!AuthTypeOK

(* close touches the missions only through cancel.                          *)
LEMMA CloseStep ==
  ASSUME SlotTypeOK, CloseBegin \/ CloseDrain \/ CloseDone
  PROVE  /\ SlotTypeOK'
         /\ UNCHANGED <<missions, workVars, handler, historyVars>>
BY DEF CloseBegin, CloseDrain, CloseDone, SlotTypeOK, authVars, storeVars,
       workVars, historyVars, closeVars, CloserPc, Auth!AuthTypeOK,
       Store!StoreTypeOK
-----------------------------------------------------------------------------
(* What a token paid for: the history of grants agrees with what start has  *)
(* published or is about to, and the dictionary never shows a granted token *)
(* as unused, nor does a token that is still to be issued count as granted. *)
Paid(t) == {m \in MissionId : funded[m] = t}
Due(t) == handler.op = "publish" /\ handler.token = t

TokenInv ==
  /\ \A t \in 1..MaxIssued :
       /\ grants[t] = IF Paid(t) # {} \/ Due(t) THEN 1 ELSE 0
       /\ Due(t) => Paid(t) = {}
       /\ t \in DOMAIN authorizations => (authorizations[t].used <=> grants[t] = 1)
       /\ t > issued => grants[t] = 0
  /\ \A m, n \in MissionId : funded[m] = funded[n] /\ funded[m] # 0 => m = n

(* Counted: what a token paid for is no mission or one.                     *)
LEMMA TokenInvCounts ==
  ASSUME SlotTypeOK, TokenInv
  PROVE  TokenFundsOneMission
<1> SUFFICES ASSUME NEW t \in 1..MaxIssued
             PROVE  /\ grants[t] = Cardinality(Paid(t)) + (IF Due(t) THEN 1 ELSE 0)
                    /\ grants[t] <= 1
  BY DEF TokenFundsOneMission, Paid, Due
<1>1. CASE Paid(t) = {}
  BY <1>1, FS_EmptySet DEF TokenInv
<1>2. CASE Paid(t) # {}
  <2>1. PICK m \in MissionId : funded[m] = t
    BY <1>2 DEF Paid
  <2>2. Paid(t) = {m}
    BY <2>1 DEF Paid, TokenInv
  <2>3. Cardinality(Paid(t)) = 1
    BY <2>2, FS_Singleton
  <2> QED
    BY <1>2, <2>3 DEF TokenInv
<1> QED
  BY <1>1, <1>2

(* Steps that leave the authorizations and what is funded alone, outside    *)
(* start or with the handler where it is.                                   *)
LEMMA TokenQuiet ==
  ASSUME TokenInv, UNCHANGED <<authVars, funded>>,
         UNCHANGED handler \/ (handler.op # "publish" /\ handler'.op # "publish")
  PROVE  TokenInv'
<1>1. \A t \in 1..MaxIssued : Paid(t)' = Paid(t) /\ (Due(t)' <=> Due(t))
  BY DEF Paid, Due
<1> QED
  BY <1>1 DEF TokenInv, authVars

(* A new authorization is fresh, and the dictionary keeps the others.       *)
LEMMA TokenIssue ==
  ASSUME SlotTypeOK, TokenInv, NEW p \in Purpose, Issue(p)
  PROVE  TokenInv'
<1>1. /\ UNCHANGED <<grants, handler, funded>>
      /\ issued' = issued + 1 /\ issued \in Nat
  BY DEF Issue, Auth!Issue, historyVars, SlotTypeOK, Auth!AuthTypeOK
<1>2. \A t \in DOMAIN authorizations' :
        IF t = issued + 1
          THEN authorizations'[t].used = FALSE
          ELSE t \in DOMAIN authorizations /\ authorizations'[t] = authorizations[t]
  <2> DEFINE held == DOMAIN authorizations \cup {issued + 1}
             entry == [purpose |-> p, expiresAt |-> clock + AuthTTL, used |-> FALSE]
  <2>1. PICK kept \in SUBSET held :
          authorizations' = [t \in kept |-> IF t = issued + 1 THEN entry
                                            ELSE authorizations[t]]
    BY DEF Issue, Auth!Issue, Auth!Deadline
  <2> QED
    BY <2>1
<1>3. \A t \in 1..MaxIssued : Paid(t)' = Paid(t) /\ (Due(t)' <=> Due(t))
  BY <1>1 DEF Paid, Due
<1>4. \A t \in 1..MaxIssued : t = issued + 1 => grants[t] = 0
  BY <1>1 DEF TokenInv
<1> QED
  BY <1>1, <1>2, <1>3, <1>4 DEF TokenInv

(* consume grants a token that has paid for nothing yet.                    *)
LEMMA TokenConsume ==
  ASSUME SlotTypeOK, TokenInv, handler \in StartHandler, StartConsume
  PROVE  TokenInv'
<1> DEFINE u == handler.token
<1>1. handler.op = "consume" /\ u \in 1..MaxIssued
  BY DEF StartConsume, StartHandler
<1>2. UNCHANGED funded
  BY DEF StartConsume, historyVars
<1>3. CASE /\ Auth!Consume(u, OwnPurpose)
           /\ handler' = [handler EXCEPT !.op = "publish"]
  <2>1. handler'.op = "publish" /\ handler'.token = u
    BY <1>1, <1>3 DEF StartHandler
  <2>2. /\ u \in DOMAIN authorizations /\ ~authorizations[u].used /\ u <= issued
        /\ authorizations' = [authorizations EXCEPT ![u].used = TRUE]
        /\ grants' = [grants EXCEPT ![u] = @ + 1]
        /\ UNCHANGED issued
    BY <1>3 DEF Auth!Consume, Auth!Usable, SlotTypeOK, Auth!AuthTypeOK
  <2>3. grants[u] = 0 /\ Paid(u) = {}
    BY <1>1, <2>2 DEF TokenInv
  <2>4. \A t \in 1..MaxIssued : grants'[t] = IF t = u THEN 1 ELSE grants[t]
    BY <2>2, <2>3 DEF SlotTypeOK, Auth!AuthTypeOK, Auth!Token
  <2>5. /\ DOMAIN authorizations' = DOMAIN authorizations
        /\ authorizations'[u].used = TRUE
        /\ \A t \in DOMAIN authorizations \ {u} :
             authorizations'[t] = authorizations[t]
    BY <2>2 DEF SlotTypeOK, Auth!AuthTypeOK, Auth!Entry
  <2>6. \A t \in 1..MaxIssued : Paid(t)' = Paid(t) /\ (Due(t)' <=> t = u) /\ ~Due(t)
    BY <1>1, <1>2, <2>1 DEF Paid, Due
  <2>7. \A t \in 1..MaxIssued : t > issued => t # u
    BY <2>2 DEF SlotTypeOK, Auth!AuthTypeOK
  <2>8. \A t \in 1..MaxIssued :
          /\ grants'[t] = IF Paid(t)' # {} \/ Due(t)' THEN 1 ELSE 0
          /\ Due(t)' => Paid(t)' = {}
          /\ t > issued' => grants'[t] = 0
    BY <2>2, <2>3, <2>4, <2>6, <2>7 DEF TokenInv
  <2>9. \A t \in 1..MaxIssued :
          t \in DOMAIN authorizations' => (authorizations'[t].used <=> grants'[t] = 1)
    BY <2>4, <2>5 DEF TokenInv
  <2> QED
    BY <1>2, <2>8, <2>9 DEF TokenInv
<1>4. CASE handler' = Free /\ UNCHANGED authVars
  BY <1>1, <1>2, <1>4, TokenQuiet DEF Free
<1> QED
  BY <1>3, <1>4 DEF StartConsume

(* The mission that is published is the one the token was due for.          *)
LEMMA TokenPublish ==
  ASSUME SlotTypeOK, TokenInv, handler \in StartHandler,
         NEW m \in MissionId, StartPublish(m)
  PROVE  TokenInv'
<1> DEFINE u == handler.token
<1>1. /\ Due(u) /\ u \in 1..MaxIssued /\ handler' = Free /\ funded[m] = 0
      /\ funded' = [funded EXCEPT ![m] = u]
      /\ UNCHANGED <<authorizations, issued, grants>>
  BY DEF StartPublish, Fresh, StartHandler, Due, authVars
<1>2. \A n \in MissionId : funded'[n] = IF n = m THEN u ELSE funded[n]
  BY <1>1 DEF SlotTypeOK
<1>3. \A n \in MissionId : funded[n] # u
  BY <1>1 DEF TokenInv, Paid
<1>4. \A t \in 1..MaxIssued :
        /\ ~Due(t)'
        /\ Due(t) <=> t = u
        /\ Paid(t)' = IF t = u THEN {m} ELSE Paid(t)
  BY <1>1, <1>2, <1>3 DEF Due, Free, Paid
<1>5. \A t \in 1..MaxIssued :
        grants[t] = IF Paid(t)' # {} \/ Due(t)' THEN 1 ELSE 0
  BY <1>4 DEF TokenInv
<1>6. \A n, k \in MissionId : funded'[n] = funded'[k] /\ funded'[n] # 0 => n = k
  BY <1>2, <1>3 DEF TokenInv
<1> QED
  BY <1>1, <1>4, <1>5, <1>6 DEF TokenInv

(* Every step that a coordinator shares with the others keeps the account.  *)
LEMMA TokenStep ==
  ASSUME SlotTypeOK, TokenInv, handler.op \in {"consume", "publish"} =>
                                 handler \in StartHandler,
         Environment \/ Start \/ CloseBegin \/ CloseDrain \/ CloseDone
  PROVE  TokenInv'
<1>1. CASE \E p \in Purpose : Issue(p)
  BY <1>1, TokenIssue
<1>2. CASE \/ Tick \/ ReadStore
           \/ \E f \in ForeignId : ForeignPut(f) \/ ForeignPutRefused(f)
  <2>1. UNCHANGED <<authVars, funded, handler>>
    BY <1>2
       DEF Tick, Auth!Tick, ReadStore, ForeignPut, ForeignPutRefused, authVars,
           historyVars
  <2> QED
    BY <2>1, TokenQuiet
<1>3. ASSUME NEW t \in 1..MaxIssued, StartCheck(t)
      PROVE  TokenInv'
  <2>1. /\ UNCHANGED <<authVars, funded>>
        /\ handler.op # "publish" /\ handler'.op # "publish"
    BY <1>3 DEF StartCheck, LockFree, Free, historyVars
  <2> QED
    BY <2>1, TokenQuiet
<1>4. CASE StartConsume
  BY <1>4, TokenConsume DEF StartConsume
<1>5. ASSUME NEW m \in MissionId, StartPublish(m)
      PROVE  TokenInv'
  BY <1>5, TokenPublish DEF StartPublish
<1>6. CASE CloseBegin \/ CloseDrain \/ CloseDone
  BY <1>6, TokenQuiet DEF CloseBegin, CloseDrain, CloseDone, historyVars
<1> QED
  BY <1>1, <1>2, <1>3, <1>4, <1>5, <1>6 DEF Environment, Start
-----------------------------------------------------------------------------
(* There is room for one more mission: what the other coordinators run is   *)
(* less than the capacity, and the rest can be evicted.                     *)
RoomInv ==
  /\ IsFiniteSet(DOMAIN missions)
  /\ Cardinality(ForeignActive) <= MaxForeignActive

(* A put of any mission inserts one id into the store at most.              *)
LEMMA PutDomain ==
  ASSUME NEW id, NEW b, Store!Put(id, b)
  PROVE  DOMAIN missions' \subseteq DOMAIN missions \cup {id}
BY DEF Store!Put, Store!Live

(* Where no new foreign mission becomes active, the room stays.             *)
LEMMA RoomShrinks ==
  ASSUME RoomInv, NEW id, MaxForeignActive \in Nat,
         DOMAIN missions' \subseteq DOMAIN missions \cup {id},
         \A f \in ForeignId : IsOpen(f)' => IsOpen(f)
  PROVE  RoomInv'
<1>1. IsFiniteSet(DOMAIN missions')
  BY FS_AddElement, FS_Subset DEF RoomInv
<1>2. IsFiniteSet(ForeignActive) /\ ForeignActive' \subseteq ForeignActive
  BY FS_Subset DEF RoomInv, ForeignActive, IsOpen
<1>3. Cardinality(ForeignActive') <= Cardinality(ForeignActive)
  BY <1>2, FS_Subset
<1>4. Cardinality(ForeignActive') \in Nat /\ Cardinality(ForeignActive) \in Nat
  BY <1>2, FS_Subset, FS_CardinalityType
<1> QED
  BY <1>1, <1>3, <1>4 DEF RoomInv

(* This coordinator's puts and purges make no foreign mission active.       *)
LEMMA RoomOwnPut ==
  ASSUME SlotTypeOK, RoomInv, NEW m \in MissionId, NEW b \in Body, Store!Put(m, b)
  PROVE  RoomInv'
<1>1. \A f \in ForeignId : IsOpen(f)' => IsOpen(f)
  BY PutEffect, CoordinatorAssumption DEF SlotTypeOK, IsOpen
<1> QED
  BY <1>1, PutDomain, RoomShrinks, CoordinatorAssumption

(* So do its purges, and the steps that leave the store alone.              *)
LEMMA RoomPurge ==
  ASSUME RoomInv, Store!Purge \/ UNCHANGED missions
  PROVE  RoomInv'
<1>1. /\ DOMAIN missions' \subseteq DOMAIN missions \cup {NoMission}
      /\ \A f \in ForeignId : IsOpen(f)' => IsOpen(f)
  BY PurgeEffect DEF IsOpen
<1> QED
  BY <1>1, RoomShrinks, CoordinatorAssumption

(* A foreign mission that starts finds a free coordinator.                  *)
LEMMA RoomForeignPut ==
  ASSUME SlotTypeOK, RoomInv, NEW f \in ForeignId, ForeignPut(f)
  PROVE  RoomInv'
<1>1. PICK status \in {"running", "completed"} :
        /\ status = "running" => Cardinality(ForeignActive) < MaxForeignActive
        /\ status = "completed" => ~IsSettled(f)
        /\ Store!Put(f, [status |-> status, summary |-> "none"])
  BY DEF ForeignPut
<1>2. [status |-> status, summary |-> "none"] \in Body
  BY DEF Body, Status, Open, Settled, Summary
<1>3. /\ f \in DOMAIN missions' /\ missions'[f].body.status = status
      /\ \A g \in ForeignId \ {f} : IsOpen(g)' => IsOpen(g)
  BY <1>1, <1>2, PutEffect DEF SlotTypeOK, IsOpen
<1>4. DOMAIN missions' \subseteq DOMAIN missions \cup {f}
  BY <1>1, PutDomain
<1>5. CASE status = "completed"
  <2>1. ~IsOpen(f)'
    BY <1>3, <1>5 DEF IsOpen, Open
  <2> QED
    BY <1>3, <1>4, <2>1, RoomShrinks, CoordinatorAssumption
<1>6. CASE status = "running"
  <2>1. /\ IsFiniteSet(ForeignActive)
        /\ Cardinality(ForeignActive) < MaxForeignActive
    BY <1>1, <1>6, FS_Subset DEF RoomInv, ForeignActive, IsOpen
  <2>2. /\ IsFiniteSet(ForeignActive \cup {f})
        /\ Cardinality(ForeignActive \cup {f}) <= Cardinality(ForeignActive) + 1
    <3>1. Cardinality(ForeignActive) \in Nat
      BY <2>1, FS_CardinalityType
    <3> QED
      BY <2>1, <3>1, FS_AddElement
  <2>3. ForeignActive' \subseteq ForeignActive \cup {f}
    BY <1>3 DEF ForeignActive
  <2>4. IsFiniteSet(ForeignActive')
    BY <2>2, <2>3, FS_Subset
  <2>5. Cardinality(ForeignActive') <= Cardinality(ForeignActive \cup {f})
    BY <2>2, <2>3, FS_Subset
  <2>6. /\ Cardinality(ForeignActive) \in Nat
        /\ Cardinality(ForeignActive \cup {f}) \in Nat
        /\ Cardinality(ForeignActive') \in Nat
    BY <2>1, <2>2, <2>4, FS_CardinalityType
  <2>7. Cardinality(ForeignActive') <= MaxForeignActive
    BY <2>1, <2>2, <2>5, <2>6, CoordinatorAssumption
  <2>8. IsFiniteSet(DOMAIN missions')
    BY <1>4, FS_AddElement, FS_Subset DEF RoomInv
  <2> QED
    BY <2>7, <2>8 DEF RoomInv
<1> QED
  BY <1>5, <1>6

(* Every step that a coordinator shares with the others leaves the room.    *)
LEMMA RoomStep ==
  ASSUME SlotTypeOK, RoomInv,
         Environment \/ Start \/ CloseBegin \/ CloseDrain \/ CloseDone
  PROVE  RoomInv'
<1>1. CASE \E f \in ForeignId : ForeignPut(f)
  BY <1>1, RoomForeignPut
<1>2. ASSUME NEW f \in ForeignId, ForeignPutRefused(f)
      PROVE  RoomInv'
  <2>1. missions' = [m \in Store!Live \ {f} |-> missions[m]]
    BY <1>2 DEF ForeignPutRefused, Store!PutRefused
  <2>2. /\ DOMAIN missions' \subseteq DOMAIN missions \cup {f}
        /\ \A g \in ForeignId : IsOpen(g)' => IsOpen(g)
    BY <2>1 DEF Store!Live, IsOpen
  <2> QED
    BY <2>2, RoomShrinks, CoordinatorAssumption
<1>3. ASSUME NEW m \in MissionId, StartPublish(m)
      PROVE  RoomInv'
  <2>1. [status |-> "queued", summary |-> "none"] \in Body
    BY DEF Body, Status, Open, Settled, Summary
  <2> QED
    BY <1>3, <2>1, RoomOwnPut DEF StartPublish
<1>4. CASE \/ \E p \in Purpose : Issue(p)
           \/ Tick \/ ReadStore
           \/ \E t \in 1..MaxIssued : StartCheck(t)
           \/ StartConsume
           \/ CloseBegin \/ CloseDrain \/ CloseDone
  BY <1>4, RoomPurge
     DEF Issue, Tick, ReadStore, StartCheck, StartConsume, CloseBegin, CloseDrain,
         CloseDone, storeVars
<1> QED
  BY <1>1, <1>2, <1>3, <1>4 DEF Environment, Start

(* The store's counting is this module's.                                   *)
LEMMA StoreCardinality ==
  ASSUME NEW S PROVE Store!Cardinality(S) = Cardinality(S)
BY DEF Store!Cardinality, Cardinality

(* So the store takes a new mission of a coordinator that has none open.    *)
LEMMA RoomAdmits ==
  ASSUME SlotTypeOK, RoomInv, NEW m \in MissionId,
         \A n \in MissionId : ~IsOpen(n)
  PROVE  Store!PutAccepted(m)
<1> SUFFICES ASSUME Store!Evictable(m) = {}
             PROVE  Cardinality(Store!Live \cup {m}) <= StoreCapacity
  <2>1. IsFiniteSet(Store!Live \cup {m})
    BY FS_Subset, FS_AddElement DEF RoomInv, Store!Live
  <2>2. Cardinality(Store!Live \cup {m}) \in Nat
    BY <2>1, FS_CardinalityType
  <2>3. Store!Cardinality(Store!Live \cup {m}) = Cardinality(Store!Live \cup {m})
    BY StoreCardinality
  <2> QED
    BY <2>2, <2>3, CoordinatorAssumption DEF Store!PutAccepted, Store!Overfull
<1>1. Store!Live \ {m} \subseteq ForeignActive
  <2> SUFFICES ASSUME NEW n \in Store!Live \ {m} PROVE n \in ForeignActive
    OBVIOUS
  <2>1. n \in DOMAIN missions /\ missions[n].body \in ActiveBody
    BY DEF Store!Evictable, Store!IsActive, Store!Live
  <2>2. IsOpen(n) /\ n \in StoredId
    BY <2>1 DEF IsOpen, ActiveBody, SlotTypeOK, Store!StoreTypeOK
  <2> QED
    BY <2>2 DEF ForeignActive, StoredId
<1>2. IsFiniteSet(ForeignActive) /\ Cardinality(ForeignActive) <= MaxForeignActive
  BY FS_Subset DEF RoomInv, ForeignActive, IsOpen
<1>3. /\ IsFiniteSet(ForeignActive \cup {m})
      /\ Cardinality(ForeignActive \cup {m}) <= Cardinality(ForeignActive) + 1
  BY <1>2, FS_AddElement, FS_CardinalityType
<1>4. Store!Live \cup {m} \subseteq ForeignActive \cup {m}
  BY <1>1
<1>5. /\ Cardinality(Store!Live \cup {m}) <= Cardinality(ForeignActive \cup {m})
      /\ IsFiniteSet(Store!Live \cup {m})
  BY <1>3, <1>4, FS_Subset
<1>6. /\ Cardinality(ForeignActive) \in Nat
      /\ Cardinality(ForeignActive \cup {m}) \in Nat
      /\ Cardinality(Store!Live \cup {m}) \in Nat
  BY <1>2, <1>3, <1>5, FS_CardinalityType
<1> QED
  BY <1>2, <1>3, <1>5, <1>6, CoordinatorAssumption
=============================================================================
