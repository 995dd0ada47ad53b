-------------------------- MODULE PcapAuthorization --------------------------
(***************************************************************************)
(* The one-time authorization store of backend/app/pcap/authorization.py.  *)
(*                                                                         *)
(* A user's second click issues an authorization for one purpose.  It can  *)
(* be consumed once, by a mission of that purpose, before it expires.  The *)
(* store is an OrderedDict with a capacity: issuing past it drops the      *)
(* oldest entries, used or not.  Every operation runs under the store's    *)
(* RLock, so each is one step; `assert_usable` only reads.                 *)
(*                                                                         *)
(* Tokens are fresh random strings.  They are numbered here in the order   *)
(* they are issued, which is also the order of the dictionary.  The number *)
(* of files an authorization allows is data no property looks at.          *)
(***************************************************************************)
EXTENDS Integers, FiniteSets

CONSTANTS Purpose,       \* triage, reconnaissance, detection
          AuthTTL,       \* ttl_seconds
          AuthCapacity,  \* capacity
          MaxIssued,     \* bound: authorizations ever issued
          MaxClock       \* bound: last instant of the monotonic clock

(* What main.py builds the store with.  The modules that compose the store  *)
(* assume it of the values they give it, the theorems of these.             *)
AuthAssumption ==
  /\ AuthTTL \in Nat \ {0}
  /\ AuthCapacity \in Nat \ {0}
  /\ MaxIssued \in Nat
  /\ MaxClock \in Nat

VARIABLES authorizations,  \* the dictionary: token -> entry
          issued,          \* how many tokens were issued
          clock,           \* time.monotonic()
          grants           \* history: how often each token was consumed

authVars == <<authorizations, issued, clock, grants>>

Token == 1..MaxIssued

Entry == [purpose : Purpose, expiresAt : Nat, used : BOOLEAN]

AuthTypeOK ==
  /\ issued \in 0..MaxIssued
  /\ clock \in 0..MaxClock
  /\ DOMAIN authorizations \subseteq 1..issued
  /\ authorizations \in [DOMAIN authorizations -> Entry]
  /\ grants \in [Token -> Nat]
-----------------------------------------------------------------------------
Init ==
  /\ authorizations = [t \in {} |-> 0]
  /\ issued = 0
  /\ clock = 0
  /\ grants = [t \in Token |-> 0]

(* Faulty variants, one beside each operator that a single slip would break:*)
(* popitem(last=True), used not looked at.                                  *)
OldestFromWrongEnd(S) == CHOOSE t \in S : \A u \in S : u <= t
Oldest(S) == CHOOSE t \in S : \A u \in S : t <= u

Deadline == clock + AuthTTL

(* Insert at the end, then popitem(last=False) while the store is too full: *)
(* it was not before, so at most one entry goes.                            *)
Issue(p) ==
  /\ issued < MaxIssued
  /\ issued' = issued + 1
  /\ LET held == DOMAIN authorizations \cup {issued + 1}
         kept == IF Cardinality(held) > AuthCapacity
                   THEN held \ {Oldest(held)}
                   ELSE held
     IN  authorizations' =
           [t \in kept |->
              IF t = issued + 1
                THEN [purpose |-> p, expiresAt |-> Deadline, used |-> FALSE]
                ELSE authorizations[t]]
  /\ UNCHANGED <<clock, grants>>

UsableAgain(t, p) ==
  /\ t \in DOMAIN authorizations
  /\ authorizations[t].purpose = p
  /\ clock < authorizations[t].expiresAt

(* _require_usable: known, of that purpose, unused and not yet expired.     *)
Usable(t, p) ==
  /\ t \in DOMAIN authorizations
  /\ authorizations[t].purpose = p
  /\ ~authorizations[t].used
  /\ clock < authorizations[t].expiresAt

(* A token that is not usable raises and changes nothing.                   *)
Consume(t, p) ==
  /\ Usable(t, p)
  /\ authorizations' = [authorizations EXCEPT ![t].used = TRUE]
  /\ grants' = [grants EXCEPT ![t] = @ + 1]
  /\ UNCHANGED <<issued, clock>>

Tick ==
  /\ clock < MaxClock
  /\ clock' = clock + 1
  /\ UNCHANGED <<authorizations, issued, grants>>

Next ==
  \/ \E p \in Purpose : Issue(p)
  \/ \E t \in Token, p \in Purpose : Consume(t, p)
  \/ Tick

Spec == Init /\ [][Next]_authVars
-----------------------------------------------------------------------------
(* However many requests race for a token, at most one of them gets it, and *)
(* a token that was granted never looks unused again (used is set in        *)
(* consume and an evicted entry is never re-created).                       *)
GrantedAtMostOnce ==
  /\ \A t \in Token : grants[t] <= 1
  /\ \A t \in DOMAIN authorizations : authorizations[t].used <=> grants[t] = 1

(* Capacity pressure only ever costs the oldest tokens: what the dictionary *)
(* holds is exactly the last AuthCapacity tokens issued.  A token that was  *)
(* never consumed and is gone was overtaken by AuthCapacity later ones.     *)
HoldsTheNewest ==
  DOMAIN authorizations = {t \in 1..issued : t > issued - AuthCapacity}
=============================================================================
