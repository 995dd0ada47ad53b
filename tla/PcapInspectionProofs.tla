------------------------- MODULE PcapInspectionProofs -------------------------
(***************************************************************************)
(* From the permission to inspect captures to their reports: the           *)
(* authorization store for any capacity and any number of tokens, the      *)
(* batch scripts for any captures, contents and number of batches, and the *)
(* report of a capture with its two validators, for any policy and packets.*)
(***************************************************************************)
EXTENDS MCInspections, FiniteSetTheorems, SequenceTheorems, TLAPS

(* The newest AuthCapacity of n tokens.                                     *)
Newest(n) == {t \in 1..n : t > n - AuthCapacity}

(* There are AuthCapacity of them, or all n if n is less.                   *)
LEMMA NewestCardinality ==
  ASSUME AuthAssumption, NEW n \in Nat
  PROVE  /\ IsFiniteSet(Newest(n))
         /\ Cardinality(Newest(n)) = IF n < AuthCapacity THEN n ELSE AuthCapacity
<1> USE DEF AuthAssumption
<1> DEFINE first == IF n < AuthCapacity THEN 1 ELSE n - AuthCapacity + 1
<1>1. first \in Int /\ Newest(n) = first..n
  BY DEF Newest
<1> HIDE DEF first
<1>2. /\ IsFiniteSet(first..n)
      /\ Cardinality(first..n) = IF first > n THEN 0 ELSE n - first + 1
  BY <1>1, FS_Interval
<1> QED
  BY <1>1, <1>2 DEF first

(* A token that is not issued yet was never granted, which is why a fresh   *)
(* entry may start out unused.                                              *)
UnissuedIsUngranted == \A t \in Token : t > issued => grants[t] = 0

AuthInv == AuthTypeOK /\ GrantedAtMostOnce /\ HoldsTheNewest /\ UnissuedIsUngranted

(* The empty store satisfies the invariant.                                 *)
LEMMA AuthInit == ASSUME AuthAssumption PROVE Init => AuthInv
BY DEF AuthAssumption, Init, AuthInv, AuthTypeOK, Token, Entry, GrantedAtMostOnce, HoldsTheNewest,
       UnissuedIsUngranted

(* Issue inserts the newest and drops the oldest of one too many.           *)
LEMMA IssueKeeps ==
  ASSUME AuthAssumption, AuthInv, NEW p \in Purpose, Issue(p)
  PROVE  AuthInv'
<1> USE DEF AuthAssumption, AuthInv
<1> DEFINE new  == issued + 1
           held == DOMAIN authorizations \cup {new}
           entry == [purpose |-> p, expiresAt |-> clock + AuthTTL, used |-> FALSE]
<1>1. /\ issued \in Nat /\ new \in Token /\ issued' = new
      /\ UNCHANGED <<clock, grants>>
  BY DEF Issue, AuthTypeOK, Token
<1>2. DOMAIN authorizations = Newest(issued)
  BY DEF HoldsTheNewest, Newest
<1>3. Newest(new) =
        IF Cardinality(held) > AuthCapacity THEN held \ {Oldest(held)} ELSE held
  <2>1. /\ IsFiniteSet(Newest(issued))
        /\ Cardinality(Newest(issued)) =
             IF issued < AuthCapacity THEN issued ELSE AuthCapacity
    BY <1>1, NewestCardinality
  <2>2. Cardinality(held) = Cardinality(Newest(issued)) + 1
    <3>1. new \notin Newest(issued)
      BY <1>1 DEF Newest
    <3>2. held = Newest(issued) \cup {new}
      BY <1>2
    <3> QED
      BY <2>1, <3>1, <3>2, FS_AddElement
  <2>3. CASE issued < AuthCapacity
    <3>1. ~(Cardinality(held) > AuthCapacity)
      BY <1>1, <2>1, <2>2, <2>3
    <3>2. Newest(new) = held
      BY <1>1, <1>2, <2>3 DEF Newest
    <3> QED
      BY <3>1, <3>2
  <2>4. CASE issued >= AuthCapacity
    <3>1. Cardinality(held) > AuthCapacity
      BY <1>1, <2>1, <2>2, <2>4
    <3> DEFINE o == issued - AuthCapacity + 1
    <3>2. o \in held /\ \A u \in held : u \in Int /\ o <= u
      BY <1>1, <1>2, <2>4 DEF Newest
    <3>3. Oldest(held) \in held /\ \A u \in held : Oldest(held) <= u
      BY <3>2 DEF Oldest
    <3> HIDE DEF held, o
    <3>4. Oldest(held) = o
      BY <1>1, <3>2, <3>3 DEF o
    <3>5. Newest(new) = held \ {o}
      BY <1>1, <1>2, <2>4 DEF Newest, o, held
    <3> QED
      BY <3>1, <3>4, <3>5
  <2> QED
    BY <1>1, <2>3, <2>4
<1>4. authorizations' =
        [t \in Newest(new) |-> IF t = new THEN entry ELSE authorizations[t]]
  BY <1>3 DEF Issue, Deadline
<1>5. HoldsTheNewest'
  BY <1>1, <1>4 DEF HoldsTheNewest, Newest
<1>6. \A t \in Newest(new) : t = new \/ t \in DOMAIN authorizations
  BY <1>1, <1>2 DEF Newest
<1>7. AuthTypeOK'
  <2>1. entry \in Entry
    BY DEF Entry, AuthTypeOK
  <2>2. Newest(new) \subseteq 1..issued'
    BY <1>1 DEF Newest
  <2>3. issued' \in 0..MaxIssued
    BY <1>1 DEF Token
  <2> HIDE DEF entry
  <2>4. authorizations' \in [Newest(new) -> Entry]
    BY <1>4, <1>6, <2>1 DEF AuthTypeOK
  <2> QED
    BY <1>1, <1>4, <2>2, <2>3, <2>4 DEF AuthTypeOK
<1>8. GrantedAtMostOnce'
  <2>1. grants[new] = 0
    BY <1>1 DEF UnissuedIsUngranted
  <2> QED
    BY <1>1, <1>4, <1>6, <2>1 DEF GrantedAtMostOnce
<1>9. UnissuedIsUngranted'
  BY <1>1 DEF UnissuedIsUngranted, Token
<1> QED
  BY <1>5, <1>7, <1>8, <1>9

(* Consume marks and grants one token that was neither.                     *)
LEMMA ConsumeKeeps ==
  ASSUME AuthAssumption, AuthInv, NEW t \in Token, NEW p \in Purpose, Consume(t, p)
  PROVE  AuthInv'
<1> USE DEF AuthAssumption, AuthInv
<1>1. t \in DOMAIN authorizations /\ ~authorizations[t].used /\ t <= issued
  BY DEF Consume, Usable, AuthTypeOK
<1>2. grants[t] = 0
  BY <1>1 DEF GrantedAtMostOnce, AuthTypeOK, Token
<1>3. /\ grants' = [grants EXCEPT ![t] = 1]
      /\ authorizations' = [authorizations EXCEPT ![t].used = TRUE]
      /\ UNCHANGED <<issued, clock>>
  BY <1>2 DEF Consume
<1>4. AuthTypeOK'
  <2>1. [authorizations[t] EXCEPT !.used = TRUE] \in Entry
    BY <1>1 DEF AuthTypeOK, Entry
  <2>2. authorizations' = [authorizations EXCEPT
                             ![t] = [authorizations[t] EXCEPT !.used = TRUE]]
    BY <1>3
  <2>3. /\ DOMAIN authorizations' = DOMAIN authorizations
        /\ authorizations' \in [DOMAIN authorizations' -> Entry]
    BY <2>1, <2>2 DEF AuthTypeOK
  <2>4. grants' \in [Token -> Nat]
    BY <1>3 DEF AuthTypeOK
  <2> QED
    BY <1>3, <2>3, <2>4 DEF AuthTypeOK
<1>6. HoldsTheNewest'
  BY <1>3 DEF HoldsTheNewest
<1>7. UnissuedIsUngranted'
  BY <1>1, <1>3 DEF UnissuedIsUngranted, AuthTypeOK, Token
<1>5. GrantedAtMostOnce'
  <2>1. \A u \in Token : grants'[u] = IF u = t THEN 1 ELSE grants[u]
    BY <1>3 DEF AuthTypeOK
  <2>2. \A u \in DOMAIN authorizations :
          /\ u \in DOMAIN authorizations'
          /\ u # t => authorizations'[u] = authorizations[u]
    BY <1>3
  <2>3. authorizations'[t].used = TRUE
    BY <1>1, <1>3 DEF AuthTypeOK, Entry
  <2>4. DOMAIN authorizations' \subseteq Token
    BY <1>3 DEF AuthTypeOK, Token
  <2> QED
    BY <1>3, <2>1, <2>2, <2>3, <2>4 DEF GrantedAtMostOnce
<1> QED
  BY <1>4, <1>5, <1>6, <1>7

(* No step of any thread breaks the invariant.                              *)
LEMMA AuthInductive == ASSUME AuthAssumption PROVE Spec => []AuthInv
<1>1. AuthInv /\ [Next]_authVars => AuthInv'
  <2> SUFFICES ASSUME AuthInv, [Next]_authVars PROVE AuthInv'
    OBVIOUS
  <2>1. CASE Tick
    BY <2>1
       DEF AuthAssumption, Tick, AuthInv, AuthTypeOK, GrantedAtMostOnce,
           HoldsTheNewest, UnissuedIsUngranted
  <2>2. CASE UNCHANGED authVars
    BY <2>2
       DEF authVars, AuthInv, AuthTypeOK, GrantedAtMostOnce, HoldsTheNewest,
           UnissuedIsUngranted
  <2> QED
    BY <2>1, <2>2, IssueKeeps, ConsumeKeeps DEF Next
<1>2. Init => AuthInv
  BY AuthInit
<1> QED
  BY <1>1, <1>2, PTL DEF Spec

(* A one-time authorization is granted once at most, for every capacity,    *)
(* lifetime and schedule of issue, consume and expiry.                      *)
THEOREM AuthorizationIsOneTime ==
  ASSUME AuthAssumption PROVE Spec => []GrantedAtMostOnce
<1>1. AuthInv => GrantedAtMostOnce
  BY DEF AuthInv
<1>2. Spec => []AuthInv
  BY AuthInductive
<1> QED
  BY <1>1, <1>2, PTL

(* The dictionary holds exactly the newest tokens, so only AuthCapacity     *)
(* later second clicks can take an unused authorization away.               *)
THEOREM OnlyTheOldestAreDropped ==
  ASSUME AuthAssumption PROVE Spec => []HoldsTheNewest
<1>1. AuthInv => HoldsTheNewest
  BY DEF AuthInv
<1>2. Spec => []AuthInv
  BY AuthInductive
<1> QED
  BY <1>1, <1>2, PTL
-----------------------------------------------------------------------------
(* The order in which the batch scripts take captures.                      *)

(* A set of numbers has a least one.                                        *)
LEMMA LeastNumber ==
  ASSUME NEW T \in SUBSET Nat, T # {}
  PROVE  \E x \in T : \A y \in T : x <= y
<1> DEFINE R == {ss \in Nat \X Nat : ss[1] < ss[2]}
<1>1. IsWellFoundedOn(OpToRel(<, Nat), Nat)
  BY NatLessThanWellFounded
<1>2. OpToRel(<, Nat) = R
  BY DEF OpToRel
<1>3. IsWellFoundedOn(R, Nat)
  BY <1>1, <1>2
<1> HIDE DEF R
<1>4. PICK x \in T : \A y \in T : ~(<<y, x>> \in R)
  BY <1>3, WFMin
<1>5. \A y \in T : y < x => <<y, x>> \in R
  BY DEF R
<1>6. \A y \in T : ~(y < x)
  BY <1>4, <1>5
<1> QED
  BY <1>6

(* The scripts' counting is this module's.                                  *)
LEMMA ScriptsCardinality ==
  ASSUME NEW S PROVE Scripts!Cardinality(S) = Cardinality(S)
BY DEF Scripts!Cardinality, Cardinality

LEMMA ScriptsAssumed ==
  /\ IsFiniteSet(File) /\ File \in SUBSET Nat
  /\ MaxContent \in Nat \ {0} /\ MaxFiles \in Nat
  /\ Size \in [0..MaxContent -> Nat]
BY InspectionsAssumption DEF Scripts!ScriptsAssumption, Scripts!IsFiniteSet, IsFiniteSet

LEMMA SizesAreNumbers ==
  ASSUME content \in [File -> 0..MaxContent]
  PROVE  \A f \in File : Scripts!SizeOf(f) \in Nat
<1>1. \A f \in File : content[f] \in 0..MaxContent
  OBVIOUS
<1> QED
  BY <1>1, ScriptsAssumed DEF Scripts!SizeOf

(* The captures of a set, smallest first.                                   *)
IsOrder(q, S) ==
  /\ q \in [1..Cardinality(S) -> S]
  /\ \A i, j \in DOMAIN q : i < j => Scripts!Before(q[i], q[j])

(* Some capture comes before all others: the first by path of the smallest. *)
LEMMA FirstCapture ==
  ASSUME content \in [File -> 0..MaxContent], NEW S \in SUBSET File, S # {}
  PROVE  \E f \in S : \A g \in S \ {f} : Scripts!Before(f, g)
<1> USE ScriptsAssumed
<1> DEFINE sizes == {Scripts!SizeOf(f) : f \in S}
<1>1. sizes \in SUBSET Nat /\ sizes # {}
  BY SizesAreNumbers
<1>2. PICK c \in sizes : \A d \in sizes : c <= d
  BY <1>1, LeastNumber
<1> DEFINE small == {f \in S : Scripts!SizeOf(f) = c}
<1>3. small \in SUBSET Nat /\ small # {}
  OBVIOUS
<1>4. PICK f \in small : \A g \in small : f <= g
  BY <1>3, LeastNumber
<1>5. ASSUME NEW g \in S \ {f}
      PROVE  Scripts!Before(f, g)
  <2>1. /\ Scripts!SizeOf(f) = c /\ c \in Nat
        /\ Scripts!SizeOf(g) \in Nat /\ c <= Scripts!SizeOf(g)
    BY <1>1, <1>2
  <2>2. f \in Nat /\ g \in Nat
    OBVIOUS
  <2>3. Scripts!SizeOf(g) = c => f < g
    BY <1>4, <2>2
  <2> QED
    BY <2>1, <2>3 DEF Scripts!Before
<1> QED
  BY <1>5

(* So every set of captures can be put in order, by as many of them at a    *)
(* time as one likes.                                                       *)
LEMMA OrderExists ==
  ASSUME content \in [File -> 0..MaxContent], NEW S \in SUBSET File
  PROVE  \E q : IsOrder(q, S)
<1> USE ScriptsAssumed
<1> DEFINE Bad == {n \in Nat : \E U \in SUBSET File :
                                 Cardinality(U) = n /\ \A q : ~IsOrder(q, U)}
<1>1. ASSUME Bad # {} PROVE FALSE
  <2>1. PICK n \in Bad : \A k \in Bad : n <= k
    <3>1. Bad \in SUBSET Nat
      OBVIOUS
    <3> QED
      BY <1>1, <3>1, LeastNumber
  <2>2. PICK U \in SUBSET File : Cardinality(U) = n /\ \A q : ~IsOrder(q, U)
    OBVIOUS
  <2>3. IsFiniteSet(U) /\ n \in Nat
    BY FS_Subset
  <2>4. U # {}
    <3>1. IsOrder(<<>>, {})
      <4>1. Cardinality({}) = 0
        BY FS_EmptySet
      <4> QED
        BY <4>1 DEF IsOrder
    <3> QED
      BY <2>2, <3>1
  <2>5. PICK f \in U : \A g \in U \ {f} : Scripts!Before(f, g)
    BY <2>4, FirstCapture
  <2> DEFINE V == U \ {f}
  <2>6. Cardinality(V) = n - 1 /\ n # 0
    BY <2>2, <2>3, <2>4, FS_RemoveElement, FS_EmptySet
  <2>7. n - 1 \notin Bad /\ n - 1 \in Nat
    BY <2>1, <2>3, <2>6
  <2>8. PICK q : IsOrder(q, V)
    BY <2>6, <2>7
  <2> DEFINE p == [i \in 1..n |-> IF i = 1 THEN f ELSE q[i - 1]]
  <2>9. /\ q \in [1..(n - 1) -> V]
        /\ \A i, j \in 1..(n - 1) : i < j => Scripts!Before(q[i], q[j])
    BY <2>6, <2>8 DEF IsOrder
  <2> HIDE DEF V
  <2>10. \A i \in 1..n : i # 1 => i - 1 \in 1..(n - 1) /\ p[i] = q[i - 1] /\ q[i - 1] \in V
    BY <2>3, <2>9
  <2>11. p \in [1..n -> U]
    BY <2>10 DEF V
  <2>12. \A i, j \in 1..n : i < j => Scripts!Before(p[i], p[j])
    <3> SUFFICES ASSUME NEW i \in 1..n, NEW j \in 1..n, i < j
                 PROVE  Scripts!Before(p[i], p[j])
      OBVIOUS
    <3>1. j # 1 /\ p[j] = q[j - 1] /\ q[j - 1] \in V
      BY <2>3, <2>10
    <3>2. CASE i = 1
      <4>1. p[i] = f
        BY <3>2
      <4> QED
        BY <2>5, <3>1, <4>1 DEF V
    <3>3. CASE i # 1
      <4>1. p[i] = q[i - 1] /\ i - 1 \in 1..(n - 1) /\ j - 1 \in 1..(n - 1) /\ i - 1 < j - 1
        BY <2>3, <2>10, <3>1, <3>3
      <4> QED
        BY <2>9, <3>1, <4>1
    <3> QED
      BY <3>2, <3>3
  <2>13. IsOrder(p, U)
    <3> HIDE DEF p
    <3>1. DOMAIN p = 1..n
      BY <2>11
    <3> QED
      BY <2>2, <2>11, <2>12, <3>1 DEF IsOrder
  <2> QED
    BY <2>2, <2>13
<1>2. Cardinality(S) \in Nat
  BY FS_Subset, FS_CardinalityType
<1> QED
  BY <1>1, <1>2

(* An order names every capture of the set, and each of them once.          *)
LEMMA OrderIsComplete ==
  ASSUME content \in [File -> 0..MaxContent], NEW S \in SUBSET File, NEW q, IsOrder(q, S)
  PROVE  /\ \A i, j \in DOMAIN q : q[i] = q[j] => i = j
         /\ \A f \in S : \E i \in DOMAIN q : q[i] = f
<1> USE ScriptsAssumed
<1> DEFINE n == Cardinality(S)
<1>1. IsFiniteSet(S) /\ n \in Nat
  BY FS_Subset, FS_CardinalityType
<1>2. q \in [1..n -> S] /\ DOMAIN q = 1..n
  BY DEF IsOrder
<1>3. \A i, j \in 1..n : q[i] = q[j] => i = j
  <2>1. \A f \in S : ~Scripts!Before(f, f)
    BY SizesAreNumbers DEF Scripts!Before
  <2>2. \A i, j \in 1..n : i < j => q[i] # q[j]
    BY <1>2, <2>1 DEF IsOrder
  <2> HIDE DEF n
  <2>3. \A i, j \in 1..n : i < j \/ j < i \/ i = j
    BY <1>1
  <2> QED
    BY <2>2, <2>3
<1>4. q \in Injection(1..n, S)
  BY <1>2, <1>3 DEF Injection, IsInjective
<1>5. Cardinality(1..n) = n
  BY <1>1, FS_Interval
<1>6. q \in Surjection(1..n, S)
  BY <1>1, <1>4, <1>5, FS_Injection
<1> QED
  BY <1>2, <1>3, <1>6 DEF Surjection

(* What InOrder is.                                                         *)
LEMMA InOrderIsOrder ==
  ASSUME content \in [File -> 0..MaxContent], NEW S \in SUBSET File
  PROVE  IsOrder(Scripts!InOrder(S), S)
<1>1. PICK q : IsOrder(q, S)
  BY OrderExists
<1>2. Scripts!InOrder(S) =
        CHOOSE p \in [1..Cardinality(S) -> S] :
          \A i, j \in DOMAIN p : i < j => Scripts!Before(p[i], p[j])
  BY ScriptsCardinality DEF Scripts!InOrder
<1> QED
  BY <1>1, <1>2 DEF IsOrder
-----------------------------------------------------------------------------
(* What the batch scripts leave in their files.                             *)

(* An entry of a checkpoint or a summary whose evidence is of the content   *)
(* it names, but for a capture that was taken away and put back.            *)
SoundEntry ==
  {e \in Scripts!Entry : e.result = "succeeded" => Scripts!IsOfItsContent(e)}

Entries == UNION {[D -> SoundEntry] : D \in SUBSET File}
Results == Seq(File \X SoundEntry)
Item == [file : File, sha : 0..MaxContent]

BatchState ==
  [pc : {"off", "next", "inspecting"}, todo : Seq(Item), entries : Entries,
   results : Results]

InspectorState ==
  [pc : {"off", "digest", "rows", "save", "exit 0", "exit 2"},
   file : File \cup {0}, pre : 0..MaxContent, sha : 0..MaxContent,
   read : 0..MaxContent, swaps : Nat]

FileState == [file : {"missing", "whole"}, entries : Entries]

Inspector == Scripts!Script \cup {"orphan"}

ScriptsTypeOK ==
  /\ content \in [File -> 0..MaxContent]
  /\ DOMAIN reports \subseteq 0..MaxContent
  /\ inspector \in [Inspector -> InspectorState]
  /\ batch \in [Scripts!Script -> BatchState]
  /\ state \in [Scripts!Script -> FileState]
  /\ public \in [Scripts!Script -> Results]
  /\ recorded \in [Scripts!Script -> Entries]
  /\ \A i \in Inspector :
       inspector[i].pc \in {"digest", "rows", "save"} => inspector[i].file \in File
  /\ \A s \in Scripts!Script :
       batch[s].pc = "inspecting" => batch[s].todo # <<>>

(* A capture that is not what it was when it was hashed has been replaced   *)
(* since; if other content was read, and it is again what it was, it has    *)
(* been replaced twice.                                                     *)
ReplacedSince(q) ==
  /\ q.pc = "rows" /\ content[q.file] # q.sha => q.swaps >= 1
  /\ q.pc = "save" /\ q.read # q.sha =>
       q.swaps >= IF content[q.file] = q.sha THEN 2 ELSE 1
  /\ q.pc = "save" /\ content[q.file] # q.sha => q.swaps >= 1

ReportIsOf(c, r) ==
  r \in Scripts!Evidence /\ (r.read = c \/ r.swaps >= 2)

ReadInv ==
  /\ \A c \in DOMAIN reports : ReportIsOf(c, reports[c])
  /\ \A i \in Inspector : ReplacedSince(inspector[i])

(* A batch goes on from what its checkpoint holds.                          *)
CheckpointInv ==
  \A s \in Scripts!Script :
    /\ state[s].entries = recorded[s]
    /\ batch[s].pc # "off" => batch[s].entries = recorded[s]

IsRecordedDone(c) ==
  /\ c.file \in DOMAIN recorded["triage"]
  /\ recorded["triage"][c.file].result = "succeeded"
  /\ recorded["triage"][c.file].sha = c.sha

(* Triage is to do each capture once, and none that is recorded as done.    *)
TodoInv ==
  LET todo == batch["triage"].todo IN
  /\ \A i, j \in DOMAIN todo : todo[i].file = todo[j].file => i = j
  /\ \A i \in DOMAIN todo : ~IsRecordedDone(todo[i])

ScriptsInv == ScriptsTypeOK /\ ReadInv /\ CheckpointInv /\ TodoInv
-----------------------------------------------------------------------------
LEMMA NoEntriesIsSound == Scripts!NoEntries \in Entries
<1>1. Scripts!NoEntries \in [{} -> SoundEntry] /\ {} \in SUBSET File
  BY DEF Scripts!NoEntries
<1> QED
  BY <1>1 DEF Entries

(* One more sound entry.                                                    *)
LEMMA WithSoundEntry ==
  ASSUME NEW e \in Entries, NEW f \in File, NEW entry \in SoundEntry
  PROVE  /\ Scripts!With(e, f, entry) \in Entries
         /\ DOMAIN Scripts!With(e, f, entry) = DOMAIN e \cup {f}
         /\ \A g \in DOMAIN e \cup {f} :
              Scripts!With(e, f, entry)[g] = IF g = f THEN entry ELSE e[g]
<1>1. PICK D \in SUBSET File : e \in [D -> SoundEntry]
  BY DEF Entries
<1>2. Scripts!With(e, f, entry) = [c \in D \cup {f} |-> IF c = f THEN entry ELSE e[c]]
  BY <1>1 DEF Scripts!With
<1>3. Scripts!With(e, f, entry) \in [D \cup {f} -> SoundEntry] /\ D \cup {f} \in SUBSET File
  BY <1>1, <1>2
<1> QED
  BY <1>1, <1>2, <1>3 DEF Entries

(* What is made of a report that was found is sound, as every report names  *)
(* what was read.                                                           *)
LEMMA ResultIsSound ==
  ASSUME ScriptsTypeOK, ReadInv, NEW s, NEW sha \in 0..MaxContent
  PROVE  Scripts!Result(s, sha) \in SoundEntry
<1>1. CASE inspector[s].pc = "exit 0" /\ Scripts!ReportOf(s, sha) # {}
  <2>1. Scripts!ReportOf(s, sha) \subseteq {sha} \cap DOMAIN reports
    BY DEF Scripts!ReportOf
  <2>2. (CHOOSE c \in Scripts!ReportOf(s, sha) : TRUE) = sha
    BY <1>1, <2>1
  <2>3. sha \in DOMAIN reports /\ ReportIsOf(sha, reports[sha])
    BY <1>1, <2>1 DEF ReadInv
  <2>4. Scripts!Result(s, sha) =
          [sha |-> sha, result |-> "succeeded", evidence |-> reports[sha]]
    BY <1>1, <2>2 DEF Scripts!Result
  <2> QED
    BY <2>3, <2>4 DEF SoundEntry, Scripts!Entry, ReportIsOf, Scripts!IsOfItsContent
<1>2. CASE ~(inspector[s].pc = "exit 0" /\ Scripts!ReportOf(s, sha) # {})
  <2>1. Scripts!Result(s, sha) =
          [sha |-> sha, result |-> "failed", evidence |-> Scripts!NoReport]
    BY <1>2 DEF Scripts!Result
  <2>2. Scripts!NoReport \in Scripts!Evidence
    BY DEF Scripts!NoReport, Scripts!Evidence
  <2> QED
    BY <2>1, <2>2 DEF SoundEntry, Scripts!Entry
<1> QED
  BY <1>1, <1>2

LEMMA InspectorStates ==
  /\ Scripts!Quiet \in InspectorState /\ Scripts!Quiet.pc = "off"
  /\ Scripts!NoBatch \in BatchState
  /\ Scripts!NoBatch.pc = "off" /\ Scripts!NoBatch.todo = <<>>
<1>1. Scripts!Quiet \in InspectorState
  BY ScriptsAssumed DEF Scripts!Quiet, InspectorState
<1>2. Scripts!NoBatch \in BatchState
  BY NoEntriesIsSound DEF Scripts!NoBatch, BatchState, Results
<1> QED
  BY <1>1, <1>2 DEF Scripts!Quiet, Scripts!NoBatch

LEMMA ExitedStates ==
  \A code \in {"exit 0", "exit 2"} :
    Scripts!Exited(code) \in InspectorState /\ Scripts!Exited(code).pc = code
BY InspectorStates DEF Scripts!Exited, Scripts!Quiet, InspectorState

(* A step of one inspection.                                                *)
LEMMA OneInspector ==
  ASSUME ScriptsInv, NEW i \in Inspector, NEW q \in InspectorState,
         inspector' = [inspector EXCEPT ![i] = q],
         UNCHANGED <<content, batch, state, public, recorded>>,
         DOMAIN reports' \subseteq 0..MaxContent,
         \A c \in DOMAIN reports' : ReportIsOf(c, reports'[c]),
         q.pc \in {"digest", "rows", "save"} => q.file \in File,
         ReplacedSince(q)
  PROVE  ScriptsInv'
<1> USE DEF ScriptsInv
<1>1. /\ inspector' \in [Inspector -> InspectorState]
      /\ inspector'[i] = q
      /\ \A j \in Inspector \ {i} : inspector'[j] = inspector[j]
  BY DEF ScriptsTypeOK
<1>2. ScriptsTypeOK'
  BY <1>1 DEF ScriptsTypeOK
<1>3. ReadInv'
  <2>1. \A j \in Inspector : ReplacedSince(inspector'[j])
    BY <1>1 DEF ReadInv
  <2> QED
    BY <2>1 DEF ReadInv, ReplacedSince
<1>4. CheckpointInv' /\ TodoInv'
  BY DEF CheckpointInv, TodoInv, IsRecordedDone
<1> QED
  BY <1>2, <1>3, <1>4

LEMMA DigestStep ==
  ASSUME ScriptsInv, NEW i \in Inspector, Scripts!Digest(i)
  PROVE  ScriptsInv'
<1> DEFINE p == inspector[i]
           q == [p EXCEPT !.sha = content[p.file], !.pc = "rows"]
<1>1. p \in InspectorState /\ p.file \in File /\ p.pc = "digest"
  BY DEF ScriptsInv, ScriptsTypeOK, Scripts!Digest
<1>2. content[p.file] \in 0..MaxContent
  BY <1>1 DEF ScriptsInv, ScriptsTypeOK
<1>3. q \in InspectorState /\ q.pc = "rows" /\ q.file = p.file /\ q.sha = content[p.file]
  BY <1>1, <1>2 DEF InspectorState
<1>4. inspector' = [inspector EXCEPT ![i] = q]
  BY DEF Scripts!Digest
<1>5. UNCHANGED <<content, batch, state, public, recorded, reports>>
  BY DEF Scripts!Digest
<1>6. /\ DOMAIN reports' \subseteq 0..MaxContent
      /\ \A c \in DOMAIN reports' : ReportIsOf(c, reports'[c])
  BY <1>5 DEF ScriptsInv, ScriptsTypeOK, ReadInv
<1> HIDE DEF p, q
<1>7. ReplacedSince(q)
  BY <1>3 DEF ReplacedSince
<1> QED
  BY <1>1, <1>3, <1>4, <1>5, <1>6, <1>7, OneInspector

LEMMA RowsStep ==
  ASSUME ScriptsInv, NEW i \in Inspector, Scripts!Rows(i)
  PROVE  ScriptsInv'
<1> DEFINE p == inspector[i]
           q == [p EXCEPT !.read = content[p.file], !.pc = "save"]
<1>1. p \in InspectorState /\ p.file \in File /\ p.pc = "rows"
  BY DEF ScriptsInv, ScriptsTypeOK, Scripts!Rows
<1>2. content[p.file] \in 0..MaxContent /\ ReplacedSince(p)
  BY <1>1 DEF ScriptsInv, ScriptsTypeOK, ReadInv
<1>3. /\ q \in InspectorState /\ q.pc = "save" /\ q.file = p.file
      /\ q.sha = p.sha /\ q.read = content[p.file] /\ q.swaps = p.swaps
  BY <1>1, <1>2 DEF InspectorState
<1>4. inspector' = [inspector EXCEPT ![i] = q]
  BY DEF Scripts!Rows
<1>5. UNCHANGED <<content, batch, state, public, recorded, reports>>
  BY DEF Scripts!Rows
<1>6. /\ DOMAIN reports' \subseteq 0..MaxContent
      /\ \A c \in DOMAIN reports' : ReportIsOf(c, reports'[c])
  BY <1>5 DEF ScriptsInv, ScriptsTypeOK, ReadInv
<1> HIDE DEF p, q
<1>7. ReplacedSince(q)
  BY <1>1, <1>2, <1>3 DEF ReplacedSince
<1> QED
  BY <1>1, <1>3, <1>4, <1>5, <1>6, <1>7, OneInspector

(* A report is saved of a capture that is as it was hashed, so it names     *)
(* what was read, or the capture was replaced twice.                        *)
LEMMA SaveReportStep ==
  ASSUME ScriptsInv, NEW i \in Inspector, Scripts!SaveReport(i)
  PROVE  ScriptsInv'
<1> DEFINE p == inspector[i]
<1>1. p \in InspectorState /\ p.pc \in {"digest", "rows", "save"} /\ p.file \in File
  BY DEF ScriptsInv, ScriptsTypeOK, Scripts!SaveReport
<1>2. UNCHANGED <<content, batch, state, public, recorded>>
  BY DEF Scripts!SaveReport
<1>3. CASE p.pc = "save" /\ ~Scripts!Changed(p, content[p.file])
  <2> DEFINE r == [read |-> p.read, swaps |-> p.swaps]
  <2>1. /\ inspector' = [inspector EXCEPT ![i] = Scripts!Exited("exit 0")]
        /\ reports' = Scripts!With(reports, p.sha, r)
    BY <1>3 DEF Scripts!SaveReport
  <2>2. p.sha \in 0..MaxContent /\ ReportIsOf(p.sha, r)
    <3>1. content[p.file] = p.sha
      BY <1>3 DEF Scripts!Changed
    <3>2. p.read # p.sha => p.swaps >= 2
      BY <1>3, <3>1 DEF ScriptsInv, ReadInv, ReplacedSince
    <3>3. r \in Scripts!Evidence
      BY <1>1 DEF InspectorState, Scripts!Evidence
    <3> QED
      BY <1>1, <3>2, <3>3 DEF ReportIsOf, InspectorState
  <2> HIDE DEF r
  <2>3. /\ DOMAIN reports' = DOMAIN reports \cup {p.sha}
        /\ \A c \in DOMAIN reports' : ReportIsOf(c, reports'[c])
    BY <2>1, <2>2 DEF Scripts!With, ScriptsInv, ReadInv
  <2>4. ReplacedSince(Scripts!Exited("exit 0"))
    BY ExitedStates DEF ReplacedSince
  <2> HIDE DEF p
  <2> QED
    BY <1>2, <2>1, <2>2, <2>3, <2>4, ExitedStates, OneInspector
       DEF ScriptsInv, ScriptsTypeOK
<1>4. CASE ~(p.pc = "save" /\ ~Scripts!Changed(p, content[p.file]))
  <2>1. /\ inspector' = [inspector EXCEPT ![i] = Scripts!Exited("exit 2")]
        /\ UNCHANGED reports
    BY <1>4 DEF Scripts!SaveReport
  <2>2. ReplacedSince(Scripts!Exited("exit 2"))
    BY ExitedStates DEF ReplacedSince
  <2> HIDE DEF p
  <2> QED
    BY <1>2, <2>1, <2>2, ExitedStates, OneInspector
       DEF ScriptsInv, ScriptsTypeOK, ReadInv
<1> QED
  BY <1>3, <1>4

LEMMA OrphanEndsStep ==
  ASSUME ScriptsInv, Scripts!OrphanEnds
  PROVE  ScriptsInv'
<1>1. /\ inspector' = [inspector EXCEPT !["orphan"] = Scripts!Quiet]
      /\ UNCHANGED <<content, batch, state, public, recorded, reports>>
  BY DEF Scripts!OrphanEnds
<1>2. "orphan" \in Inspector
  BY DEF Inspector
<1>3. ReplacedSince(Scripts!Quiet)
  BY InspectorStates DEF ReplacedSince
<1> QED
  BY <1>1, <1>2, <1>3, InspectorStates, OneInspector DEF ScriptsInv, ScriptsTypeOK, ReadInv

LEMMA SwapCounted ==
  ASSUME NEW p \in InspectorState, NEW q, q = [p EXCEPT !.swaps = p.swaps + 1]
  PROVE  /\ q \in InspectorState /\ p.swaps \in Nat
         /\ q.pc = p.pc /\ q.file = p.file /\ q.sha = p.sha /\ q.read = p.read
         /\ q.swaps = p.swaps + 1
<1>1. p.swaps \in Nat
  BY DEF InspectorState
<1>2. PICK n \in Nat : n = p.swaps + 1
  BY <1>1
<1>3. q = [p EXCEPT !.swaps = n]
  BY <1>2
<1>4. q = [pc |-> p.pc, file |-> p.file, pre |-> p.pre, sha |-> p.sha,
           read |-> p.read, swaps |-> n]
  BY <1>3 DEF InspectorState
<1>5. /\ p.pc \in {"off", "digest", "rows", "save", "exit 0", "exit 2"}
      /\ p.file \in File \cup {0} /\ p.pre \in 0..MaxContent
      /\ p.sha \in 0..MaxContent /\ p.read \in 0..MaxContent
  BY DEF InspectorState
<1>6. q \in InspectorState
  BY <1>2, <1>4, <1>5, Zenon DEF InspectorState
<1> QED
  BY <1>1, <1>2, <1>4, <1>6

(* A capture is replaced: every inspection that has hashed it counts it.    *)
LEMMA ReplaceStep ==
  ASSUME ScriptsInv, Scripts!Replace
  PROVE  ScriptsInv'
<1> USE DEF ScriptsInv
<1> DEFINE Hit(i, f) == inspector[i].file = f /\ inspector[i].pc \in {"rows", "save"}
<1>1. PICK f \in File, c \in 0..MaxContent :
        /\ c # content[f]
        /\ content' = [content EXCEPT ![f] = c]
        /\ inspector' = [i \in DOMAIN inspector |->
             IF Hit(i, f)
               THEN [inspector[i] EXCEPT !.swaps = inspector[i].swaps + 1]
               ELSE inspector[i]]
  BY DEF Scripts!Replace
<1>2. UNCHANGED <<reports, state, batch, public, recorded>>
  BY DEF Scripts!Replace
<1>3. /\ content' \in [File -> 0..MaxContent]
      /\ content'[f] = c /\ \A g \in File : g # f => content'[g] = content[g]
  BY <1>1 DEF ScriptsTypeOK
<1>4. ASSUME NEW i \in Inspector
      PROVE  /\ inspector'[i] \in InspectorState
             /\ inspector'[i].pc = inspector[i].pc
             /\ inspector'[i].file = inspector[i].file
             /\ inspector'[i].sha = inspector[i].sha
             /\ inspector'[i].read = inspector[i].read
             /\ inspector'[i].swaps = inspector[i].swaps + (IF Hit(i, f) THEN 1 ELSE 0)
             /\ inspector[i].swaps \in Nat
  <2>1. i \in DOMAIN inspector /\ inspector[i] \in InspectorState
    BY DEF ScriptsTypeOK
  <2>2. CASE Hit(i, f)
    <3>1. inspector'[i] = [inspector[i] EXCEPT !.swaps = inspector[i].swaps + 1]
      BY <1>1, <2>1, <2>2
    <3> HIDE DEF Hit
    <3> QED
      BY <2>1, <2>2, <3>1, SwapCounted
  <2>3. CASE ~Hit(i, f)
    <3>1. inspector'[i] = inspector[i]
      BY <1>1, <2>1, <2>3
    <3>2. inspector[i].swaps \in Nat
      BY <2>1 DEF InspectorState
    <3> HIDE DEF Hit
    <3> QED
      BY <2>1, <2>3, <3>1, <3>2
  <2> QED
    BY <2>2, <2>3
<1>5. inspector' \in [Inspector -> InspectorState]
  <2>1. DOMAIN inspector = Inspector
    BY DEF ScriptsTypeOK
  <2>2. inspector' = [i \in Inspector |-> inspector'[i]]
    BY <1>1, <2>1
  <2> QED
    BY <1>4, <2>2
<1>6. ScriptsTypeOK'
  BY <1>2, <1>3, <1>4, <1>5 DEF ScriptsTypeOK
<1>7. ReadInv'
  <2>1. ASSUME NEW i \in Inspector
        PROVE  ReplacedSince(inspector[i])'
    <3> DEFINE p == inspector[i]
               q == inspector'[i]
    <3>1. /\ q.pc = p.pc /\ q.file = p.file /\ q.sha = p.sha /\ q.read = p.read
          /\ q.swaps = p.swaps + (IF Hit(i, f) THEN 1 ELSE 0)
          /\ p.swaps \in Nat
      BY <1>4
    <3>2. ReplacedSince(p)
      BY DEF ReadInv
    <3>3. p.pc \in {"rows", "save"} => p.file \in File
      BY DEF ScriptsTypeOK
    <3>4. CASE Hit(i, f)
      <4>1. q.swaps = p.swaps + 1 /\ content'[p.file] = c /\ content[p.file] # c
        BY <1>1, <1>3, <3>1, <3>4
      <4> HIDE DEF p, q
      <4>2. q.swaps >= 1
        BY <3>1, <4>1
      <4>3. p.swaps >= 1 => q.swaps >= 2
        BY <3>1, <4>1
      <4>4. p.pc = "save" /\ p.read # p.sha => p.swaps >= 1
        BY <3>1, <3>2 DEF ReplacedSince
      <4> QED
        BY <3>1, <4>2, <4>3, <4>4 DEF ReplacedSince, p, q
    <3>5. CASE p.pc \in {"rows", "save"} /\ ~Hit(i, f)
      <4>1. q.swaps = p.swaps /\ content'[p.file] = content[p.file]
        BY <1>3, <3>1, <3>3, <3>5
      <4> HIDE DEF p, Hit
      <4> QED
        BY <3>1, <3>2, <4>1 DEF ReplacedSince
    <3>6. CASE p.pc \notin {"rows", "save"}
      BY <3>1, <3>6 DEF ReplacedSince
    <3> QED
      BY <3>4, <3>5, <3>6
  <2> QED
    BY <1>2, <2>1 DEF ReadInv
<1>8. CheckpointInv' /\ TodoInv'
  BY <1>2 DEF CheckpointInv, TodoInv, IsRecordedDone
<1> QED
  BY <1>6, <1>7, <1>8
-----------------------------------------------------------------------------
(* What a batch selects.                                                    *)

(* The captures triage still has to do, and how many of them it takes.      *)
Undone == {f \in File : ~Scripts!IsDone(state["triage"].entries, f)}
Taken == IF MaxFiles <= Cardinality(Undone) THEN MaxFiles ELSE Cardinality(Undone)

(* Triage takes the first of them, each as it is then.                      *)
LEMMA TriageSelects ==
  ASSUME content \in [File -> 0..MaxContent]
  PROVE  LET q   == Scripts!InOrder(Undone)
             sel == Scripts!Selected("triage")
         IN  /\ sel \in Seq(Item)
             /\ DOMAIN sel = 1..Taken /\ Taken \in Nat
             /\ IsOrder(q, Undone) /\ DOMAIN q = 1..Cardinality(Undone)
             /\ Cardinality(Undone) \in Nat /\ Taken <= Cardinality(Undone)
             /\ \A i \in 1..Taken :
                  /\ i \in DOMAIN q
                  /\ sel[i] = [file |-> q[i], sha |-> content[q[i]]]
<1> USE ScriptsAssumed
<1> DEFINE q      == Scripts!InOrder(Undone)
           n      == Cardinality(Undone)
           sel    == Scripts!Selected("triage")
           chosen == SubSeq(q, 1, Taken)
<1>1. Undone \in SUBSET File /\ content \in [File -> 0..MaxContent]
  BY DEF Undone
<1>2. IsOrder(q, Undone)
  BY <1>1, InOrderIsOrder
<1>3. n \in Nat
  BY <1>1, FS_Subset, FS_CardinalityType
<1>4. q \in [1..n -> Undone] /\ DOMAIN q = 1..n
  BY <1>2 DEF IsOrder
<1>5. Scripts!Min({MaxFiles, n}) = Taken
  <2> DEFINE least == CHOOSE x \in {MaxFiles, n} : \A y \in {MaxFiles, n} : x =< y
  <2>1. \E x \in {MaxFiles, n} : \A y \in {MaxFiles, n} : x =< y
    BY <1>3
  <2>2. least \in {MaxFiles, n} /\ \A y \in {MaxFiles, n} : least =< y
    BY <2>1
  <2>3. Scripts!Min({MaxFiles, n}) = least
    BY DEF Scripts!Min
  <2> HIDE DEF least
  <2> QED
    BY <1>3, <2>2, <2>3 DEF Taken
<1>6. Taken \in Nat /\ Taken <= n
  BY <1>3 DEF Taken
<1>7. \A i \in 1..Taken : i \in 1..n /\ q[i] \in Undone
  BY <1>3, <1>4, <1>6
<1>8. /\ chosen \in Seq(Undone) /\ Len(chosen) = Taken
      /\ \A i \in 1..Taken : chosen[i] = q[i]
  <2> HIDE DEF q
  <2>1. /\ SubSeq(q, 1, Taken) \in Seq(Undone)
        /\ Len(SubSeq(q, 1, Taken)) = IF 1 <= Taken THEN Taken - 1 + 1 ELSE 0
        /\ \A i \in 1..(Taken - 1 + 1) : SubSeq(q, 1, Taken)[i] = q[1 + i - 1]
    BY <1>6, <1>7, SubSeqProperties
  <2>2. Taken - 1 + 1 = Taken /\ \A i \in 1..Taken : 1 + i - 1 = i
    BY <1>6
  <2>3. (IF 1 <= Taken THEN Taken - 1 + 1 ELSE 0) = Taken
    BY <1>6
  <2> QED
    BY <2>1, <2>2, <2>3
<1>9. DOMAIN chosen = 1..Taken
  BY <1>8, LenProperties
<1>10. sel = [i \in 1..Taken |-> [file |-> chosen[i], sha |-> content[chosen[i]]]]
  <2>1. Undone = {f \in File : ~Scripts!IsDone(Scripts!Saved("triage"), f)}
    BY DEF Undone, Scripts!Saved
  <2>2. Scripts!Cardinality(Undone) = n
    BY ScriptsCardinality
  <2> QED
    BY <1>5, <1>9, <2>1, <2>2 DEF Scripts!Selected
<1>11. \A i \in 1..Taken : sel[i] = [file |-> q[i], sha |-> content[q[i]]]
  BY <1>8, <1>10
<1>12. sel \in Seq(Item)
  <2>1. \A i \in 1..Taken : [file |-> chosen[i], sha |-> content[chosen[i]]] \in Item
    <3> SUFFICES ASSUME NEW i \in 1..Taken
                 PROVE  [file |-> q[i], sha |-> content[q[i]]] \in Item
      BY <1>8
    <3>1. q[i] \in File /\ content[q[i]] \in 0..MaxContent
      BY <1>1, <1>7
    <3> QED
      BY <3>1 DEF Item
  <2>2. sel \in [1..Taken -> Item]
    <3> HIDE DEF chosen, sel
    <3> QED
      BY <1>10, <2>1
  <2> QED
    BY <1>6, <2>2, SeqDef
<1>13. DOMAIN sel = 1..Taken
  BY <1>10
<1> QED
  BY <1>2, <1>3, <1>4, <1>6, <1>7, <1>11, <1>12, <1>13

(* Each of them once, and none that is done.                                *)
LEMMA TriageSelectsUndone ==
  ASSUME content \in [File -> 0..MaxContent]
  PROVE  LET sel == Scripts!Selected("triage") IN
         /\ sel \in Seq(Item)
         /\ \A i, j \in DOMAIN sel : sel[i].file = sel[j].file => i = j
         /\ \A i \in DOMAIN sel : /\ sel[i].sha = content[sel[i].file]
                                  /\ sel[i].file \in Undone
<1> DEFINE q   == Scripts!InOrder(Undone)
           sel == Scripts!Selected("triage")
<1>1. /\ sel \in Seq(Item) /\ DOMAIN sel = 1..Taken
      /\ IsOrder(q, Undone) /\ DOMAIN q = 1..Cardinality(Undone)
      /\ \A i \in 1..Taken : /\ i \in DOMAIN q
                             /\ sel[i] = [file |-> q[i], sha |-> content[q[i]]]
  BY TriageSelects
<1>2. content \in [File -> 0..MaxContent] /\ Undone \in SUBSET File
  BY ScriptsAssumed DEF Undone
<1>3. \A i, j \in DOMAIN q : q[i] = q[j] => i = j
  BY <1>1, <1>2, OrderIsComplete
<1>4. \A i \in DOMAIN q : q[i] \in Undone
  BY <1>1 DEF IsOrder
<1> HIDE DEF q, sel
<1>5. \A i \in DOMAIN sel : /\ i \in DOMAIN q
                            /\ sel[i].file = q[i] /\ sel[i].sha = content[q[i]]
  BY <1>1
<1>6. /\ \A i, j \in DOMAIN sel : sel[i].file = sel[j].file => i = j
      /\ \A i \in DOMAIN sel : /\ sel[i].sha = content[sel[i].file]
                               /\ sel[i].file \in Undone
  BY <1>3, <1>4, <1>5
<1> QED
  BY <1>1, <1>6 DEF sel

LEMMA ReconSelects ==
  ASSUME content \in [File -> 0..MaxContent]
  PROVE  Scripts!Selected("recon") \in Seq(Item)
<1> DEFINE sampled == {f \in File : Scripts!Place(f)
                                      \in Scripts!Sampled(Scripts!Cardinality(File))}
           q       == Scripts!InOrder(sampled)
           n       == Cardinality(sampled)
<1>1. sampled \in SUBSET File /\ content \in [File -> 0..MaxContent]
  BY ScriptsAssumed
<1>2. q \in [1..n -> sampled] /\ DOMAIN q = 1..n
  BY <1>1, InOrderIsOrder DEF IsOrder
<1>3. n \in Nat
  BY <1>1, ScriptsAssumed, FS_Subset, FS_CardinalityType
<1>4. Scripts!Selected("recon") =
        [i \in DOMAIN q |-> [file |-> q[i], sha |-> content[q[i]]]]
  BY DEF Scripts!Selected
<1> HIDE DEF q
<1>5. \A i \in 1..n : [file |-> q[i], sha |-> content[q[i]]] \in Item
  BY <1>1, <1>2 DEF Item
<1> HIDE DEF sampled, n
<1>6. Scripts!Selected("recon") \in [1..n -> Item]
  BY <1>2, <1>4, <1>5
<1> QED
  BY <1>3, <1>6, SeqDef
-----------------------------------------------------------------------------
(* The steps of a batch.                                                    *)

InspectionsOK ==
  /\ DOMAIN reports \subseteq 0..MaxContent
  /\ inspector \in [Inspector -> InspectorState]
  /\ \A i \in Inspector :
       inspector[i].pc \in {"digest", "rows", "save"} => inspector[i].file \in File
  /\ ReadInv

BatchesOK ==
  /\ batch \in [Scripts!Script -> BatchState]
  /\ \A s \in Scripts!Script :
       batch[s].pc = "inspecting" => batch[s].todo # <<>>

FilesOK ==
  /\ state \in [Scripts!Script -> FileState]
  /\ public \in [Scripts!Script -> Results]
  /\ recorded \in [Scripts!Script -> Entries]

LEMMA ScriptsInvParts ==
  ScriptsInv <=> /\ content \in [File -> 0..MaxContent]
                 /\ InspectionsOK /\ BatchesOK /\ FilesOK
                 /\ CheckpointInv /\ TodoInv
BY DEF ScriptsInv, ScriptsTypeOK, InspectionsOK, BatchesOK, FilesOK

(* A batch removes reports, and starts, ends or leaves behind inspections.  *)
LEMMA InspectionsKept ==
  ASSUME InspectionsOK, UNCHANGED content,
         DOMAIN reports' \subseteq DOMAIN reports,
         \A c \in DOMAIN reports' : reports'[c] = reports[c],
         inspector' \in [Inspector -> InspectorState],
         \A i \in Inspector :
           \/ \E j \in Inspector : inspector'[i] = inspector[j]
           \/ inspector'[i].pc = "off"
           \/ inspector'[i].pc = "digest" /\ inspector'[i].file \in File
  PROVE  InspectionsOK'
<1>1. \A i \in Inspector :
        inspector'[i].pc \in {"digest", "rows", "save"} => inspector'[i].file \in File
  BY DEF InspectionsOK
<1>2. ReadInv'
  <2>1. \A c \in DOMAIN reports' : ReportIsOf(c, reports'[c])
    BY DEF InspectionsOK, ReadInv
  <2>2. ASSUME NEW i \in Inspector
        PROVE  ReplacedSince(inspector'[i])
    <3>1. CASE \E j \in Inspector : inspector'[i] = inspector[j]
      BY <3>1 DEF InspectionsOK, ReadInv
    <3>2. CASE inspector'[i].pc \in {"off", "digest"}
      BY <3>2 DEF ReplacedSince
    <3> QED
      BY <3>1, <3>2
  <2> QED
    BY <2>1, <2>2 DEF ReadInv, ReplacedSince
<1> QED
  BY <1>1, <1>2 DEF InspectionsOK

(* The batch of one script is replaced.                                     *)
LEMMA BatchReplaced ==
  ASSUME BatchesOK, NEW s \in Scripts!Script, NEW b \in BatchState,
         batch' = [batch EXCEPT ![s] = b], b.pc = "inspecting" => b.todo # <<>>
  PROVE  /\ BatchesOK'
         /\ batch'[s] = b
         /\ \A t \in Scripts!Script : t # s => batch'[t] = batch[t]
BY DEF BatchesOK

LEMMA StartStep ==
  ASSUME ScriptsInv, NEW s \in Scripts!Script, Scripts!Start(s)
  PROVE  ScriptsInv'
<1> DEFINE b == [pc |-> "next", todo |-> Scripts!Selected(s),
                 entries |-> Scripts!Saved(s), results |-> <<>>]
<1>1. /\ batch' = [batch EXCEPT ![s] = b]
      /\ reports' = reports \/ reports' = Scripts!NoEntries
      /\ UNCHANGED <<content, state, inspector, public, recorded>>
  BY DEF Scripts!Start
<1>2. /\ content \in [File -> 0..MaxContent]
      /\ InspectionsOK /\ BatchesOK /\ FilesOK /\ CheckpointInv /\ TodoInv
  BY ScriptsInvParts
<1>3. Scripts!Selected(s) \in Seq(Item)
  BY <1>2, TriageSelectsUndone, ReconSelects DEF Scripts!Script
<1>4. Scripts!Saved(s) = recorded[s] /\ Scripts!Saved(s) \in Entries
  BY <1>2 DEF Scripts!Saved, CheckpointInv, FilesOK, FileState
<1>5. b \in BatchState
  BY <1>3, <1>4 DEF BatchState, Results
<1>6. /\ BatchesOK' /\ batch'[s] = b
      /\ \A t \in Scripts!Script : t # s => batch'[t] = batch[t]
  BY <1>1, <1>2, <1>5, BatchReplaced
<1>7. InspectionsOK'
  <2>1. DOMAIN reports' \subseteq DOMAIN reports
        /\ \A c \in DOMAIN reports' : reports'[c] = reports[c]
    BY <1>1 DEF Scripts!NoEntries
  <2> QED
    BY <1>1, <1>2, <2>1, InspectionsKept DEF InspectionsOK
<1>8. FilesOK'
  BY <1>1, <1>2 DEF FilesOK
<1>9. CheckpointInv'
  BY <1>1, <1>2, <1>4, <1>6 DEF CheckpointInv
<1>10. TodoInv'
  <2>1. CASE s = "triage"
    <3>1. LET sel == Scripts!Selected("triage") IN
            /\ \A i, j \in DOMAIN sel : sel[i].file = sel[j].file => i = j
            /\ \A i \in DOMAIN sel : ~IsRecordedDone(sel[i])
      BY <1>2, <1>4, <2>1, TriageSelectsUndone
         DEF IsRecordedDone, Undone, Scripts!IsDone, Scripts!Saved
    <3>2. batch'["triage"].todo = Scripts!Selected("triage")
      BY <1>6, <2>1
    <3> QED
      BY <1>1, <3>1, <3>2 DEF TodoInv, IsRecordedDone
  <2>2. CASE s # "triage"
    BY <1>1, <1>2, <1>6, <2>2 DEF TodoInv, IsRecordedDone, Scripts!Script
  <2> QED
    BY <2>1, <2>2
<1> QED
  BY <1>1, <1>2, <1>6, <1>7, <1>8, <1>9, <1>10
     DEF ScriptsInv, ScriptsTypeOK, InspectionsOK, BatchesOK, FilesOK

LEMMA PublishStep ==
  ASSUME ScriptsInv, NEW s \in Scripts!Script, Scripts!Publish(s)
  PROVE  ScriptsInv'
<1>1. /\ batch' = [batch EXCEPT ![s] = Scripts!NoBatch]
      /\ state' = [state EXCEPT ![s] = Scripts!Whole(batch[s].entries)]
      /\ public' = [public EXCEPT ![s] = batch[s].results]
      /\ UNCHANGED <<content, reports, inspector, recorded>>
      /\ batch[s].pc = "next"
  BY DEF Scripts!Publish
<1>2. /\ content \in [File -> 0..MaxContent]
      /\ InspectionsOK /\ BatchesOK /\ FilesOK /\ CheckpointInv /\ TodoInv
  BY ScriptsInvParts
<1>3. /\ BatchesOK' /\ batch'[s] = Scripts!NoBatch
      /\ \A t \in Scripts!Script : t # s => batch'[t] = batch[t]
  BY <1>1, <1>2, InspectorStates, BatchReplaced
<1>4. batch[s].results \in Results /\ batch[s].entries \in Entries
  BY <1>2 DEF BatchesOK, BatchState
<1>5. /\ Scripts!Whole(batch[s].entries) \in FileState
      /\ Scripts!Whole(batch[s].entries).entries = recorded[s]
  BY <1>1, <1>2, <1>4 DEF Scripts!Whole, FileState, CheckpointInv
<1>6. FilesOK'
  BY <1>1, <1>2, <1>4, <1>5 DEF FilesOK
<1>7. CheckpointInv'
  BY <1>1, <1>2, <1>3, <1>5, InspectorStates DEF CheckpointInv, FilesOK
<1>8. TodoInv'
  BY <1>1, <1>2, <1>3, InspectorStates DEF TodoInv, IsRecordedDone, Scripts!Script
<1>9. InspectionsOK'
  BY <1>1, <1>2 DEF InspectionsOK, ReadInv, ReplacedSince
<1> QED
  BY <1>1, <1>2, <1>3, <1>6, <1>7, <1>8, <1>9
     DEF ScriptsInv, ScriptsTypeOK, InspectionsOK, BatchesOK, FilesOK

LEMMA KilledInspectingStep ==
  ASSUME ScriptsInv, NEW s \in Scripts!Script, Scripts!KilledInspecting(s)
  PROVE  ScriptsInv'
<1>1. /\ batch' = [batch EXCEPT ![s] = Scripts!NoBatch]
      /\ inspector' = [inspector EXCEPT !["orphan"] = inspector[s], ![s] = Scripts!Quiet]
      /\ UNCHANGED <<content, reports, state, public, recorded>>
  BY DEF Scripts!KilledInspecting, Scripts!Killed
<1>2. /\ content \in [File -> 0..MaxContent]
      /\ InspectionsOK /\ BatchesOK /\ FilesOK /\ CheckpointInv /\ TodoInv
  BY ScriptsInvParts
<1>3. /\ BatchesOK' /\ batch'[s] = Scripts!NoBatch
      /\ \A t \in Scripts!Script : t # s => batch'[t] = batch[t]
  BY <1>1, <1>2, InspectorStates, BatchReplaced
<1>4. InspectionsOK'
  <2>1. s \in Inspector /\ "orphan" \in Inspector
    BY DEF Inspector
  <2>2. inspector' \in [Inspector -> InspectorState]
    BY <1>1, <1>2, <2>1, InspectorStates DEF InspectionsOK
  <2>3. \A i \in Inspector : \/ \E j \in Inspector : inspector'[i] = inspector[j]
                             \/ inspector'[i].pc = "off"
    BY <1>1, <1>2, <2>1, InspectorStates DEF InspectionsOK
  <2> QED
    BY <1>1, <1>2, <2>2, <2>3, InspectionsKept
<1>5. FilesOK'
  BY <1>1, <1>2 DEF FilesOK
<1>6. CheckpointInv'
  BY <1>1, <1>2, <1>3, InspectorStates DEF CheckpointInv
<1>7. TodoInv'
  BY <1>1, <1>2, <1>3, InspectorStates DEF TodoInv, IsRecordedDone, Scripts!Script
<1> QED
  BY <1>1, <1>2, <1>3, <1>4, <1>5, <1>6, <1>7
     DEF ScriptsInv, ScriptsTypeOK, InspectionsOK, BatchesOK, FilesOK

(* Killed while it saves: the old checkpoint is there, the new one, or none.*)
LEMMA KilledSavingStep ==
  ASSUME ScriptsInv, NEW s \in Scripts!Script, Scripts!KilledSaving(s)
  PROVE  ScriptsInv'
<1>1. /\ batch' = [batch EXCEPT ![s] = Scripts!NoBatch]
      /\ UNCHANGED <<content, reports, inspector, public>>
      /\ batch[s].pc = "next"
  BY DEF Scripts!KilledSaving, Scripts!Killed
<1>2. /\ content \in [File -> 0..MaxContent]
      /\ InspectionsOK /\ BatchesOK /\ FilesOK /\ CheckpointInv /\ TodoInv
  BY ScriptsInvParts
<1>3. /\ BatchesOK' /\ batch'[s] = Scripts!NoBatch
      /\ \A t \in Scripts!Script : t # s => batch'[t] = batch[t]
  BY <1>1, <1>2, InspectorStates, BatchReplaced
<1>4. PICK left \in {state[s], Scripts!Whole(batch[s].entries), Scripts!Missing} :
        state' = [state EXCEPT ![s] = left]
  BY DEF Scripts!KilledSaving, Scripts!LeftByMove
<1>5. left \in FileState
  BY <1>2, NoEntriesIsSound
     DEF FilesOK, BatchesOK, BatchState, FileState, Scripts!Whole, Scripts!Missing
<1>6. state'[s] = left /\ \A t \in Scripts!Script : t # s => state'[t] = state[t]
  BY <1>2, <1>4 DEF FilesOK
<1>7. /\ recorded' = IF left = Scripts!Missing
                       THEN [recorded EXCEPT ![s] = Scripts!NoEntries] ELSE recorded
      /\ left # Scripts!Missing => left.entries = recorded[s]
      /\ left = Scripts!Missing => left.entries = Scripts!NoEntries
  BY <1>1, <1>2, <1>6
     DEF Scripts!KilledSaving, CheckpointInv, Scripts!Whole, Scripts!Missing
<1>8. /\ recorded' \in [Scripts!Script -> Entries]
      /\ recorded'[s] = left.entries
      /\ \A t \in Scripts!Script : t # s => recorded'[t] = recorded[t]
  BY <1>2, <1>7, NoEntriesIsSound DEF FilesOK
<1>9. FilesOK'
  BY <1>1, <1>2, <1>4, <1>5, <1>8 DEF FilesOK
<1>10. CheckpointInv'
  BY <1>2, <1>3, <1>6, <1>8, InspectorStates DEF CheckpointInv
<1>11. TodoInv'
  BY <1>2, <1>3, <1>8, InspectorStates DEF TodoInv, IsRecordedDone, Scripts!Script
<1>12. InspectionsOK'
  BY <1>1, <1>2 DEF InspectionsOK, ReadInv, ReplacedSince
<1> QED
  BY <1>1, <1>2, <1>3, <1>9, <1>10, <1>11, <1>12
     DEF ScriptsInv, ScriptsTypeOK, InspectionsOK, BatchesOK, FilesOK

LEMMA TailOfTodo ==
  ASSUME NEW todo \in Seq(Item), todo # <<>>
  PROVE  /\ todo[1] \in Item /\ 1 \in DOMAIN todo
         /\ Tail(todo) \in Seq(Item)
         /\ \A i \in DOMAIN Tail(todo) : /\ i + 1 \in DOMAIN todo /\ i + 1 # 1
                                         /\ Tail(todo)[i] = todo[i + 1]
<1> DEFINE rest == Tail(todo)
<1>1. Len(todo) \in Nat /\ DOMAIN todo = 1..Len(todo) /\ Len(todo) # 0
  BY LenProperties, EmptySeq
<1>2. 1 \in DOMAIN todo
  BY <1>1
<1>3. /\ rest \in Seq(Item) /\ Len(rest) = Len(todo) - 1
      /\ \A i \in 1..Len(rest) : rest[i] = todo[i + 1]
  BY HeadTailProperties
<1>4. Len(rest) \in Nat /\ DOMAIN rest = 1..Len(rest)
  BY <1>3, LenProperties
<1> HIDE DEF rest
<1>5. \A i \in DOMAIN rest : i + 1 \in DOMAIN todo /\ i + 1 # 1
  BY <1>1, <1>3, <1>4
<1>6. todo[1] \in Item
  BY <1>2, ElementOfSeq, <1>1
<1> QED
  BY <1>2, <1>3, <1>4, <1>5, <1>6 DEF rest

LEMMA CollectStep ==
  ASSUME ScriptsInv, NEW s \in Scripts!Script, Scripts!Collect(s)
  PROVE  ScriptsInv'
<1> DEFINE b       == batch[s]
           f       == b.todo[1].file
           sha     == b.todo[1].sha
           entry   == Scripts!Result(s, sha)
           entries == Scripts!With(b.entries, f, entry)
           new     == [pc |-> "next", todo |-> Tail(b.todo), entries |-> entries,
                       results |-> Append(b.results, <<f, entry>>)]
<1>1. /\ inspector' = [inspector EXCEPT ![s] = Scripts!Quiet]
      /\ batch' = [batch EXCEPT ![s] = new]
      /\ state' = [state EXCEPT ![s] = Scripts!Whole(entries)]
      /\ recorded' = [recorded EXCEPT ![s] = Scripts!With(recorded[s], f, entry)]
      /\ \/ reports' = Scripts!NoEntries
         \/ reports' = Scripts!Without(reports, {sha})
      /\ UNCHANGED <<content, public>>
      /\ b.pc = "inspecting"
  BY DEF Scripts!Collect, Scripts!Updated
<1>2. /\ content \in [File -> 0..MaxContent]
      /\ InspectionsOK /\ BatchesOK /\ FilesOK /\ CheckpointInv /\ TodoInv
  BY ScriptsInvParts
<1>3. b \in BatchState /\ b.todo \in Seq(Item) /\ b.todo # <<>>
  BY <1>1, <1>2 DEF BatchesOK, BatchState
<1>4. /\ b.todo[1] \in Item
      /\ Tail(b.todo) \in Seq(Item)
      /\ 1 \in DOMAIN b.todo
      /\ \A i \in DOMAIN Tail(b.todo) : /\ i + 1 \in DOMAIN b.todo /\ i + 1 # 1
                                        /\ Tail(b.todo)[i] = b.todo[i + 1]
  <2> HIDE DEF b
  <2> QED
    BY <1>3, TailOfTodo
<1>5. f \in File /\ sha \in 0..MaxContent
  BY <1>4 DEF Item
<1>6. entry \in SoundEntry
  BY <1>5, ResultIsSound DEF ScriptsInv
<1>7. b.entries = recorded[s] /\ b.entries \in Entries
  BY <1>1, <1>2, <1>3 DEF CheckpointInv, BatchState
<1> HIDE DEF f, sha, entry
<1>8. /\ entries \in Entries /\ DOMAIN entries = DOMAIN recorded[s] \cup {f}
      /\ \A g \in DOMAIN recorded[s] : g # f => entries[g] = recorded[s][g]
  <2>1. recorded[s] \in Entries /\ entries = Scripts!With(recorded[s], f, entry)
    BY <1>7
  <2> HIDE DEF entries
  <2> QED
    BY <2>1, <1>5, <1>6, WithSoundEntry
<1>9. Append(b.results, <<f, entry>>) \in Results
  <2>1. b.results \in Seq(File \X SoundEntry) /\ <<f, entry>> \in File \X SoundEntry
    BY <1>3, <1>5, <1>6 DEF BatchState, Results
  <2> QED
    BY <2>1, AppendProperties DEF Results
<1>10. recorded' = [recorded EXCEPT ![s] = entries]
  BY <1>1, <1>7
<1> HIDE DEF entries
<1>11. new \in BatchState
  BY <1>4, <1>8, <1>9 DEF BatchState
<1>12. /\ BatchesOK' /\ batch'[s] = new
       /\ \A t \in Scripts!Script : t # s => batch'[t] = batch[t]
  <2>1. new.pc = "next"
    OBVIOUS
  <2> HIDE DEF new
  <2> QED
    BY <1>1, <1>2, <1>11, <2>1, BatchReplaced
<1>13. /\ Scripts!Whole(entries) \in FileState
       /\ Scripts!Whole(entries).entries = entries
  BY <1>8 DEF Scripts!Whole, FileState
<1>14. FilesOK'
  BY <1>1, <1>2, <1>8, <1>10, <1>13 DEF FilesOK
<1>15. CheckpointInv'
  BY <1>1, <1>2, <1>10, <1>12, <1>13 DEF CheckpointInv, FilesOK
<1>16. InspectionsOK'
  <2>1. /\ DOMAIN reports' \subseteq DOMAIN reports
        /\ \A c \in DOMAIN reports' : reports'[c] = reports[c]
    BY <1>1 DEF Scripts!NoEntries, Scripts!Without
  <2>2. /\ inspector' \in [Inspector -> InspectorState]
        /\ \A i \in Inspector : \/ inspector'[i] = inspector[i]
                                \/ inspector'[i].pc = "off"
    BY <1>1, <1>2, InspectorStates DEF InspectionsOK, Inspector
  <2> QED
    BY <1>1, <1>2, <2>1, <2>2, InspectionsKept
<1>17. TodoInv'
  <2>1. CASE s = "triage"
    <3>1. PICK rest : rest = batch'["triage"].todo /\ rest = Tail(b.todo)
      <4>1. batch'["triage"].todo = new.todo
        BY <1>12, <2>1
      <4>2. new.todo = Tail(b.todo)
        OBVIOUS
      <4> QED
        BY <4>1, <4>2
    <3>2. \A i \in DOMAIN rest : /\ i + 1 \in DOMAIN b.todo /\ i + 1 # 1
                                 /\ rest[i] = b.todo[i + 1]
      BY <1>4, <3>1
    <3>3. \A i, j \in DOMAIN b.todo : b.todo[i].file = b.todo[j].file => i = j
      BY <1>2, <2>1 DEF TodoInv
    <3>4. \A i \in DOMAIN b.todo : ~IsRecordedDone(b.todo[i])
      BY <1>2, <2>1 DEF TodoInv
    <3>5. \A i \in DOMAIN rest : rest[i].file # f
      BY <1>4, <3>2, <3>3 DEF f
    <3>6. /\ recorded'["triage"] = entries
          /\ DOMAIN entries = DOMAIN recorded["triage"] \cup {f}
          /\ \A g \in DOMAIN recorded["triage"] :
               g # f => entries[g] = recorded["triage"][g]
      BY <1>2, <1>8, <1>10, <2>1 DEF FilesOK
    <3> HIDE DEF b, new
    <3>7. \A i \in DOMAIN rest : ~IsRecordedDone(rest[i])'
      <4> SUFFICES ASSUME NEW i \in DOMAIN rest PROVE ~IsRecordedDone(rest[i])'
        OBVIOUS
      <4>1. ~IsRecordedDone(b.todo[i + 1]) /\ rest[i] = b.todo[i + 1]
        BY <3>2, <3>4
      <4> QED
        BY <4>1, <3>5, <3>6 DEF IsRecordedDone
    <3>8. \A i, j \in DOMAIN rest : rest[i].file = rest[j].file => i = j
      <4>1. \A i, j \in DOMAIN rest : rest[i].file = rest[j].file => i + 1 = j + 1
        BY <3>2, <3>3
      <4>2. \A i \in DOMAIN rest : i \in Int
        BY <1>4, <3>1, LenProperties
      <4> QED
        BY <4>1, <4>2
    <3> QED
      BY <3>1, <3>7, <3>8 DEF TodoInv
  <2>2. CASE s # "triage"
    <3>1. /\ batch'["triage"] = batch["triage"]
          /\ recorded'["triage"] = recorded["triage"]
      BY <1>2, <1>10, <1>12, <2>2 DEF Scripts!Script, FilesOK
    <3> QED
      BY <1>2, <3>1 DEF TodoInv, IsRecordedDone
  <2> QED
    BY <2>1, <2>2
<1> QED
  BY <1>1, <1>2, <1>12, <1>14, <1>15, <1>16, <1>17
     DEF ScriptsInv, ScriptsTypeOK, InspectionsOK, BatchesOK, FilesOK

(* The next capture is given up, skipped by reconnaissance, or inspected.   *)
LEMMA TakeStep ==
  ASSUME ScriptsInv, NEW s \in Scripts!Script, Scripts!Take(s)
  PROVE  ScriptsInv'
<1> DEFINE b == batch[s]
           f == b.todo[1].file
<1>1. /\ b.pc = "next" /\ b.todo # <<>>
      /\ UNCHANGED <<content, state, public, recorded>>
  BY DEF Scripts!Take
<1>2. /\ content \in [File -> 0..MaxContent]
      /\ InspectionsOK /\ BatchesOK /\ FilesOK /\ CheckpointInv /\ TodoInv
  BY ScriptsInvParts
<1>3. b \in BatchState /\ b.todo \in Seq(Item)
  BY <1>2 DEF BatchesOK, BatchState
<1>4. b.todo[1] \in Item /\ 1 \in DOMAIN b.todo /\ Tail(b.todo) \in Seq(Item)
  <2> HIDE DEF b
  <2> QED
    BY <1>1, <1>3, TailOfTodo
<1>5. f \in File
  BY <1>4 DEF Item
<1>6. b.entries = recorded[s]
  BY <1>1, <1>2 DEF CheckpointInv
<1>7. FilesOK'
  BY <1>1, <1>2 DEF FilesOK
(* A batch whose rest is as before, none, or not triage's is fine, as long  *)
(* as what it goes on from is.                                              *)
<1>8. ASSUME NEW new \in BatchState, batch' = [batch EXCEPT ![s] = new],
             new.pc \in {"next", "inspecting"},
             new.entries = b.entries,
             new.pc = "inspecting" => new.todo # <<>>,
             s = "triage" => new.todo = b.todo \/ new.todo = <<>>
      PROVE  BatchesOK' /\ CheckpointInv' /\ TodoInv'
  <2>1. /\ BatchesOK' /\ batch'[s] = new
        /\ \A t \in Scripts!Script : t # s => batch'[t] = batch[t]
    BY <1>2, <1>8, BatchReplaced
  <2>2. CheckpointInv'
    BY <1>1, <1>2, <1>6, <1>8, <2>1 DEF CheckpointInv
  <2>3. batch'["triage"].todo = batch["triage"].todo \/ batch'["triage"].todo = <<>>
    BY <1>8, <2>1 DEF Scripts!Script
  <2>4. TodoInv'
    BY <1>1, <1>2, <2>3 DEF TodoInv, IsRecordedDone
  <2> QED
    BY <2>1, <2>2, <2>4
<1>9. ASSUME BatchesOK' /\ CheckpointInv' /\ TodoInv', InspectionsOK'
      PROVE  ScriptsInv'
  BY <1>1, <1>2, <1>7, <1>9
     DEF ScriptsInv, ScriptsTypeOK, InspectionsOK, BatchesOK, FilesOK
<1>10. CASE marker[s]
  <2> DEFINE new == [b EXCEPT !.todo = <<>>]
  <2>1. batch' = [batch EXCEPT ![s] = new] /\ UNCHANGED <<reports, inspector>>
    BY <1>10 DEF Scripts!Take
  <2>2. /\ new \in BatchState /\ new.pc = "next" /\ new.entries = b.entries
        /\ new.todo = <<>>
    <3>1. <<>> \in Seq(Item)
      BY EmptySeq
    <3> HIDE DEF b
    <3> QED
      BY <1>1, <1>3, <3>1 DEF BatchState
  <2>3. InspectionsOK'
    BY <1>1, <1>2, <2>1 DEF InspectionsOK, ReadInv, ReplacedSince
  <2> HIDE DEF b, new
  <2> QED
    BY <1>8, <1>9, <2>1, <2>2, <2>3
<1>11. CASE ~marker[s] /\ s = "recon" /\ Scripts!IsDone(b.entries, f)
  <2> DEFINE done == Append(b.results, <<f, b.entries[f]>>)
             new  == [b EXCEPT !.todo = Tail(b.todo), !.results = done]
  <2>1. batch' = [batch EXCEPT ![s] = new] /\ UNCHANGED <<reports, inspector>>
    BY <1>11 DEF Scripts!Take
  <2>2. done \in Results
    <3>1. b.results \in Seq(File \X SoundEntry) /\ b.entries \in Entries
      BY <1>3 DEF BatchState, Results
    <3>2. b.entries[f] \in SoundEntry
      BY <1>11, <3>1 DEF Entries, Scripts!IsDone
    <3>3. <<f, b.entries[f]>> \in File \X SoundEntry
      BY <1>5, <3>2
    <3> HIDE DEF b, f
    <3> QED
      BY <3>1, <3>3, AppendProperties DEF Results
  <2> HIDE DEF done
  <2>3. /\ new \in BatchState /\ new.pc = "next" /\ new.entries = b.entries
    BY <1>1, <1>3, <1>4, <2>2 DEF BatchState
  <2>4. InspectionsOK'
    BY <1>1, <1>2, <2>1 DEF InspectionsOK, ReadInv, ReplacedSince
  <2>5. s # "triage"
    BY <1>11
  <2> HIDE DEF b, new
  <2> QED
    BY <1>8, <1>9, <2>1, <2>3, <2>4, <2>5
<1>12. CASE ~marker[s] /\ ~(s = "recon" /\ Scripts!IsDone(b.entries, f))
  <2> DEFINE sha  == IF s = "recon" THEN content[f] ELSE b.todo[1].sha
             item == [b.todo[1] EXCEPT !.sha = sha]
             todo == [b.todo EXCEPT ![1] = item]
             new  == [b EXCEPT !.pc = "inspecting", !.todo = todo]
             q    == [pc |-> "digest", file |-> f, pre |-> content[f],
                      sha |-> 0, read |-> 0, swaps |-> 0]
  <2>1. /\ inspector' = [inspector EXCEPT ![s] = q]
        /\ batch' = [batch EXCEPT
             ![s].pc = "inspecting",
             ![s].todo[1].sha = IF s = "recon" THEN content[f] ELSE @]
        /\ reports' = IF s = "recon" THEN Scripts!NoEntries ELSE reports
    BY <1>12 DEF Scripts!Take
  <2>2. batch' = [batch EXCEPT ![s] = new]
    BY <2>1
  <2>3. item \in Item /\ (s = "triage" => item = b.todo[1])
    BY <1>2, <1>4, <1>5 DEF Item
  <2>4. /\ todo \in Seq(Item) /\ todo # <<>>
        /\ s = "triage" => todo = b.todo
    <3>1. 1 \in 1..Len(b.todo)
      BY <1>3, <1>4, LenProperties
    <3> HIDE DEF b, item
    <3>2. todo \in Seq(Item) /\ Len(todo) = Len(b.todo)
      BY <1>3, <2>3, <3>1, ExceptSeq
    <3>3. todo # <<>>
      BY <1>1, <1>3, <3>2, EmptySeq
    <3>4. item = b.todo[1] => todo = b.todo
      BY <1>3
    <3> QED
      BY <2>3, <3>2, <3>3, <3>4
  <2> HIDE DEF todo
  <2>5. /\ new \in BatchState /\ new.pc = "inspecting" /\ new.entries = b.entries
        /\ new.todo = todo
    BY <1>3, <2>4 DEF BatchState
  <2>6. q \in InspectorState /\ q.pc = "digest" /\ q.file \in File
    <3>1. content[f] \in 0..MaxContent /\ 0 \in 0..MaxContent
      <4> HIDE DEF f
      <4>1. content[f] \in 0..MaxContent
        BY <1>2, <1>5
      <4>2. 0 \in 0..MaxContent
        BY ScriptsAssumed
      <4> QED
        BY <4>1, <4>2
    <3> HIDE DEF f
    <3> QED
      BY <1>5, <3>1 DEF InspectorState
  <2>7. InspectionsOK'
    <3>1. /\ DOMAIN reports' \subseteq DOMAIN reports
          /\ \A c \in DOMAIN reports' : reports'[c] = reports[c]
      BY <2>1 DEF Scripts!NoEntries
    <3> HIDE DEF q
    <3>2. /\ inspector' \in [Inspector -> InspectorState]
          /\ \A i \in Inspector : inspector'[i] = inspector[i] \/ inspector'[i] = q
      BY <1>2, <2>1, <2>6 DEF InspectionsOK, Inspector
    <3> QED
      BY <1>1, <1>2, <2>6, <3>1, <3>2, InspectionsKept
  <2> HIDE DEF b, new
  <2> QED
    BY <1>8, <1>9, <2>2, <2>4, <2>5, <2>7
<1> QED
  BY <1>10, <1>11, <1>12

LEMMA ScriptsInit == Scripts!Init => ScriptsInv
<1> SUFFICES ASSUME Scripts!Init PROVE ScriptsInv
  OBVIOUS
<1> USE DEF Scripts!Init
<1>1. content \in [File -> 0..MaxContent]
  BY ScriptsAssumed
<1>2. /\ DOMAIN reports = {}
      /\ \A s \in Scripts!Script : /\ state[s] = Scripts!Missing
                                   /\ batch[s] = Scripts!NoBatch
                                   /\ recorded[s] = Scripts!NoEntries
      /\ \A i \in Inspector : inspector[i] = Scripts!Quiet
  BY DEF Scripts!NoEntries, Inspector
<1>3. InspectionsOK
  BY <1>2, InspectorStates DEF InspectionsOK, ReadInv, ReplacedSince, Inspector
<1>4. BatchesOK
  BY <1>2, InspectorStates DEF BatchesOK
<1>5. FilesOK
  BY NoEntriesIsSound DEF FilesOK, FileState, Scripts!Missing, Results
<1>6. CheckpointInv
  BY <1>2, InspectorStates DEF CheckpointInv, Scripts!Missing
<1>7. TodoInv
  BY <1>2, InspectorStates DEF TodoInv, Scripts!Script
<1> HIDE DEF Scripts!Init
<1> QED
  BY <1>1, <1>3, <1>4, <1>5, <1>6, <1>7, ScriptsInvParts

LEMMA ScriptsStep == ScriptsInv /\ [Scripts!Next]_(Scripts!vars) => ScriptsInv'
<1> SUFFICES ASSUME ScriptsInv, [Scripts!Next]_(Scripts!vars) PROVE ScriptsInv'
  OBVIOUS
<1>1. CASE Scripts!Replace
  BY <1>1, ReplaceStep
<1>2. CASE Scripts!Inspect
  <2>1. DOMAIN inspector = Inspector
    BY DEF ScriptsInv, ScriptsTypeOK
  <2> QED
    BY <1>2, <2>1, DigestStep, RowsStep, SaveReportStep DEF Scripts!Inspect
<1>3. CASE Scripts!OrphanEnds
  BY <1>3, OrphanEndsStep
<1>4. ASSUME NEW s \in Scripts!Script, Scripts!Run(s)
      PROVE  ScriptsInv'
  BY <1>4, StartStep, TakeStep, CollectStep, PublishStep, KilledInspectingStep,
     KilledSavingStep DEF Scripts!Run
<1>5. ASSUME UNCHANGED <<content, reports, state, batch, inspector, public, recorded>>
      PROVE  ScriptsInv'
  BY <1>5 DEF ScriptsInv, ScriptsTypeOK, ReadInv, ReplacedSince, CheckpointInv, TodoInv, IsRecordedDone
<1>6. ASSUME NEW s \in Scripts!Script, Scripts!RequestCancel(s)
      PROVE  ScriptsInv'
  BY <1>5, <1>6 DEF Scripts!RequestCancel
<1>7. CASE UNCHANGED Scripts!vars
  BY <1>5, <1>7 DEF Scripts!vars
<1> QED
  BY <1>1, <1>2, <1>3, <1>4, <1>6, <1>7 DEF Scripts!Next

THEOREM ScriptsInductive == Scripts!Spec => []ScriptsInv
BY ScriptsInit, ScriptsStep, PTL DEF Scripts!Spec
-----------------------------------------------------------------------------
(* Whatever reports lie around and however often captures are replaced,     *)
(* also by what they were before: what a checkpoint or a summary calls      *)
(* succeeded was read from the content it names, or the capture was         *)
(* replaced twice or more between the container's hash and the host's.      *)
(* inspect_pcap.ps1 compares the hashes before it saves a report, and       *)
(* Convert-ChildReport takes only the report of the hash.                   *)
THEOREM EvidenceIsOfItsContent == Scripts!Spec => []EvidenceMatchesContent
<1>1. ASSUME ScriptsInv
      PROVE  EvidenceMatchesContent
  <2>1. ASSUME NEW s \in Scripts!Script, NEW f \in DOMAIN Scripts!Saved(s),
               Scripts!Saved(s)[f].result = "succeeded"
        PROVE  Scripts!IsOfItsContent(Scripts!Saved(s)[f])
    <3>1. Scripts!Saved(s) \in Entries
      BY <1>1 DEF ScriptsInv, ScriptsTypeOK, FileState, Scripts!Saved
    <3>2. Scripts!Saved(s)[f] \in SoundEntry
      BY <2>1, <3>1 DEF Entries
    <3> QED
      BY <2>1, <3>2 DEF SoundEntry
  <2>2. ASSUME NEW s \in Scripts!Script, NEW r \in Scripts!ToSet(public[s]),
               r[2].result = "succeeded"
        PROVE  Scripts!IsOfItsContent(r[2])
    <3>1. public[s] \in Seq(File \X SoundEntry)
      BY <1>1 DEF ScriptsInv, ScriptsTypeOK, Results
    <3>2. r \in File \X SoundEntry
      BY <3>1, LenProperties, ElementOfSeq DEF Scripts!ToSet
    <3> QED
      BY <2>2, <3>2 DEF SoundEntry
  <2> QED
    BY <2>1, <2>2 DEF EvidenceMatchesContent, Scripts!EvidenceMatchesContent
<1> QED
  BY <1>1, ScriptsInductive, PTL

(* A batch may be killed anywhere: the checkpoint parses and holds the last *)
(* result of every capture since it was last lost, and triage inspects      *)
(* nothing again that is recorded as succeeded (Save-AtomicJson and the     *)
(* batch loop of inspect_pcap_batch.ps1).                                   *)
THEOREM CheckpointResumesExactly == Scripts!Spec => []ResumeIsExact
<1>1. ASSUME ScriptsInv
      PROVE  ResumeIsExact
  <2>1. ASSUME NEW s \in Scripts!Script
        PROVE  state[s] # Scripts!Torn /\ Scripts!Saved(s) = recorded[s]
    <3>1. state[s].file \in {"missing", "whole"}
      BY <1>1 DEF ScriptsInv, ScriptsTypeOK, FileState
    <3> QED
      BY <1>1, <3>1 DEF ScriptsInv, CheckpointInv, Scripts!Torn, Scripts!Saved
  <2>2. batch["triage"].todo \in Seq(Item)
    BY <1>1 DEF ScriptsInv, ScriptsTypeOK, BatchState, Scripts!Script
  <2>3. DOMAIN batch["triage"].todo = 1..Len(batch["triage"].todo)
    BY <2>2, LenProperties
  <2>4. \A i \in DOMAIN batch["triage"].todo : ~IsRecordedDone(batch["triage"].todo[i])
    BY <1>1 DEF ScriptsInv, TodoInv
  <2> QED
    BY <2>1, <2>3, <2>4 DEF ResumeIsExact, Scripts!ResumeIsExact, IsRecordedDone
<1> QED
  BY <1>1, ScriptsInductive, PTL

(* What triage leaves out comes after as many captures as it may take.      *)
LEMMA SelectionPassesOver ==
  ASSUME ScriptsInv,
         NEW f \in File \ {c.file : c \in Scripts!ToSet(Scripts!Selected("triage"))},
         f \in Undone
  PROVE  LET todo == {c.file : c \in Scripts!ToSet(Scripts!Selected("triage"))} IN
         /\ Cardinality(todo) = MaxFiles
         /\ \A g \in todo : Scripts!SizeOf(g) <= Scripts!SizeOf(f)
<1> DEFINE q    == Scripts!InOrder(Undone)
           n    == Cardinality(Undone)
           sel  == Scripts!Selected("triage")
           todo == {c.file : c \in Scripts!ToSet(sel)}
<1>1. content \in [File -> 0..MaxContent]
  BY DEF ScriptsInv, ScriptsTypeOK
<1>2. content \in [File -> 0..MaxContent] /\ Undone \in SUBSET File
  BY <1>1, ScriptsAssumed DEF Undone
<1>3. /\ sel \in Seq(Item) /\ DOMAIN sel = 1..Taken /\ Taken \in Nat
      /\ IsOrder(q, Undone) /\ DOMAIN q = 1..n
      /\ n \in Nat /\ Taken <= n
      /\ \A i \in 1..Taken : /\ i \in DOMAIN q
                             /\ sel[i] = [file |-> q[i], sha |-> content[q[i]]]
  BY <1>1, TriageSelects
<1>4. /\ \A i, j \in DOMAIN q : q[i] = q[j] => i = j
      /\ \A g \in Undone : \E i \in DOMAIN q : q[i] = g
  BY <1>2, <1>3, OrderIsComplete
<1>5. \A i, j \in DOMAIN q : i < j => Scripts!Before(q[i], q[j])
  BY <1>3 DEF IsOrder
<1>6. \A i \in DOMAIN q : q[i] \in File
  BY <1>2, <1>3 DEF IsOrder
<1> HIDE DEF q, n, sel
<1>7. Scripts!ToSet(sel) = {sel[i] : i \in 1..Taken}
  BY <1>3 DEF Scripts!ToSet
<1>8. todo = {q[i] : i \in 1..Taken}
  <2>1. \A i \in 1..Taken : sel[i].file = q[i]
    BY <1>3
  <2> QED
    BY <1>7, <2>1
<1>9. PICK k \in DOMAIN q : q[k] = f
  BY <1>4
<1>10. k \notin 1..Taken
  BY <1>8, <1>9 DEF sel
<1>11. \A i \in 1..Taken : i < k
  BY <1>3, <1>9, <1>10
<1>12. Taken = MaxFiles
  <2>1. Taken # n
    BY <1>3, <1>9, <1>10
  <2> QED
    BY <2>1 DEF Taken, n
<1>13. Cardinality(todo) = MaxFiles
  <2> DEFINE p == [i \in 1..Taken |-> q[i]]
  <2>1. \A i \in 1..Taken : q[i] \in todo /\ i \in DOMAIN q
    BY <1>3, <1>8
  <2>2. \A g \in todo : \E i \in 1..Taken : q[i] = g
    BY <1>8
  <2> HIDE DEF todo
  <2>3. p \in Bijection(1..Taken, todo)
    <3>1. p \in [1..Taken -> todo]
      BY <2>1
    <3>2. \A i, j \in 1..Taken : p[i] = p[j] => i = j
      BY <1>4, <2>1
    <3>3. \A g \in todo : \E i \in 1..Taken : p[i] = g
      BY <2>2
    <3> HIDE DEF p
    <3>4. DOMAIN p = 1..Taken
      BY <3>1
    <3> QED
      BY <3>1, <3>2, <3>3, <3>4 DEF Bijection, Injection, Surjection, IsInjective
  <2>4. IsFiniteSet(1..Taken) /\ Cardinality(1..Taken) = Taken
    <3>1. Taken \in Int /\ 1 \in Int /\ Taken \in Nat
      BY <1>3
    <3> HIDE DEF Taken
    <3>2. /\ IsFiniteSet(1..Taken)
          /\ Cardinality(1..Taken) = IF 1 > Taken THEN 0 ELSE Taken - 1 + 1
      BY <3>1, FS_Interval
    <3> QED
      BY <3>1, <3>2
  <2>5. Cardinality(todo) = Taken
    <3> HIDE DEF p
    <3> QED
      BY <2>3, <2>4, FS_Bijection DEF ExistsBijection
  <2> QED
    BY <1>12, <2>5
<1>14. ASSUME NEW g \in todo
       PROVE  Scripts!SizeOf(g) <= Scripts!SizeOf(f)
  <2>1. PICK i \in 1..Taken : q[i] = g
    BY <1>8
  <2>2. Scripts!Before(g, f)
    BY <1>3, <1>5, <1>9, <1>11, <2>1
  <2>3. Scripts!SizeOf(g) \in Nat /\ Scripts!SizeOf(f) \in Nat
    BY <1>2, <1>3, <1>6, <1>9, <2>1, SizesAreNumbers
  <2> QED
    BY <2>2, <2>3 DEF Scripts!Before
<1> QED
  BY <1>13, <1>14 DEF sel

(* Selecting passes over a capture only if its last recorded result is a    *)
(* success on the content that is there, or if the batch is full of         *)
(* captures no larger (Get-OrderedCaptureFiles and the selection of         *)
(* inspect_pcap_batch.ps1).                                                 *)
THEOREM NoCaptureIsForgotten == Scripts!Spec => NothingIsPassedOver
<1> DEFINE Chosen == {c.file : c \in Scripts!ToSet(batch'["triage"].todo)}
           Selecting ==
             batch["triage"].pc = "off" /\ batch'["triage"].pc = "next" =>
               LET todo == {c.file : c \in Scripts!ToSet(batch'["triage"].todo)} IN
               \A f \in File \ todo :
                 \/ /\ f \in DOMAIN recorded["triage"]
                    /\ recorded["triage"][f].result = "succeeded"
                    /\ recorded["triage"][f].sha = content[f]
                 \/ /\ Scripts!Cardinality(todo) = MaxFiles
                    /\ \A g \in todo : Scripts!SizeOf(g) <= Scripts!SizeOf(f)
<1>1. ASSUME ScriptsInv, [Scripts!Next]_(Scripts!vars)
      PROVE  Selecting
  <2> SUFFICES ASSUME batch["triage"].pc = "off", batch'["triage"].pc = "next",
                      NEW f \in File \ Chosen,
                      ~(/\ f \in DOMAIN recorded["triage"]
                        /\ recorded["triage"][f].result = "succeeded"
                        /\ recorded["triage"][f].sha = content[f])
               PROVE  /\ Scripts!Cardinality(Chosen) = MaxFiles
                      /\ \A g \in Chosen : Scripts!SizeOf(g) <= Scripts!SizeOf(f)
    OBVIOUS
  <2>1. /\ batch \in [Scripts!Script -> BatchState]
        /\ state["triage"].entries = recorded["triage"]
        /\ "triage" \in Scripts!Script
    BY <1>1 DEF ScriptsInv, ScriptsTypeOK, CheckpointInv, Scripts!Script
  <2>2. Scripts!Start("triage")
    <3>1. batch' # batch
      OBVIOUS
    <3>2. PICK s \in Scripts!Script : Scripts!Run(s)
      BY <1>1, <3>1
         DEF Scripts!Next, Scripts!vars, Scripts!Replace, Scripts!Inspect, Scripts!Digest,
             Scripts!Rows, Scripts!SaveReport, Scripts!OrphanEnds, Scripts!RequestCancel
    <3>3. Scripts!Start(s) \/ (batch[s].pc # "off" /\ \E b : batch' = [batch EXCEPT ![s] = b])
      BY <3>2 DEF Scripts!Run, Scripts!Take, Scripts!Collect, Scripts!Publish,
                  Scripts!KilledInspecting, Scripts!KilledSaving, Scripts!Killed
    <3>4. CASE batch[s].pc # "off" /\ \E b : batch' = [batch EXCEPT ![s] = b]
      BY <2>1, <3>4
    <3>5. CASE Scripts!Start(s)
      BY <2>1, <3>5 DEF Scripts!Start
    <3> QED
      BY <3>3, <3>4, <3>5
  <2>3. batch'["triage"].todo = Scripts!Selected("triage")
    BY <2>1, <2>2 DEF Scripts!Start
  <2>4. f \in Undone
    BY <2>1 DEF Undone, Scripts!IsDone
  <2>5. Cardinality(Chosen) = MaxFiles /\ \A g \in Chosen : Scripts!SizeOf(g) <= Scripts!SizeOf(f)
    BY <1>1, <2>3, <2>4, SelectionPassesOver
  <2> QED
    BY <2>5, ScriptsCardinality
<1>2. ASSUME ScriptsInv, [Scripts!Next]_(Scripts!vars)
      PROVE  [Selecting]_(Scripts!vars)
  BY <1>1, <1>2
<1> QED
  BY <1>2, ScriptsInductive, PTL
     DEF Scripts!Spec, NothingIsPassedOver, Scripts!NothingIsPassedOver
-----------------------------------------------------------------------------
(* The report of one capture.                                               *)

LEMMA ReportsAssumed ==
  /\ MaxPackets \in Nat /\ MaxTime \in Nat /\ Rule \subseteq Nat
  /\ MinPackets \in Nat \ {0} /\ MaxEvidence \in Nat
BY InspectionsAssumption DEF Reports!ReportsAssumption

LEMMA ReportsCardinality == \A S : Reports!Cardinality(S) = Cardinality(S)
BY DEF Reports!Cardinality, Cardinality

(* A capture is a finite sequence of packets.                               *)
LEMMA PacketsTyped ==
  ASSUME NEW c \in Reports!Capture
  PROVE  /\ Len(c.packets) \in Nat
         /\ Reports!Indices(c) = 1 .. Len(c.packets)
         /\ \A i \in Reports!Indices(c) :
              /\ c.packets[i] \in Reports!Packet
              /\ c.packets[i].rules \subseteq Rule
              /\ c.packets[i].time \in 0 .. MaxTime
              /\ c.packets[i].time \in Nat
<1>1. c.packets \in Reports!BoundedSeq(Reports!Packet, MaxPackets)
  BY DEF Reports!Capture
<1>2. PICK n \in 0 .. MaxPackets : c.packets \in [1 .. n -> Reports!Packet]
  BY <1>1, ReportsAssumed DEF Reports!BoundedSeq, Reports!SeqOf
<1>3. n \in Nat
  BY ReportsAssumed
<1>4. c.packets \in Seq(Reports!Packet)
  BY <1>2, <1>3
<1>5. \A p \in Reports!Packet : p.rules \subseteq Rule /\ p.time \in 0 .. MaxTime
  BY DEF Reports!Packet
<1> QED
  BY <1>2, <1>3, <1>4, <1>5, ReportsAssumed DEF Reports!Indices

(* A protocol is counted exactly if some packet has it.                     *)
LEMMA CountsArePositive ==
  ASSUME NEW c \in Reports!Capture, NEW p \in Reports!Protocol
  PROVE  LET count == Reports!Observation(c).counts[p] IN
         /\ count \in Nat
         /\ count > 0 <=> \E i \in Reports!Indices(c) : p \in c.packets[i].protocols
<1> DEFINE S == {i \in Reports!Indices(c) : p \in c.packets[i].protocols}
<1>1. Reports!Observation(c).counts[p] = Cardinality(S)
  BY ReportsCardinality DEF Reports!Observation, Reports!CountOf
<1>2. S \subseteq 1 .. Len(c.packets) /\ Len(c.packets) \in Nat
  BY PacketsTyped
<1> HIDE DEF S
<1>3. IsFiniteSet(S)
  <2>1. IsFiniteSet(1 .. Len(c.packets))
    BY <1>2, FS_Interval
  <2> QED
    BY <1>2, <2>1, FS_Subset
<1>4. Cardinality(S) \in Nat /\ (Cardinality(S) = 0 <=> S = {})
  BY <1>3, FS_CardinalityType, FS_EmptySet
<1>5. S # {} <=> \E i \in Reports!Indices(c) : p \in c.packets[i].protocols
  BY DEF S
<1> QED
  BY <1>1, <1>4, <1>5

(* The container's policy and the host's give the same verdict.             *)
LEMMA PoliciesAgree ==
  ASSUME NEW n \in Nat, NEW counts,
         \A p \in Reports!Protocol : counts[p] \in Nat
  PROVE  LET reason == Reports!Policy(n, counts) IN
         /\ Reports!HostPolicy(n, counts) = <<Reports!CapabilityOf(reason), reason>>
         /\ Reports!CapabilityOf(reason) = "token_eligible"
              <=> n # 0 /\ counts["plaintext"] > 0
<1> DEFINE reason == Reports!Policy(n, counts)
           verdict == Reports!HostPolicy(n, counts)
           plain == counts["plaintext"]
           tls == counts["tls"]
           quic == counts["quic"]
           other == counts["other"]
<1>1. plain \in Nat /\ tls \in Nat /\ quic \in Nat /\ other \in Nat
  BY DEF Reports!Protocol
<1>2. CASE n = 0
  <2>1. reason = "no_packets" /\ verdict = <<"insufficient_evidence", "no_packets">>
    BY <1>2 DEF Reports!Policy, Reports!HostPolicy
  <2> QED
    BY <1>2, <2>1 DEF Reports!CapabilityOf
<1>3. CASE n # 0 /\ plain > 0
  <2>1. reason = "plaintext_application_protocol_observed"
    BY <1>1, <1>3 DEF Reports!Policy
  <2>2. verdict = <<"token_eligible", "plaintext_application_protocol_observed">>
    BY <1>1, <1>3 DEF Reports!HostPolicy
  <2> QED
    BY <1>3, <2>1, <2>2 DEF Reports!CapabilityOf
<1>4. CASE n # 0 /\ plain = 0 /\ tls + quic > 0
  <2>1. reason = "encrypted_transport_observed"
    BY <1>1, <1>4 DEF Reports!Policy
  <2>2. tls > 0 \/ quic > 0
    BY <1>1, <1>4
  <2>3. verdict = <<"traffic_only", "encrypted_transport_observed">>
    BY <1>1, <1>4, <2>2 DEF Reports!HostPolicy
  <2> QED
    BY <1>4, <2>1, <2>3 DEF Reports!CapabilityOf
<1>5. CASE n # 0 /\ plain = 0 /\ tls = 0 /\ quic = 0 /\ other > 0
  <2>1. reason = "network_traffic_only"
    BY <1>5 DEF Reports!Policy
  <2>2. verdict = <<"traffic_only", "network_traffic_only">>
    BY <1>5 DEF Reports!HostPolicy, Reports!Protocol
  <2> QED
    BY <1>5, <2>1, <2>2 DEF Reports!CapabilityOf
<1>6. CASE n # 0 /\ plain = 0 /\ tls = 0 /\ quic = 0 /\ other = 0
  <2>1. reason = "no_supported_protocols"
    BY <1>6 DEF Reports!Policy
  <2>2. verdict = <<"insufficient_evidence", "no_supported_protocols">>
    BY <1>6 DEF Reports!HostPolicy, Reports!Protocol
  <2> QED
    BY <1>6, <2>1, <2>2 DEF Reports!CapabilityOf
<1>7. \/ n = 0
      \/ n # 0 /\ plain > 0
      \/ n # 0 /\ plain = 0 /\ tls + quic > 0
      \/ n # 0 /\ plain = 0 /\ tls = 0 /\ quic = 0 /\ other > 0
      \/ n # 0 /\ plain = 0 /\ tls = 0 /\ quic = 0 /\ other = 0
  <2> HIDE DEF plain, tls, quic, other
  <2> QED
    BY <1>1
<1> QED
  BY <1>2, <1>3, <1>4, <1>5, <1>6, <1>7

(* No capture's last packet is before its first.                            *)
LEMMA DurationIsNatural ==
  ASSUME NEW c \in Reports!Capture
  PROVE  Reports!Observation(c).duration \in Nat
<1> DEFINE T == {c.packets[i].time : i \in Reports!Indices(c)}
           R == {MaxTime - t : t \in T}
<1>1. T \subseteq 0 .. MaxTime /\ MaxTime \in Nat
  BY PacketsTyped, ReportsAssumed
<1>2. Reports!Observation(c).duration
        = IF T = {} THEN 0 ELSE Reports!Max(T) - Reports!Min(T)
  BY DEF Reports!Observation
<1> HIDE DEF T
<1>3. CASE T = {}
  BY <1>2, <1>3
<1>4. CASE T # {}
  <2>1. R \subseteq Nat /\ R # {}
    <3>1. \A t \in T : MaxTime - t \in Nat
      BY <1>1
    <3> QED
      BY <1>4, <3>1
  <2>2. PICK r \in R : \A y \in R : r <= y
    <3> HIDE DEF R
    <3> QED
      BY <2>1, LeastNumber
  <2>3. PICK m \in T : r = MaxTime - m
    OBVIOUS
  <2>4. \A t \in T : MaxTime - m <= MaxTime - t
    BY <2>2, <2>3
  <2>5. \A t \in T : t <= m
    BY <1>1, <2>4
  <2> HIDE DEF R
  <2> DEFINE last  == Reports!Max(T)
             first == Reports!Min(T)
  <2>6. last \in T /\ \A t \in T : last >= t
    BY <1>1, <2>5 DEF Reports!Max
  <2>7. \E x \in T : \A y \in T : x <= y
    <3>1. T \in SUBSET Nat
      BY <1>1
    <3> QED
      BY <1>4, <3>1, LeastNumber
  <2>8. first \in T
    BY <2>7 DEF Reports!Min
  <2>9. Reports!Observation(c).duration = last - first
    BY <1>2, <1>4
  <2> HIDE DEF last, first
  <2>10. last \in Nat /\ first \in Nat /\ first <= last
    BY <1>1, <2>6, <2>8
  <2>11. last - first \in Nat
    BY <2>10
  <2> QED
    BY <2>9, <2>11
<1> QED
  BY <1>3, <1>4

(* The container's validator and the host's accept every report, and call a *)
(* capture eligible exactly if a packet of it is plaintext.                 *)
LEMMA ReportAccepted ==
  ASSUME NEW c \in Reports!Capture
  PROVE  LET r == Reports!BuildReport(c) IN
         /\ Reports!ContainerAccepts(r)
         /\ Reports!HostAccepts(r)
         /\ Reports!BatchAccepts(r)
         /\ Reports!ReconAccepts(r, c.name) <=> c.magic = c.name
         /\ (r.capability = "token_eligible")
              <=> \E i \in Reports!Indices(c) :
                    "plaintext" \in c.packets[i].protocols
<1> DEFINE r == Reports!BuildReport(c)
           counts == Reports!Observation(c).counts
           n == Len(c.packets)
           reason == Reports!Policy(n, counts)
<1>1. /\ r.packets = n /\ r.counts = counts /\ r.reason = reason
      /\ r.capability = Reports!CapabilityOf(reason)
      /\ r.visibility = Reports!Visibility(counts)
      /\ r.format = c.magic
  BY DEF Reports!BuildReport, Reports!Observation
<1>2. r.duration >= 0
  <2>1. r.duration = Reports!Observation(c).duration
    BY DEF Reports!BuildReport
  <2> HIDE DEF r
  <2> QED
    BY <2>1, DurationIsNatural
<1>3. \A p \in Reports!Protocol :
        /\ counts[p] \in Nat
        /\ counts[p] > 0 <=> \E i \in Reports!Indices(c) :
                               p \in c.packets[i].protocols
  BY CountsArePositive
<1>4. n \in Nat /\ Reports!Indices(c) = 1 .. n
  BY PacketsTyped
<1>5. "plaintext" \in Reports!Protocol
  BY DEF Reports!Protocol
<1>6. Reports!Visibility(counts).plaintext <=> counts["plaintext"] > 0
  BY DEF Reports!Visibility
<1> HIDE DEF r, counts, n
<1>7. /\ Reports!HostPolicy(n, counts) = <<Reports!CapabilityOf(reason), reason>>
      /\ Reports!CapabilityOf(reason) = "token_eligible"
           <=> n # 0 /\ counts["plaintext"] > 0
  BY <1>3, <1>4, PoliciesAgree
<1> HIDE DEF reason
<1>8. Reports!Consistent(r)
  BY <1>1, <1>7 DEF Reports!Consistent
<1>9. counts["plaintext"] > 0 <=> \E i \in Reports!Indices(c) :
                                    "plaintext" \in c.packets[i].protocols
  BY <1>3, <1>5
<1>10. counts["plaintext"] > 0 => n # 0
  BY <1>4, <1>9
<1>11. (r.capability = "token_eligible") <=> counts["plaintext"] > 0
  BY <1>1, <1>7, <1>10
<1>12. Reports!HostAccepts(r)
  BY <1>2, <1>8 DEF Reports!HostAccepts
<1>13. Reports!BatchAccepts(r)
  BY <1>1, <1>6, <1>11 DEF Reports!BatchAccepts
<1>14. Reports!ReconAccepts(r, c.name) <=> c.magic = c.name
  BY <1>1, <1>2, <1>8 DEF Reports!ReconAccepts
<1>15. Reports!ContainerAccepts(r)
  BY <1>1, <1>2 DEF Reports!ContainerAccepts, reason
<1> QED
  BY <1>9, <1>11, <1>12, <1>13, <1>14, <1>15 DEF r

(* The evidence for the request in packet i.                                *)
RuleEvidence(c, i) ==
  [detector |-> "http_rule", rule |-> Reports!Min(c.packets[i].rules),
   first |-> i, last |-> i,
   start |-> Reports!Offset(c, i), end |-> Reports!Offset(c, i)]

LEMMA OneEvidencePerRequest ==
  ASSUME NEW c \in Reports!Capture
  PROVE  \A e : e \in Reports!RequestEvidence(c)
                  <=> \E i \in Reports!Requests(c) : e = RuleEvidence(c, i)
<1> DEFINE least(i) == Reports!Min(c.packets[i].rules)
           W == {v \in Reports!Requests(c) \X Rule :
                   v[2] \in Reports!FirstMatch(c.packets[v[1]].rules)}
           ev(w) == [detector |-> "http_rule", rule |-> w[2],
                     first |-> w[1], last |-> w[1],
                     start |-> Reports!Offset(c, w[1]),
                     end |-> Reports!Offset(c, w[1])]
<1>1. ASSUME NEW i \in Reports!Requests(c) PROVE least(i) \in Rule
  <2> DEFINE S == c.packets[i].rules
  <2>1. S \subseteq Rule /\ S # {}
    BY PacketsTyped DEF Reports!Requests
  <2>2. S \subseteq Nat
    BY <2>1, ReportsAssumed
  <2> HIDE DEF S
  <2>3. \E x \in S : \A y \in S : x <= y
    BY <2>1, <2>2, LeastNumber
  <2>4. Reports!Min(S) \in S
    BY <2>3 DEF Reports!Min
  <2> QED
    BY <2>1, <2>4 DEF S
<1>2. Reports!RequestEvidence(c) = {ev(w) : w \in W}
  BY DEF Reports!RequestEvidence
<1>3. \A w \in W : w[1] \in Reports!Requests(c) /\ w[2] = least(w[1])
  BY DEF Reports!FirstMatch
<1>4. \A i \in Reports!Requests(c) : <<i, least(i)>> \in W
  BY <1>1 DEF Reports!FirstMatch
<1> HIDE DEF W, least
<1>5. \A w \in W : ev(w) = RuleEvidence(c, w[1])
  BY <1>3 DEF RuleEvidence, least
<1>6. \A i \in Reports!Requests(c) : ev(<<i, least(i)>>) = RuleEvidence(c, i)
  BY DEF RuleEvidence, least
<1> HIDE DEF ev
<1> QED
  BY <1>2, <1>3, <1>4, <1>5, <1>6

(* The host refuses an HTTP detection only for its length: what the         *)
(* container reports names packets of the capture, in order.                *)
LEMMA DetectionAccepted ==
  ASSUME NEW c \in Reports!Capture, ~Reports!DetectFails(c),
         NEW e \in Reports!Detect(c).evidence
  PROVE  /\ 1 <= e.first /\ e.first <= e.last /\ e.last <= Len(c.packets)
         /\ 0 <= e.start /\ e.start <= e.end
<1> DEFINE n == Len(c.packets)
<1>1. n \in Nat /\ Reports!Indices(c) = 1 .. n
  BY PacketsTyped
<1>2. \A i \in 1 .. n : Reports!Offset(c, i) \in Int /\ Reports!Offset(c, i) >= 0
  <2> SUFFICES ASSUME NEW i \in 1 .. n
               PROVE  Reports!Offset(c, i) \in Int /\ Reports!Offset(c, i) >= 0
    OBVIOUS
  <2>1. 1 \in 1 .. n
    BY <1>1
  <2>2. c.packets[i].time \in Nat /\ c.packets[1].time \in Nat
    BY <1>1, <2>1, PacketsTyped
  <2>3. Reports!Offset(c, i) \in Int
    BY <2>2 DEF Reports!Offset
  <2>4. ~(Reports!Offset(c, i) < 0)
    BY <1>1 DEF Reports!DetectFails
  <2> QED
    BY <2>3, <2>4
<1>3. e \in Reports!RequestEvidence(c) \/ e \in Reports!BehaviorEvidence(c)
  BY DEF Reports!Detect
<1>4. CASE e \in Reports!RequestEvidence(c)
  <2>1. PICK i \in Reports!Requests(c) : e = RuleEvidence(c, i)
    BY <1>4, OneEvidencePerRequest
  <2>2. i \in 1 .. n
    BY <1>1 DEF Reports!Requests
  <2>3. /\ e.first = i /\ e.last = i
        /\ e.start = Reports!Offset(c, i) /\ e.end = Reports!Offset(c, i)
    BY <2>1 DEF RuleEvidence
  <2> HIDE DEF n
  <2> QED
    BY <1>1, <1>2, <2>2, <2>3 DEF n
<1>5. CASE e \in Reports!BehaviorEvidence(c)
  <2>1. /\ n >= MinPackets
        /\ e.first = 1 /\ e.last = n /\ e.start = 0
        /\ e.end = Reports!Offset(c, n)
    BY <1>5 DEF Reports!BehaviorEvidence
  <2> HIDE DEF n
  <2>2. n \in 1 .. n
    BY <1>1, <2>1, ReportsAssumed
  <2>3. e.end \in Int /\ e.end >= 0
    BY <1>2, <2>1, <2>2
  <2>4. 1 <= e.first /\ e.first <= e.last /\ e.last <= n
    BY <1>1, <2>1, <2>2
  <2> QED
    BY <2>1, <2>3, <2>4 DEF n
<1> QED
  BY <1>3, <1>4, <1>5

(* Each matching request has one piece of evidence.                         *)
LEMMA EvidenceCounted ==
  ASSUME NEW c \in Reports!Capture, NEW i \in Reports!Indices(c)
  PROVE  Cardinality({e \in Reports!Detect(c).evidence :
                        e.detector = "http_rule" /\ e.first = i})
           = IF c.packets[i].rules = {} THEN 0 ELSE 1
<1> DEFINE S == {e \in Reports!Detect(c).evidence :
                   e.detector = "http_rule" /\ e.first = i}
<1>1. \A e \in Reports!BehaviorEvidence(c) : e.detector # "http_rule"
  BY DEF Reports!BehaviorEvidence
<1>2. \A e : e \in Reports!RequestEvidence(c)
               <=> \E j \in Reports!Requests(c) : e = RuleEvidence(c, j)
  BY OneEvidencePerRequest
<1>3. \A j : RuleEvidence(c, j).detector = "http_rule"
             /\ RuleEvidence(c, j).first = j
  BY DEF RuleEvidence
<1>4. \A e : e \in Reports!Detect(c).evidence
               <=> e \in Reports!RequestEvidence(c) \/ e \in Reports!BehaviorEvidence(c)
  BY DEF Reports!Detect
<1>5. i \in Reports!Requests(c) <=> c.packets[i].rules # {}
  BY DEF Reports!Requests
<1>6. CASE c.packets[i].rules = {}
  <2>1. S = {}
    BY <1>1, <1>2, <1>3, <1>4, <1>5, <1>6
  <2> QED
    BY <1>6, <2>1, FS_EmptySet
<1>7. CASE c.packets[i].rules # {}
  <2>1. S = {RuleEvidence(c, i)}
    BY <1>1, <1>2, <1>3, <1>4, <1>5, <1>7
  <2> QED
    BY <1>7, <2>1, FS_Singleton
<1> QED
  BY <1>6, <1>7

LEMMA EvidenceIsFinite ==
  ASSUME NEW c \in Reports!Capture
  PROVE  IsFiniteSet(Reports!Detect(c).evidence)
<1> DEFINE R == Reports!Requests(c)
           ev(i) == RuleEvidence(c, i)
<1>1. R \subseteq 1 .. Len(c.packets) /\ Len(c.packets) \in Nat
  BY PacketsTyped DEF Reports!Requests
<1> HIDE DEF R
<1>2. IsFiniteSet(1 .. Len(c.packets))
  BY <1>1, FS_Interval
<1>3. IsFiniteSet(R)
  BY <1>1, <1>2, FS_Subset
<1> HIDE DEF ev
<1>4. IsFiniteSet({ev(i) : i \in R})
  <2> DEFINE T == {ev(i) : i \in R}
             f == [i \in R |-> ev(i)]
  <2>1. f \in Surjection(R, T)
    BY DEF Surjection
  <2> QED
    BY <1>3, <2>1, FS_Surjection
<1>5. Reports!RequestEvidence(c) = {ev(i) : i \in R}
  BY OneEvidencePerRequest DEF ev, R
<1>6. IsFiniteSet(Reports!BehaviorEvidence(c))
  BY FS_Singleton, FS_EmptySet DEF Reports!BehaviorEvidence
<1> QED
  BY <1>4, <1>5, <1>6, FS_Union DEF Reports!Detect

(* What the detector rejects.                                               *)
LEMMA RejectedOrAnalysable ==
  ASSUME NEW c \in Reports!Capture
  PROVE  Reports!Analysable(c) <=> ~Reports!DetectFails(c)
<1>1. \A i \in Reports!Indices(c) :
        (Reports!Offset(c, i) < 0) <=> ~(c.packets[i].time >= c.packets[1].time)
  <2> SUFFICES ASSUME NEW i \in Reports!Indices(c)
               PROVE  (Reports!Offset(c, i) < 0)
                        <=> ~(c.packets[i].time >= c.packets[1].time)
    OBVIOUS
  <2>1. 1 \in Reports!Indices(c)
    BY PacketsTyped
  <2>2. c.packets[i].time \in Nat /\ c.packets[1].time \in Nat
    BY <2>1, PacketsTyped
  <2> QED
    BY <2>2 DEF Reports!Offset
<1> QED
  BY <1>1 DEF Reports!Analysable, Reports!DetectFails

(* A report is what the container made of the capture, a refusal has one of *)
(* two causes, and a capture is rejected for what its packets are.          *)
ReportsInv ==
  /\ capture \in Reports!Capture
  /\ stage # "invalid"
  /\ stage = "rejected" => mode = "HttpDetection" /\ Reports!DetectFails(capture)
  /\ stage \notin {"capture", "failed", "rejected"} =>
       \/ /\ mode = "Preflight"
          /\ report = Reports!BuildReport(capture)
       \/ /\ mode = "HttpDetection"
          /\ report = Reports!Detect(capture)
          /\ ~Reports!DetectFails(capture)
          /\ stage \in {"printed", "saved", "refused"}
  /\ stage = "refused" =>
       \/ mode = "Preflight" /\ capture.magic # capture.name
       \/ mode = "HttpDetection" /\ Cardinality(report.evidence) > MaxEvidence

LEMMA ReportsKept ==
  ASSUME ReportsInv, [Reports!Next]_(Reports!vars) PROVE ReportsInv'
<1>1. CASE UNCHANGED Reports!vars
  BY <1>1 DEF ReportsInv, Reports!vars
<1>2. CASE Reports!RunContainer
  <2>1. CASE Reports!ContainerFails
    BY <2>1 DEF ReportsInv, Reports!ContainerFails
  <2>2. CASE Reports!RunPreflight
    <3>1. Reports!ContainerAccepts(report') /\ report' = Reports!BuildReport(capture)
      BY <2>2, ReportAccepted DEF ReportsInv, Reports!RunPreflight
    <3> QED
      BY <2>2, <3>1 DEF ReportsInv, Reports!RunPreflight
  <2>3. CASE Reports!RunDetection
    BY <2>3 DEF ReportsInv, Reports!RunDetection
  <2> QED
    BY <1>2, <2>1, <2>2, <2>3 DEF Reports!RunContainer
<1>3. CASE Reports!ValidateOnHost
  <2>1. stage = "printed" /\ UNCHANGED <<capture, mode, report>>
    BY <1>3 DEF Reports!ValidateOnHost
  <2>2. CASE mode = "Preflight" /\ report = Reports!BuildReport(capture)
    <3>1. Reports!HostAccepts(report)
      BY <2>2, ReportAccepted DEF ReportsInv
    <3>2. stage' = "saved"
      BY <1>3, <2>2, <3>1 DEF Reports!ValidateOnHost
    <3> QED
      BY <2>1, <2>2, <3>2 DEF ReportsInv
  <2>3. CASE /\ mode = "HttpDetection" /\ report = Reports!Detect(capture)
             /\ ~Reports!DetectFails(capture)
    <3>1. stage' = IF Reports!HostAcceptsDetection(report)
                     THEN "saved" ELSE "refused"
      BY <1>3, <2>3 DEF Reports!ValidateOnHost
    <3>2. \A e \in report.evidence :
            /\ 1 <= e.first /\ e.first <= e.last /\ e.last <= report.packets
            /\ 0 <= e.start /\ e.start <= e.end
      <4>1. report.packets = Len(capture.packets)
        BY <2>3 DEF Reports!Detect
      <4> QED
        BY <2>3, <4>1, DetectionAccepted DEF ReportsInv
    <3>3. CASE Reports!HostAcceptsDetection(report)
      BY <2>1, <2>3, <3>1, <3>3 DEF ReportsInv
    <3>4. CASE ~Reports!HostAcceptsDetection(report)
      <4>1. ~(Cardinality(report.evidence) <= MaxEvidence)
        BY <3>2, <3>4, ReportsCardinality DEF Reports!HostAcceptsDetection
      <4>2. Cardinality(report.evidence) \in Nat
        BY <2>3, EvidenceIsFinite, FS_CardinalityType DEF ReportsInv
      <4>3. Cardinality(report.evidence) > MaxEvidence
        BY <4>1, <4>2, ReportsAssumed
      <4> QED
        BY <2>1, <2>3, <3>1, <3>4, <4>3 DEF ReportsInv
    <3> QED
      BY <3>3, <3>4
  <2> QED
    BY <2>1, <2>2, <2>3 DEF ReportsInv
<1>4. CASE Reports!ConvertInBatch
  <2>1. /\ stage = "saved" /\ mode = "Preflight"
        /\ UNCHANGED <<capture, mode, report>>
    BY <1>4 DEF Reports!ConvertInBatch
  <2>2. /\ capture \in Reports!Capture
        /\ report = Reports!BuildReport(capture)
    BY <2>1 DEF ReportsInv
  <2>3. /\ Reports!BatchAccepts(report)
        /\ Reports!ReconAccepts(report, capture.name)
             <=> capture.magic = capture.name
    BY <2>2, ReportAccepted
  <2>4. \/ stage' \in {"triaged", "sampled"}
        \/ stage' = "refused" /\ capture.magic # capture.name
    BY <1>4, <2>3 DEF Reports!ConvertInBatch
  <2> QED
    BY <2>1, <2>2, <2>4 DEF ReportsInv
<1> QED
  BY <1>1, <1>2, <1>3, <1>4 DEF Reports!Next

LEMMA ReportsInductive == Reports!Spec => []ReportsInv
<1>1. Reports!Init => ReportsInv
  BY DEF Reports!Init, ReportsInv
<1> QED
  BY <1>1, ReportsKept, PTL DEF Reports!Spec

(* Nothing the container reports of a capture is refused, by its own        *)
(* validator (validate_report) or on the host, but for another format's     *)
(* name or too much evidence; what is accepted says what the packets show;  *)
(* every matching request has one piece of evidence; and the detector       *)
(* rejects exactly the captures with a packet that has no destination or    *)
(* lies before the first.  For captures of any length and any rules.        *)
THEOREM ValidatorsAreOneMind == Reports!Spec => []ValidatorsAgree
<1>1. ASSUME ReportsInv PROVE ValidatorsAgree
  <2>1. stage = "refused" =>
          \/ mode = "Preflight" /\ capture.magic # capture.name
          \/ /\ mode = "HttpDetection"
             /\ Reports!Cardinality(report.evidence) > MaxEvidence
    BY <1>1, ReportsCardinality DEF ReportsInv
  <2>2. ASSUME stage \in {"saved", "triaged", "sampled"}, mode = "Preflight"
        PROVE  (report.capability = "token_eligible")
                 <=> \E i \in Reports!Indices(capture) :
                       "plaintext" \in capture.packets[i].protocols
    BY <1>1, <2>2, ReportAccepted DEF ReportsInv
  <2>3. ASSUME stage = "saved", mode = "HttpDetection",
               NEW i \in Reports!Indices(capture)
        PROVE  Reports!Cardinality({e \in report.evidence :
                              e.detector = "http_rule" /\ e.first = i})
                 = IF capture.packets[i].rules = {} THEN 0 ELSE 1
    <3>1. report = Reports!Detect(capture) /\ capture \in Reports!Capture
      BY <1>1, <2>3 DEF ReportsInv
    <3> QED
      BY <3>1, EvidenceCounted, ReportsCardinality
  <2>4. /\ stage = "saved" /\ mode = "HttpDetection" => ~Reports!DetectFails(capture)
        /\ stage = "rejected" => mode = "HttpDetection" /\ Reports!DetectFails(capture)
        /\ stage # "invalid" /\ capture \in Reports!Capture
    BY <1>1 DEF ReportsInv
  <2>5. ASSUME capture \in Reports!Capture
        PROVE  Reports!Analysable(capture) <=> ~Reports!DetectFails(capture)
    BY <2>5, RejectedOrAnalysable
  <2> QED
    BY <2>1, <2>2, <2>3, <2>4, <2>5 DEF ValidatorsAgree, Reports!ValidatorsAgree
<1> QED
  BY <1>1, ReportsInductive, PTL
=============================================================================
