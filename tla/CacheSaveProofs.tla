--------------------------- MODULE CacheSaveProofs ---------------------------
(***************************************************************************)
(* The steps of _load_cache and _save_cache implement an atomic file, for  *)
(* any number of contexts, any contents and any room on the disk.          *)
(***************************************************************************)
EXTENDS CacheSave, FiniteSetTheorems, FunctionTheorems, TLAPS

(* Two saves have two temporary files, and the one about to be renamed was   *)
(* written to its end; what is written is a cache.                           *)
Apart == \A c, d \in Contexts : tmp[c] = tmp[d] => c = d \/ tmp[c] = None

Complete ==
    \A c \in Contexts :
        /\ pc[c] = "replace" => tmp[c] \in whole
        /\ pc[c] \in {"write", "replace"} => store[tmp[c]] \in Versions

SaveInv == TypeOK /\ Apart /\ Complete

LEMMA InitSaveInv == Init => SaveInv
  BY CacheSaveAssumption
     DEF Init, SaveInv, TypeOK, Apart, Complete, Phases, Saving

(* mkstemp makes a file that has no name yet; nothing else brings one in.    *)
LEMMA StepSaveInv ==
  ASSUME SaveInv, NEW c \in Contexts, Step(c)
  PROVE  SaveInv'
<1> USE CacheSaveAssumption
       DEF SaveInv, TypeOK, Apart, Complete, Phases, Saving, Goto
<1>1. CASE NotFound(c)
  BY <1>1 DEF NotFound
<1>2. CASE Open(c)
  BY <1>2 DEF Open
<1>3. CASE Read(c)
  BY <1>3 DEF Read, Parsed
<1>4. ASSUME NEW v \in Versions, MakeTemp(c, v)
      PROVE  SaveInv'
  <2>1. PICK i \in Free :
           /\ store' = [store EXCEPT ![i] = v]
           /\ whole' = whole \ {i}
           /\ temps' = temps \cup {i}
           /\ tmp' = [tmp EXCEPT ![c] = i]
    BY <1>4 DEF MakeTemp, Target
  <2>2. /\ i \in Inodes /\ i \notin temps /\ i # path
        /\ i # disk.path /\ i \notin disk.temps
        /\ \A d \in Contexts : fd[d] # i
    BY DEF Free, Named
  <2>3. TypeOK'
    BY <1>4, <2>1, <2>2 DEF MakeTemp
  <2>4. Apart' /\ Complete'
    BY <1>4, <2>1, <2>2 DEF MakeTemp
  <2> QED BY <2>3, <2>4
<1>5. CASE NoRoom(c)
  BY <1>5 DEF NoRoom, vars
<1>6. CASE Write(c)
  BY <1>6 DEF Write
<1>7. CASE Replace(c)
  BY <1>7 DEF Replace
<1>8. CASE Fail(c)
  BY <1>8 DEF Fail
<1>9. CASE Remove(c)
  BY <1>9 DEF Remove, Removed
<1>10. CASE RemoveFails(c)
  BY <1>10 DEF RemoveFails
<1>11. CASE Kill(c)
  BY <1>11 DEF Kill
<1> QED
  BY <1>1, <1>2, <1>3, <1>4, <1>5, <1>6, <1>7, <1>8, <1>9, <1>10, <1>11
     DEF Step

LEMMA NextSaveInv == SaveInv /\ [Next]_vars => SaveInv'
<1> SUFFICES ASSUME SaveInv, [Next]_vars
             PROVE  SaveInv'
  OBVIOUS
<1> USE CacheSaveAssumption DEF SaveInv, TypeOK, Apart, Complete, Phases, Saving
<1>1. ASSUME NEW c \in Contexts, Step(c)
      PROVE  SaveInv'
  BY <1>1, StepSaveInv
<1>2. CASE PowerLoss
  BY <1>2 DEF PowerLoss
<1>3. CASE Delete
  BY <1>3 DEF Delete
<1>4. CASE Sync
  BY <1>4 DEF Sync
<1>5. CASE UNCHANGED vars
  BY <1>5 DEF vars
<1> QED BY <1>1, <1>2, <1>3, <1>4, <1>5 DEF Next

(* Contexts have the files their phase needs, temporary files are never open *)
(* for reading nor under the path of the cache, and are apart (241-265).     *)
THEOREM SaveTypeCorrect == Spec => []TypeOK
<1>1. SaveInv => TypeOK
  BY DEF SaveInv
<1> QED BY InitSaveInv, NextSaveInv, <1>1, PTL DEF Spec

-----------------------------------------------------------------------------
(* The refinement of AtomicFile *)

Offers == [c \in Contexts |-> OfferOf(c)]

Views == [c \in Contexts |-> ViewOf(c)]

LEMMA InitAtomic == Init => Atomic!Init
  BY DEF Init, Atomic!Init, FileValue, KeptValue, OfferOf, ViewOf

(* Offers differ in one place if they are equal in all others.               *)
LEMMA OfferSet ==
  ASSUME NEW c \in Contexts, NEW o, Offers'[c] = o,
         \A d \in Contexts \ {c} : Offers'[d] = Offers[d]
  PROVE  Offers' = [Offers EXCEPT ![c] = o]
<1>1. DOMAIN Offers = Contexts /\ Offers = [d \in Contexts |-> Offers[d]]
  BY DEF Offers
<1>2. DOMAIN Offers' = Contexts /\ Offers' = [d \in Contexts |-> Offers'[d]]
  BY DEF Offers
<1> QED BY <1>1, <1>2

(* Who reads does not save, and who saves does not read.                     *)
LEMMA StepAtomic ==
  ASSUME SaveInv, SaveInv', NEW c \in Contexts, Step(c)
  PROVE  [Atomic!Next]_<<FileValue, KeptValue, Offers, Views>>
<1> USE CacheSaveAssumption
       DEF SaveInv, TypeOK, Apart, Complete, Phases, Saving, Goto,
           FileValue, KeptValue, Offers, Views, OfferOf, ViewOf, Parsed
<1>1. CASE NotFound(c)
  <2>1. UNCHANGED <<FileValue, KeptValue, Offers, Views>>
    BY <1>1 DEF NotFound
  <2> QED BY <2>1
<1>2. CASE Open(c)
  <2>1. Views[c] = None /\ Views' = [Views EXCEPT ![c] = FileValue]
    BY <1>2 DEF Open
  <2>2. UNCHANGED <<FileValue, KeptValue, Offers>>
    BY <1>2 DEF Open
  <2>3. Atomic!Load(c)
    BY <2>1, <2>2 DEF Atomic!Load
  <2> QED BY <2>3 DEF Atomic!Next
<1>3. CASE Read(c)
  <2>1. Views' \in {Views, [Views EXCEPT ![c] = None]}
    <3>1. CASE loaded' = [loaded EXCEPT ![c] = Parsed(fd[c])]
      <4>1. UNCHANGED Views
        BY <1>3, <3>1 DEF Read
      <4> QED BY <4>1
    <3>2. CASE loaded' = [loaded EXCEPT ![c] = None]
      <4>1. Views' = [Views EXCEPT ![c] = None]
        BY <1>3, <3>2 DEF Read
      <4> QED BY <4>1
    <3> QED BY <1>3, <3>1, <3>2 DEF Read
  <2>2. /\ UNCHANGED <<FileValue, KeptValue>>
        /\ Offers' = [Offers EXCEPT ![c] = None]
    BY <1>3 DEF Read
  <2>3. Atomic!Drop(c)
    BY <2>1, <2>2 DEF Atomic!Drop
  <2> QED BY <2>3 DEF Atomic!Next
<1>4. ASSUME NEW v \in Versions, MakeTemp(c, v)
      PROVE  Atomic!Next
  <2>1. PICK i \in Free :
           /\ store' = [store EXCEPT ![i] = v]
           /\ whole' = whole \ {i}
           /\ temps' = temps \cup {i}
           /\ tmp' = [tmp EXCEPT ![c] = i]
    BY <1>4 DEF MakeTemp, Target
  <2>2. /\ i \in Inodes /\ i \notin temps /\ i # path
        /\ i # disk.path /\ i \notin disk.temps
        /\ \A d \in Contexts : fd[d] # i
    BY DEF Free, Named
  <2>3. /\ pc[c] = "idle" /\ pc' = [pc EXCEPT ![c] = "write"]
        /\ UNCHANGED <<path, disk, fd, loaded, mishaps>>
    BY <1>4 DEF MakeTemp
  <2>4. UNCHANGED <<FileValue, KeptValue>>
    BY <2>1, <2>2, <2>3
  <2>5. UNCHANGED Views
    BY <2>1, <2>2, <2>3
  <2>6. Offers[c] = None /\ Offers' = [Offers EXCEPT ![c] = v]
    <3>1. Offers[c] = None
      BY <2>3
    <3>2. Offers'[c] = v
      BY <2>1, <2>2, <2>3
    <3>3. \A d \in Contexts \ {c} : Offers'[d] = Offers[d]
      BY <2>1, <2>2, <2>3
    <3> QED BY <3>1, <3>2, <3>3, OfferSet
  <2>7. Atomic!Offer(c, v)
    BY <2>4, <2>5, <2>6 DEF Atomic!Offer
  <2> QED BY <2>7 DEF Atomic!Next
<1>5. CASE NoRoom(c)
  BY <1>5 DEF NoRoom, vars
<1>6. CASE Write(c)
  <2>1. UNCHANGED <<FileValue, KeptValue>>
    BY <1>6 DEF Write
  <2>2. UNCHANGED Views
    BY <1>6 DEF Write
  <2>3. UNCHANGED Offers
    BY <1>6 DEF Write
  <2> QED BY <2>1, <2>2, <2>3
<1>7. CASE Replace(c)
  <2>1. FileValue' = Offers[c] /\ UNCHANGED KeptValue
    BY <1>7 DEF Replace
  <2>2. Offers[c] # None /\ Offers' = [Offers EXCEPT ![c] = None]
    <3>1. Offers[c] # None /\ Offers'[c] = None
      BY <1>7 DEF Replace
    <3>2. \A d \in Contexts \ {c} : Offers'[d] = Offers[d]
      BY <1>7 DEF Replace
    <3> QED BY <3>1, <3>2, OfferSet
  <2>3. UNCHANGED Views
    BY <1>7 DEF Replace
  <2>4. Atomic!Commit(c)
    BY <2>1, <2>2, <2>3 DEF Atomic!Commit
  <2> QED BY <2>4 DEF Atomic!Next
<1>8. ASSUME Fail(c) \/ Remove(c) \/ RemoveFails(c) \/ Kill(c)
      PROVE  Atomic!Next
  <2>1. UNCHANGED <<FileValue, KeptValue>>
    BY <1>8 DEF Fail, Remove, RemoveFails, Kill
  <2>2. Offers' = [Offers EXCEPT ![c] = None]
    <3>1. Offers'[c] = None
      BY <1>8 DEF Fail, Remove, RemoveFails, Kill
    <3>2. \A d \in Contexts \ {c} : Offers'[d] = Offers[d]
      BY <1>8 DEF Fail, Remove, RemoveFails, Kill
    <3> QED BY <3>1, <3>2, OfferSet
  <2>3. Views' \in {Views, [Views EXCEPT ![c] = None]}
    <3>1. ASSUME Fail(c) \/ Remove(c) \/ RemoveFails(c)
          PROVE  UNCHANGED Views
      BY <3>1 DEF Fail, Remove, RemoveFails
    <3>2. ASSUME Kill(c)
          PROVE  Views' = [Views EXCEPT ![c] = None]
      BY <3>2 DEF Kill
    <3> QED BY <1>8, <3>1, <3>2
  <2>4. Atomic!Drop(c)
    BY <2>1, <2>2, <2>3 DEF Atomic!Drop
  <2> QED BY <2>4 DEF Atomic!Next
<1> QED
  BY <1>1, <1>2, <1>3, <1>4, <1>5, <1>6, <1>7, <1>8 DEF Step

LEMMA NextAtomic ==
  SaveInv /\ SaveInv' /\ [Next]_vars => [Atomic!Next]_<<FileValue, KeptValue, Offers, Views>>
<1> SUFFICES ASSUME SaveInv, SaveInv', [Next]_vars
             PROVE  [Atomic!Next]_<<FileValue, KeptValue, Offers, Views>>
  OBVIOUS
<1> USE CacheSaveAssumption
       DEF SaveInv, TypeOK, Phases, Saving,
           FileValue, KeptValue, Offers, Views, OfferOf, ViewOf, Parsed
<1>1. ASSUME NEW c \in Contexts, Step(c)
      PROVE  [Atomic!Next]_<<FileValue, KeptValue, Offers, Views>>
  BY <1>1, StepAtomic
<1>2. CASE PowerLoss
  <2>1. FileValue' \in {KeptValue, None} /\ KeptValue' = FileValue'
    BY <1>2 DEF PowerLoss
  <2>2. Offers' = [c \in Contexts |-> None] /\ Views' = [c \in Contexts |-> None]
    BY <1>2 DEF PowerLoss
  <2>3. Atomic!Outage
    BY <2>1, <2>2 DEF Atomic!Outage
  <2> QED BY <2>3 DEF Atomic!Next
<1>3. CASE Delete
  <2>1. FileValue' = None /\ UNCHANGED <<KeptValue, Offers, Views>>
    BY <1>3 DEF Delete
  <2>2. Atomic!Lose
    BY <2>1 DEF Atomic!Lose
  <2> QED BY <2>2 DEF Atomic!Next
<1>4. CASE Sync
  <2>1. KeptValue' = FileValue /\ UNCHANGED <<FileValue, Offers, Views>>
    BY <1>4 DEF Sync
  <2>2. Atomic!Keep
    BY <2>1 DEF Atomic!Keep
  <2> QED BY <2>2 DEF Atomic!Next
<1>5. CASE UNCHANGED vars
  BY <1>5 DEF vars
<1> QED BY <1>1, <1>2, <1>3, <1>4, <1>5 DEF Next

(* A save is one step or none and a load sees one whole cache, however       *)
(* contexts interleave, fail, or are killed (215-268).                       *)
THEOREM SaveIsAtomic == Spec => ImplementsAtomicFile
<1>1. [Atomic!Next]_<<FileValue, KeptValue, Offers, Views>> => [Atomic!Next]_Atomic!vars
  BY DEF Atomic!vars, Offers, Views
<1> QED
  BY InitSaveInv, NextSaveInv, InitAtomic, NextAtomic, <1>1, PTL
     DEF Spec, ImplementsAtomicFile, Atomic!Spec

-----------------------------------------------------------------------------
(* Temporary files that are left behind *)

Left == temps \ {tmp[c] : c \in Contexts}

LEMMA FilesAreFinite ==
  ASSUME NEW S, S \subseteq Inodes
  PROVE  IsFiniteSet(S) /\ Cardinality(S) \in Nat
  BY CacheSaveAssumption, FS_Subset, FS_CardinalityType

(* A context owns one temporary file at most.                                *)
LEMMA OwnedAreFew ==
  ASSUME TypeOK
  PROVE  LET owned == {tmp[c] : c \in Contexts}
         IN  IsFiniteSet(owned) /\ Cardinality(owned) <= Cardinality(Contexts)
<1> DEFINE owned == {tmp[c] : c \in Contexts}
<1>1. tmp \in Surjection(Contexts, owned)
  BY DEF Surjection, TypeOK
<1> QED BY <1>1, CacheSaveAssumption, FS_Surjection

(* Not a step but a mishap leaves a file behind, and an outage what is on    *)
(* the disk.                                                                 *)
LEMMA StepLeft ==
  ASSUME SaveInv, [Next]_vars
  PROVE  \/ Left' \subseteq Left /\ mishaps' = mishaps
         \/ Left' \subseteq Left \cup {tmp[c] : c \in Contexts} /\ mishaps' = mishaps + 1
         \/ Left' \subseteq disk.temps /\ mishaps' = mishaps + 1
<1> USE DEF SaveInv, TypeOK, Apart, Saving, Left, Goto
<1>1. ASSUME NEW c \in Contexts, Step(c)
      PROVE  \/ Left' \subseteq Left /\ mishaps' = mishaps
             \/ /\ Left' \subseteq Left \cup {tmp[d] : d \in Contexts}
                /\ mishaps' = mishaps + 1
  <2>1. CASE NotFound(c) \/ Open(c) \/ Read(c) \/ NoRoom(c) \/ Write(c) \/ Fail(c)
    BY <2>1 DEF NotFound, Open, Read, NoRoom, Write, Fail, vars
  <2>2. ASSUME NEW v \in Versions, MakeTemp(c, v)
        PROVE  Left' \subseteq Left /\ mishaps' = mishaps
    <3>1. PICK i \in Free : temps' = temps \cup {i} /\ tmp' = [tmp EXCEPT ![c] = i]
      BY <2>2 DEF MakeTemp, Target
    <3>2. pc[c] = "idle" /\ tmp[c] \notin temps /\ mishaps' = mishaps
      BY <2>2, CacheSaveAssumption DEF MakeTemp
    <3> QED BY <3>1, <3>2
  <2>3. CASE Replace(c)
    BY <2>3 DEF Replace
  <2>4. CASE Remove(c)
    BY <2>4 DEF Remove, Removed
  <2>5. CASE RemoveFails(c) \/ Kill(c)
    BY <2>5 DEF RemoveFails, Kill
  <2> QED BY <1>1, <2>1, <2>2, <2>3, <2>4, <2>5 DEF Step
<1>2. CASE PowerLoss
  BY <1>2 DEF PowerLoss
<1>3. CASE Delete \/ Sync \/ UNCHANGED vars
  BY <1>3 DEF Delete, Sync, vars
<1> QED BY <1>1, <1>2, <1>3 DEF Next

LEMMA OneMore ==
  ASSUME NEW m \in Nat, NEW k \in Nat
  PROVE  m * k \in Nat /\ (m + 1) * k = m * k + k
  OBVIOUS

(* What is on the disk is what there was at some moment: no more than was    *)
(* left behind until then, and one file per context.                         *)
KeptFew ==
    Cardinality(disk.temps) <= (mishaps + 1) * Cardinality(Contexts)

LeftInv == SaveInv /\ LeftoversBounded /\ KeptFew

(* A set of two bounded parts is bounded by their sum.                       *)
LEMMA BoundOfUnion ==
  ASSUME NEW S \in SUBSET Inodes, NEW L \in SUBSET Inodes, NEW owned,
         IsFiniteSet(owned), S \subseteq L \cup owned,
         NEW m \in Nat, NEW few \in Nat,
         Cardinality(L) <= m * few, Cardinality(owned) <= few
  PROVE  Cardinality(S) <= (m + 1) * few
<1>1. /\ IsFiniteSet(L) /\ Cardinality(L) \in Nat
      /\ Cardinality(owned) \in Nat /\ Cardinality(S) \in Nat
  BY FilesAreFinite, FS_CardinalityType
<1>2. IsFiniteSet(L \cup owned) /\ Cardinality(L \cup owned) \in Nat
  BY <1>1, FS_Union, FS_CardinalityType
<1>3. Cardinality(L \cup owned) <= Cardinality(L) + Cardinality(owned)
  <2>1. Cardinality(L \cap owned) \in Nat
    BY <1>1, FS_Subset, FS_CardinalityType
  <2>2. Cardinality(L \cup owned) =
           Cardinality(L) + Cardinality(owned) - Cardinality(L \cap owned)
    BY <1>1, FS_Union
  <2> QED BY <1>1, <2>1, <2>2
<1>4. Cardinality(S) <= Cardinality(L \cup owned)
  BY <1>2, FS_Subset
<1>5. m * few \in Nat /\ (m + 1) * few = m * few + few
  BY OneMore
<1> QED BY <1>1, <1>2, <1>3, <1>4, <1>5

LEMMA NextLeftovers ==
  LeftInv /\ [Next]_vars => LeftoversBounded' /\ KeptFew'
<1> SUFFICES ASSUME LeftInv, [Next]_vars
             PROVE  LeftoversBounded' /\ KeptFew'
  BY DEF LeftInv
<1> DEFINE owned == {tmp[c] : c \in Contexts}
           few == Cardinality(Contexts)
<1>1. few \in Nat /\ mishaps \in Nat
  BY CacheSaveAssumption, FS_CardinalityType DEF LeftInv, SaveInv, TypeOK
<1>2. /\ Cardinality(Left) <= mishaps * few
      /\ Cardinality(disk.temps) <= (mishaps + 1) * few
  BY DEF LeftInv, LeftoversBounded, KeptFew, Left
<1>3. Left \in SUBSET Inodes /\ temps \in SUBSET Inodes /\ disk.temps \in SUBSET Inodes
  BY DEF Left, LeftInv, SaveInv, TypeOK
<1>4. IsFiniteSet(owned) /\ Cardinality(owned) <= few
  BY OwnedAreFew DEF LeftInv, SaveInv
<1>5. temps \subseteq Left \cup owned
  BY DEF Left
<1>6. Cardinality(temps) <= (mishaps + 1) * few
  <2> HIDE DEF owned, few
  <2> QED BY <1>1, <1>2, <1>3, <1>4, <1>5, BoundOfUnion
<1>7. LeftoversBounded'
  <2>1. CASE Left' \subseteq Left /\ mishaps' = mishaps
    <3>1. /\ Cardinality(Left') <= Cardinality(Left)
          /\ Cardinality(Left) \in Nat /\ Cardinality(Left') \in Nat
      BY <1>3, <2>1, FilesAreFinite, FS_Subset
    <3>2. mishaps * few \in Nat
      BY <1>1
    <3>3. Cardinality(Left') <= mishaps' * few
      BY <1>2, <2>1, <3>1, <3>2
    <3> QED BY <3>3 DEF LeftoversBounded, Left
  <2>2. CASE Left' \subseteq Left \cup owned /\ mishaps' = mishaps + 1
    <3>1. Left' \in SUBSET Inodes
      BY <1>3, NextSaveInv DEF LeftInv, SaveInv, TypeOK, Left
    <3>2. Cardinality(Left') <= (mishaps + 1) * few
      <4> HIDE DEF owned, few
      <4> QED BY <1>1, <1>2, <1>3, <1>4, <2>2, <3>1, BoundOfUnion
    <3> QED BY <2>2, <3>2 DEF LeftoversBounded, Left
  <2>3. CASE Left' \subseteq disk.temps /\ mishaps' = mishaps + 1
    <3>1. /\ Cardinality(Left') <= Cardinality(disk.temps)
          /\ Cardinality(disk.temps) \in Nat /\ Cardinality(Left') \in Nat
      BY <1>3, <2>3, FilesAreFinite, FS_Subset
    <3>2. (mishaps + 1) * few \in Nat
      BY <1>1
    <3>3. Cardinality(Left') <= mishaps' * few
      BY <1>2, <2>3, <3>1, <3>2
    <3> QED BY <3>3 DEF LeftoversBounded, Left
  <2> QED BY <2>1, <2>2, <2>3, StepLeft DEF LeftInv
<1>8. KeptFew'
  <2>1. \/ disk'.temps = disk.temps /\ mishaps' \in {mishaps, mishaps + 1}
        \/ disk'.temps = temps /\ mishaps' = mishaps
    BY DEF Next, Step, NotFound, Open, Read, MakeTemp, NoRoom, Write, Replace,
       Fail, Remove, RemoveFails, Kill, PowerLoss, Delete, Sync, vars
  <2>2. CASE disk'.temps = disk.temps /\ mishaps' = mishaps
    BY <1>2, <2>2 DEF KeptFew
  <2>3. CASE disk'.temps = disk.temps /\ mishaps' = mishaps + 1
    <3>1. /\ (mishaps + 1) * few \in Nat
          /\ (mishaps + 1 + 1) * few = (mishaps + 1) * few + few
      BY <1>1, OneMore
    <3>2. Cardinality(disk.temps) \in Nat
      BY <1>3, FilesAreFinite
    <3>3. Cardinality(disk'.temps) <= (mishaps + 1 + 1) * few
      BY <1>1, <1>2, <2>3, <3>1, <3>2
    <3> QED BY <2>3, <3>3 DEF KeptFew
  <2>4. CASE disk'.temps = temps /\ mishaps' = mishaps
    BY <1>6, <2>4 DEF KeptFew
  <2> QED BY <2>1, <2>2, <2>3, <2>4
<1> QED BY <1>7, <1>8

(* A save that fails removes its temporary file: only a mishap leaves one    *)
(* behind, and no more than one per context (259-264).                       *)
THEOREM LeftoversAreBounded == Spec => []LeftoversBounded
<1>1. Init => LeftoversBounded /\ KeptFew
  <2> SUFFICES ASSUME Init
               PROVE  LeftoversBounded /\ KeptFew
    OBVIOUS
  <2>1. /\ Cardinality(temps \ {tmp[c] : c \in Contexts}) = 0
        /\ Cardinality(disk.temps) = 0
    BY FS_EmptySet DEF Init
  <2>2. Cardinality(Contexts) \in Nat
    BY CacheSaveAssumption, FS_CardinalityType
  <2> QED BY <2>1, <2>2 DEF Init, LeftoversBounded, KeptFew
<1>2. Init => LeftInv
  BY <1>1, InitSaveInv DEF LeftInv
<1>3. LeftInv /\ [Next]_vars => LeftInv'
  BY NextSaveInv, NextLeftovers DEF LeftInv
<1>4. LeftInv => LeftoversBounded
  BY DEF LeftInv
<1> QED BY <1>2, <1>3, <1>4, PTL DEF Spec
=============================================================================
