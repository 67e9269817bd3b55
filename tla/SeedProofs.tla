----------------------------- MODULE SeedProofs -----------------------------
(***************************************************************************)
(* What the seed leaves in the database: SeedLifecycle for any fixtures,   *)
(* any number of kills and any number of requests, and SeedDerivation for  *)
(* any tickets, any business day and any times.                            *)
(***************************************************************************)
EXTENDS SeedLifecycle, SeedDerivation, FiniteSetTheorems, TLAPS

-----------------------------------------------------------------------------
(***************************************************************************)
(* Types, and what a count says of a table.                                *)
(***************************************************************************)

\* A table is filled as a whole or not at all, and holds finitely many rows.
WholeTables ==
    \A tb \in Tables :
        /\ IsFiniteSet(DOMAIN db[tb])
        /\ DOMAIN db[tb] = {} \/ Fixture[tb] \subseteq DOMAIN db[tb]

LEMMA EmptyType ==
    /\ DOMAIN Empty = {}
    /\ Empty \in [{} -> Nat]
    /\ \A g : DOMAIN g = {} /\ g \in [{} -> Nat] => g = Empty
BY DEF Empty

LEMMA LoadedType ==
    ASSUME NEW tb \in Tables
    PROVE  DOMAIN Loaded(tb) = Fixture[tb] /\ Loaded(tb) \in [Fixture[tb] -> Nat]
BY DEF Loaded

LEMMA StageTables ==
    /\ Len(Stages) = 4 /\ DOMAIN Stages = 1..4
    /\ \A tb \in Tables : \E i \in 1..4 : tb \in Stages[i]
    /\ \A i \in 1..4 : Stages[i] \subseteq Tables
    /\ \A i, j \in 1..4 : i # j => Stages[i] \cap Stages[j] = {}
BY DEF Stages, Tables

LEMMA TypeInit == Init => TypeOK /\ WholeTables
<1> SUFFICES ASSUME Init PROVE TypeOK /\ WholeTables
  OBVIOUS
<1>1. DOMAIN db = Tables /\ \A tb \in Tables : db[tb] = Empty
  BY DEF Init
<1>4. \A tb \in Tables : DOMAIN db[tb] = {} /\ db[tb] \in [DOMAIN db[tb] -> Nat]
  BY <1>1, EmptyType
<1>2. TypeOK
  <2>1. phase = "down" /\ stage = 1 /\ writes = 0 /\ acked = {} /\ kills = 0
    BY DEF Init
  <2>3. reseeding \in BOOLEAN
    BY DEF Init
  <2>2. \A tb \in Tables : DOMAIN db[tb] \subseteq Keys
    BY <1>4
  <2> QED  BY <1>1, <1>4, <2>1, <2>2, <2>3, StageTables DEF TypeOK, Seeding
<1>3. WholeTables
  BY <1>4, FS_EmptySet DEF WholeTables
<1> QED  BY <1>2, <1>3

\* What a request that writes does to the tables.
LEMMA StoreEffect ==
    ASSUME TypeOK, WholeTables, NEW tb \in Tables, NEW k \in Keys, NEW v \in Nat,
           Store(tb, k, v)
    PROVE  /\ DOMAIN db' = Tables
           /\ DOMAIN db'[tb] = DOMAIN db[tb] \cup {k}
           /\ db'[tb] \in [DOMAIN db'[tb] -> Nat]
           /\ db'[tb][k] = v
           /\ \A j \in DOMAIN db[tb] : j # k => db'[tb][j] = db[tb][j]
           /\ \A u \in Tables : u # tb => db'[u] = db[u]
<1>1. db' = [db EXCEPT ![tb] = [j \in DOMAIN db[tb] \cup {k} |->
                                  IF j = k THEN v ELSE db[tb][j]]]
  BY DEF Store
<1>2. db'[tb] = [j \in DOMAIN db[tb] \cup {k} |-> IF j = k THEN v ELSE db[tb][j]]
      /\ DOMAIN db' = Tables
  BY <1>1 DEF TypeOK
<1>3. db[tb] \in [DOMAIN db[tb] -> Nat]
  BY DEF TypeOK
<1> QED  BY <1>1, <1>2, <1>3 DEF TypeOK

LEMMA StoreType ==
    ASSUME TypeOK, WholeTables, NEW tb \in Tables, NEW k \in Keys, NEW v \in Nat,
           Store(tb, k, v)
    PROVE  TypeOK' /\ (DOMAIN db[tb] # {} => WholeTables')
<1>1. /\ DOMAIN db' = Tables
      /\ DOMAIN db'[tb] = DOMAIN db[tb] \cup {k}
      /\ db'[tb] \in [DOMAIN db'[tb] -> Nat]
      /\ \A u \in Tables : u # tb => db'[u] = db[u]
  BY StoreEffect
<1>2. \A u \in Tables : DOMAIN db'[u] \subseteq Keys /\ db'[u] \in [DOMAIN db'[u] -> Nat]
  BY <1>1 DEF TypeOK
<1>3. acked' \subseteq [table : Tables, key : Keys, version : Nat] /\ writes' \in Nat
  BY DEF Store, TypeOK
<1>4. TypeOK'
  BY <1>1, <1>2, <1>3 DEF TypeOK, Store
<1>5. IsFiniteSet(DOMAIN db'[tb])
  BY <1>1, FS_AddElement DEF WholeTables
<1>6. DOMAIN db[tb] # {} => WholeTables'
  BY <1>1, <1>5 DEF WholeTables
<1> QED  BY <1>4, <1>6

LEMMA WriteIsStore ==
    /\ \A tb \in Tables : Post(tb) => /\ Store(tb, writes + 1, 0)
                                      /\ tb \in Creatable
    /\ \A tb \in Tables : \A k : Patch(tb, k) => /\ Store(tb, k, writes + 1)
                                             /\ k \in DOMAIN db[tb]
BY DEF Post, Patch

-----------------------------------------------------------------------------
(***************************************************************************)
(* The server runs over a complete seed only.                              *)
(***************************************************************************)
Seeded ==
    TypeOK /\ WholeTables /\ LoadsFromEmpty /\ ServesFullySeeded

\* Equal counts mean complete tables, since no table is ever filled in part.
LEMMA CountsSuffice ==
    ASSUME TypeOK, WholeTables
    PROVE  /\ IsUnseeded => \A tb \in Tables : db[tb] = Empty
           /\ IsFullySeeded => \A tb \in Tables : Fixture[tb] \subseteq DOMAIN db[tb]
<1>1. \A tb \in Tables : Count(tb) = 0 <=> DOMAIN db[tb] = {}
  BY FS_EmptySet DEF WholeTables, Count
<1>2. \A tb \in Tables : Cardinality(Fixture[tb]) # 0
  BY SeedAssumption, FS_EmptySet
<1>3. ASSUME IsUnseeded, NEW tb \in Tables PROVE db[tb] = Empty
  BY <1>1, <1>3, EmptyType DEF IsUnseeded, TypeOK
<1>4. ASSUME IsFullySeeded, NEW tb \in Tables PROVE Fixture[tb] \subseteq DOMAIN db[tb]
  <2>1. ExpectedCount(tb) # 0
    <3>1. "incidents" \in Tables /\ Cardinality(Fixture["incidents"]) \in Nat \ {0}
      BY <1>2, SeedAssumption, FS_CardinalityType DEF Tables
    <3> QED  BY <1>2, <3>1 DEF ExpectedCount
  <2>2. Count(tb) # 0
    BY <2>1, <1>4 DEF IsFullySeeded
  <2> QED  BY <1>1, <2>2 DEF WholeTables
<1> QED  BY <1>3, <1>4

LEMMA SeededStep == Seeded /\ [Next]_vars => Seeded'
<1> SUFFICES ASSUME TypeOK, WholeTables, LoadsFromEmpty, ServesFullySeeded, [Next]_vars
             PROVE  TypeOK' /\ WholeTables' /\ LoadsFromEmpty' /\ ServesFullySeeded'
  BY DEF Seeded
<1> USE DEF Seeding
<1>1. CASE UNCHANGED vars
  BY <1>1 DEF vars, TypeOK, WholeTables, LoadsFromEmpty, ServesFullySeeded
<1>2. CASE Boot \/ Kill
  <2>1. /\ UNCHANGED <<db, stage, writes, acked>> /\ phase' \in {"check", "down"}
        /\ reseeding' \in BOOLEAN /\ kills' \in Nat
    <3>1. CASE Boot
      BY <3>1 DEF Boot, TypeOK
    <3>2. CASE Kill
      BY <3>2 DEF Kill, TypeOK
    <3> QED  BY <1>2, <3>1, <3>2
  <2> QED  BY <2>1 DEF TypeOK, WholeTables, LoadsFromEmpty, ServesFullySeeded
<1>3. CASE Check
  <2>1. db' = db /\ stage' = 1 /\ UNCHANGED <<reseeding, writes, acked, kills>>
    BY <1>3 DEF Check
  <2>2. TypeOK'
    BY <1>3, <2>1, StageTables DEF Check, TypeOK
  <2>3. WholeTables'
    BY <2>1 DEF WholeTables
  <2>4. phase' = "load" => \A tb \in Tables : db[tb] = Empty
    BY <1>3, CountsSuffice DEF Check
  <2>5. LoadsFromEmpty'
    BY <2>1, <2>4, StageTables DEF LoadsFromEmpty
  <2>6. ServesFullySeeded'
    BY <1>3, <2>1, CountsSuffice DEF Check, ServesFullySeeded
  <2> QED  BY <2>2, <2>3, <2>5, <2>6
<1>4. CASE LoadStage
  <2>1. /\ phase = "load" /\ stage' = stage + 1
        /\ db' = [tb \in Tables |-> IF tb \in Stages[stage] THEN Loaded(tb) ELSE db[tb]]
        /\ phase' = IF stage = 4 THEN "serving" ELSE "load"
        /\ UNCHANGED <<reseeding, writes, acked, kills>>
    BY <1>4, StageTables DEF LoadStage
  <2>2. stage \in 1..5 /\ DOMAIN db = Tables
    BY StageTables DEF TypeOK
  <2>3. \A i \in 1..4 : \A tb \in Stages[i] : db[tb] = IF i < stage THEN Loaded(tb) ELSE Empty
    BY <2>1, StageTables DEF LoadsFromEmpty
  <2>4. CASE stage \in 1..4
    <3>1. \A tb \in Tables : db'[tb] = IF tb \in Stages[stage] THEN Loaded(tb) ELSE db[tb]
      BY <2>1
    <3>2. \A i \in 1..4 : \A tb \in Stages[i] :
            db'[tb] = IF i < stage + 1 THEN Loaded(tb) ELSE Empty
      <4> SUFFICES ASSUME NEW i \in 1..4, NEW tb \in Stages[i]
                   PROVE  db'[tb] = IF i < stage + 1 THEN Loaded(tb) ELSE Empty
        OBVIOUS
      <4>1. tb \in Tables /\ (tb \in Stages[stage] <=> i = stage)
        BY <2>4, StageTables
      <4>2. CASE i = stage
        BY <3>1, <4>1, <4>2
      <4>3. CASE i # stage
        BY <2>3, <2>4, <3>1, <4>1, <4>3
      <4> QED  BY <4>2, <4>3
    <3>3. LoadsFromEmpty'
      BY <2>1, <3>2, StageTables DEF LoadsFromEmpty
    <3>4. WholeTables'
      <4>1. ASSUME NEW tb \in Tables
            PROVE  IsFiniteSet(DOMAIN db'[tb])
                   /\ (DOMAIN db'[tb] = {} \/ Fixture[tb] \subseteq DOMAIN db'[tb])
        <5>1. IsFiniteSet(Fixture[tb])
          BY SeedAssumption
        <5>2. CASE tb \in Stages[stage]
          BY <3>1, <5>1, <5>2, LoadedType
        <5>3. CASE tb \notin Stages[stage]
          BY <3>1, <5>3 DEF WholeTables
        <5> QED  BY <5>2, <5>3
      <4> QED  BY <4>1 DEF WholeTables
    <3>5. TypeOK'
      <4>1. \A tb \in Tables : DOMAIN db'[tb] \subseteq Keys /\ db'[tb] \in [DOMAIN db'[tb] -> Nat]
        BY <3>1, LoadedType DEF TypeOK, Keys
      <4> QED  BY <2>1, <2>4, <4>1, StageTables DEF TypeOK
    <3>6. ServesFullySeeded'
      <4>1. SUFFICES ASSUME stage = 4, NEW tb \in Tables
                     PROVE  Fixture[tb] \subseteq DOMAIN db'[tb]
        BY <2>1 DEF ServesFullySeeded
      <4>2. PICK i \in 1..4 : tb \in Stages[i]
        BY StageTables
      <4>3. db'[tb] = Loaded(tb)
        BY <3>2, <4>1, <4>2
      <4> QED  BY <4>3, LoadedType
    <3> QED  BY <3>3, <3>4, <3>5, <3>6
  <2>5. stage # 5
    BY <2>1, StageTables DEF TypeOK
  <2> QED  BY <2>2, <2>4, <2>5
<1>5. CASE LoadFails
  BY <1>5 DEF LoadFails, TypeOK, WholeTables, LoadsFromEmpty, ServesFullySeeded
<1>6. CASE Wipe
  <2>1. /\ db' = [tb \in Tables |-> Empty] /\ phase' = "check" /\ reseeding' = TRUE
        /\ UNCHANGED <<stage, writes, acked, kills>>
    BY <1>6 DEF Wipe
  <2>2. TypeOK' /\ WholeTables'
    BY <2>1, EmptyType, FS_EmptySet DEF TypeOK, WholeTables
  <2> QED  BY <2>1, <2>2 DEF LoadsFromEmpty, ServesFullySeeded
<1>7. ASSUME NEW tb \in Tables, NEW k \in Keys, NEW v \in Nat, Store(tb, k, v)
      PROVE  TypeOK' /\ WholeTables' /\ LoadsFromEmpty' /\ ServesFullySeeded'
  <2>1. phase = "serving" /\ phase' = "serving" /\ UNCHANGED <<stage, reseeding, kills>>
    BY <1>7 DEF Store
  <2>2. Fixture[tb] \subseteq DOMAIN db[tb] /\ Fixture[tb] # {}
    BY <2>1, SeedAssumption DEF ServesFullySeeded
  <2>3. TypeOK' /\ WholeTables'
    BY <1>7, <2>2, StoreType
  <2>4. \A u \in Tables : DOMAIN db[u] \subseteq DOMAIN db'[u]
    BY <1>7, StoreEffect
  <2> QED  BY <2>1, <2>3, <2>4 DEF LoadsFromEmpty, ServesFullySeeded
<1>8. writes + 1 \in Nat /\ writes + 1 \in Keys /\ \A tb \in Tables : DOMAIN db[tb] \subseteq Keys
  <2>1. Nat \subseteq Keys
    BY DEF Keys
  <2> QED  BY <2>1 DEF TypeOK
<1>9. ASSUME NEW tb \in Tables, Post(tb)
      PROVE  TypeOK' /\ WholeTables' /\ LoadsFromEmpty' /\ ServesFullySeeded'
  BY <1>7, <1>8, <1>9, WriteIsStore
<1>10. ASSUME NEW tb \in Tables, NEW k \in DOMAIN db[tb], Patch(tb, k)
       PROVE  TypeOK' /\ WholeTables' /\ LoadsFromEmpty' /\ ServesFullySeeded'
  BY <1>7, <1>8, <1>10, WriteIsStore
<1> QED
  BY <1>1, <1>2, <1>3, <1>4, <1>5, <1>6, <1>9, <1>10 DEF Next, Entrypoint

LEMMA SeededInvariant == Spec => []Seeded
<1>1. Init => Seeded
  BY TypeInit DEF Init, Seeded, LoadsFromEmpty, ServesFullySeeded
<1> QED  BY <1>1, SeededStep, PTL DEF Spec

\* The server never runs over a partial seed, for any fixtures and any kills.
THEOREM ServingIsSeeded == Spec => []ServesFullySeeded
<1>1. Seeded => ServesFullySeeded
  BY DEF Seeded
<1> QED  BY <1>1, SeededInvariant, PTL

\* The type invariant, for any fixtures.
THEOREM TypeCorrect == Spec => []TypeOK
<1>1. Seeded => TypeOK
  BY DEF Seeded
<1> QED  BY <1>1, SeededInvariant, PTL

\* A loader never adds to rows that are there.
THEOREM SeedLoadsFromEmpty == Spec => []LoadsFromEmpty
<1>1. Seeded => LoadsFromEmpty
  BY DEF Seeded
<1> QED  BY <1>1, SeededInvariant, PTL

-----------------------------------------------------------------------------
(***************************************************************************)
(* While clients only PATCH, nothing acknowledged is ever lost.             *)
(***************************************************************************)

NoNewRows == \A tb \in Tables : DOMAIN db[tb] \subseteq Fixture[tb]

VersionsPast == \A tb \in Tables : \A k \in DOMAIN db[tb] : db[tb][k] <= writes

\* Once something is acknowledged the tables stay complete, so no seed command
\* loads or finds anything to wipe.
AckedMeansComplete ==
    acked # {} => /\ \A tb \in Tables : DOMAIN db[tb] = Fixture[tb]
                  /\ phase \notin {"load", "wipe"}

NothingCreated == \A a \in acked : a.version > 0

PatchedOnly ==
    NothingCreated => NoNewRows /\ VersionsPast /\ AckedIsStored /\ AckedMeansComplete

\* With two notes per incident the fixtures have as many rows as the seed expects,
\* so that it finds its own work complete.
LEMMA PatchedOnlyStep ==
    ASSUME NotesPaired
    PROVE  Seeded /\ PatchedOnly /\ [Next]_vars => PatchedOnly'
<1> SUFFICES ASSUME Seeded, PatchedOnly, [Next]_vars, NothingCreated'
             PROVE  NoNewRows' /\ VersionsPast' /\ AckedIsStored' /\ AckedMeansComplete'
  BY DEF PatchedOnly
<1>0. acked \subseteq acked'
  BY DEF Next, Boot, Entrypoint, Check, LoadStage, LoadFails, Wipe, Kill, Post, Patch, Store, vars
<1>1. TypeOK /\ WholeTables /\ ServesFullySeeded /\ NoNewRows /\ VersionsPast
      /\ AckedIsStored /\ AckedMeansComplete
  BY <1>0 DEF PatchedOnly, NothingCreated, Seeded
<1>2. CASE UNCHANGED vars
  BY <1>1, <1>2 DEF vars, NoNewRows, VersionsPast, AckedIsStored, AckedMeansComplete
<1>3. CASE Boot \/ Kill
  BY <1>1, <1>3 DEF Boot, Kill, NoNewRows, VersionsPast, AckedIsStored, AckedMeansComplete
<1>4. CASE Check
  <2>1. UNCHANGED <<db, writes, acked>>
    BY <1>4 DEF Check
  <2>2. ASSUME acked # {} PROVE phase' = "serving"
    <3>1. \A tb \in Tables : DOMAIN db[tb] = Fixture[tb]
      BY <1>1, <2>2 DEF AckedMeansComplete
    <3>2. \A tb \in Tables : Count(tb) = Cardinality(Fixture[tb])
      BY <3>1 DEF Count
    <3>3. \A tb \in Tables : Cardinality(Fixture[tb]) \in Nat \ {0}
      BY SeedAssumption, FS_EmptySet, FS_CardinalityType
    <3>4. "task_sla" \in Tables
      BY DEF Tables
    <3>5. \A tb \in Tables : Count(tb) = ExpectedCount(tb)
      BY <3>2 DEF ExpectedCount, NotesPaired
    <3>6. ~IsUnseeded /\ IsFullySeeded
      BY <3>2, <3>3, <3>4, <3>5 DEF IsUnseeded, IsFullySeeded
    <3> QED  BY <1>4, <3>6 DEF Check
  <2> QED
    BY <1>1, <2>1, <2>2 DEF NoNewRows, VersionsPast, AckedIsStored, AckedMeansComplete
<1>5. CASE LoadStage
  <2>1. acked = {} /\ acked' = acked /\ writes' = writes /\ writes \in Nat
    BY <1>1, <1>5 DEF LoadStage, AckedMeansComplete, TypeOK
  <2>2. \A tb \in Tables : db'[tb] = Loaded(tb) \/ db'[tb] = db[tb]
    BY <1>5 DEF LoadStage
  <2>3. NoNewRows'
    BY <1>1, <2>2, LoadedType DEF NoNewRows
  <2>4. VersionsPast'
    <3>1. \A tb \in Tables : \A k \in Fixture[tb] : Loaded(tb)[k] = 0
      BY DEF Loaded
    <3> QED  BY <1>1, <2>1, <2>2, <3>1, LoadedType DEF VersionsPast
  <2> QED  BY <2>1, <2>3, <2>4 DEF AckedIsStored, AckedMeansComplete
<1>6. CASE LoadFails
  BY <1>1, <1>6 DEF LoadFails, NoNewRows, VersionsPast, AckedIsStored, AckedMeansComplete
<1>7. CASE Wipe
  <2>1. acked = {} /\ acked' = acked /\ \A tb \in Tables : db'[tb] = Empty
    BY <1>1, <1>7 DEF Wipe, AckedMeansComplete
  <2> QED
    BY <2>1, EmptyType DEF NoNewRows, VersionsPast, AckedIsStored, AckedMeansComplete
<1>8. ASSUME NEW tb \in Tables, NEW k \in DOMAIN db[tb], Patch(tb, k)
      PROVE  NoNewRows' /\ VersionsPast' /\ AckedIsStored' /\ AckedMeansComplete'
  <2>1. /\ writes' = writes + 1 /\ writes \in Nat /\ writes + 1 \in Nat
        /\ phase = "serving" /\ phase' = "serving"
        /\ acked' = acked \cup {[table |-> tb, key |-> k, version |-> writes + 1]}
    <3>1. Store(tb, k, writes + 1)
      BY <1>8, WriteIsStore
    <3> QED  BY <1>1, <3>1 DEF Store, TypeOK
  <2>2. /\ DOMAIN db'[tb] = DOMAIN db[tb]
        /\ db'[tb][k] = writes + 1
        /\ \A j \in DOMAIN db[tb] : j # k => db'[tb][j] = db[tb][j]
        /\ \A u \in Tables : u # tb => db'[u] = db[u]
    <3>1. k \in Keys /\ Store(tb, k, writes + 1)
      BY <1>1, <1>8, WriteIsStore DEF TypeOK
    <3>2. DOMAIN db'[tb] = DOMAIN db[tb] \cup {k}
      BY <1>1, <2>1, <3>1, StoreEffect
    <3> QED  BY <1>1, <2>1, <3>1, <3>2, StoreEffect
  <2>3. \A u \in Tables : DOMAIN db'[u] = DOMAIN db[u]
    BY <2>2
  <2>4. \A u \in Tables : \A j \in DOMAIN db[u] :
          /\ db[u][j] \in Nat /\ db[u][j] <= writes
          /\ db'[u][j] = db[u][j] \/ db'[u][j] = writes + 1
    BY <1>1, <2>2 DEF TypeOK, VersionsPast
  <2>5. NoNewRows' /\ VersionsPast'
    BY <1>1, <2>1, <2>3, <2>4 DEF NoNewRows, VersionsPast
  <2>6. AckedIsStored'
    <3>1. ASSUME NEW a \in acked
          PROVE  a.key \in DOMAIN db'[a.table] /\ db'[a.table][a.key] >= a.version
      <4>1. a.table \in Tables /\ a.version \in Nat
        BY <1>1 DEF TypeOK
      <4>2. a.key \in DOMAIN db[a.table] /\ db[a.table][a.key] >= a.version
        BY <1>1 DEF AckedIsStored
      <4> QED  BY <2>1, <2>3, <2>4, <4>1, <4>2
    <3>2. ASSUME NEW a, a = [table |-> tb, key |-> k, version |-> writes + 1]
          PROVE  a.key \in DOMAIN db'[a.table] /\ db'[a.table][a.key] >= a.version
      BY <2>1, <2>2, <3>2
    <3> QED  BY <2>1, <3>1, <3>2 DEF AckedIsStored
  <2>7. AckedMeansComplete'
    BY <1>1, <2>1, <2>3 DEF AckedMeansComplete, ServesFullySeeded, NoNewRows
  <2> QED  BY <2>5, <2>6, <2>7
<1>9. ASSUME NEW tb \in Tables, Post(tb) PROVE FALSE
  <2>1. acked' = acked \cup {[table |-> tb, key |-> writes + 1, version |-> 0]}
    BY <1>9 DEF Post, Store
  <2>2. \A a \in acked' : a.version > 0
    BY DEF NothingCreated
  <2>3. [table |-> tb, key |-> writes + 1, version |-> 0].version > 0
    BY <2>1, <2>2
  <2> QED  BY <2>3
<1> QED
  BY <1>2, <1>3, <1>4, <1>5, <1>6, <1>7, <1>8, <1>9 DEF Next, Entrypoint

\* Over fixtures with two notes per incident, and as long as clients have created
\* nothing, every acknowledged PATCH survives every kill, restart and run of the
\* seed command (seed.py:394-424).
THEOREM PatchesSurvive ==
    ASSUME NotesPaired
    PROVE  Spec => []PatchesServed
<1>1. Init => PatchedOnly
  <2> SUFFICES ASSUME Init PROVE PatchedOnly
    OBVIOUS
  <2>1. acked = {} /\ \A tb \in Tables : db[tb] = Empty
    BY DEF Init
  <2> QED
    BY <2>1, EmptyType
    DEF PatchedOnly, NoNewRows, VersionsPast, AckedIsStored, AckedMeansComplete
<1>2. Seeded /\ PatchedOnly /\ [Next]_vars => PatchedOnly'
  BY PatchedOnlyStep
<1>3. PatchedOnly => PatchesServed
  BY DEF PatchedOnly, NothingCreated, PatchesServed
<1> QED  BY <1>1, <1>2, <1>3, SeededInvariant, PTL DEF Spec

-----------------------------------------------------------------------------
(***************************************************************************)
(* SeedDerivation: the sum of the business minutes.                        *)
(*                                                                         *)
(* BusinessMinutes sums the minutes of the days of an interval with        *)
(* MapThenSumSet, a recursive function that CHOOSE picks. That such a      *)
(* function exists is proved by induction over the size of the set of days, *)
(* which is stated of a set of numbers and not of a predicate.             *)
(***************************************************************************)
\* Induction over the natural numbers, for a set of numbers.
LEMMA NatInSet ==
    ASSUME NEW P, 0 \in P, \A n \in Nat : n \in P => n + 1 \in P
    PROVE  \A n \in Nat : n \in P
<1> DEFINE T == {n \in Nat : n \notin P}
<1>1. SUFFICES ASSUME T # {} PROVE FALSE
  OBVIOUS
<1>2. PICK n \in T : \A m \in T : ~(<<m, n>> \in OpToRel(<, Nat))
  <2>1. IsWellFoundedOn(OpToRel(<, Nat), Nat)
    BY NatLessThanWellFounded
  <2> QED  BY <1>1, <2>1, WFMin
<1>3. \A m \in T : ~(m < n)
  BY <1>2 DEF OpToRel
<1>4. n # 0 /\ n - 1 \in Nat /\ n - 1 \notin P
  OBVIOUS
<1> QED  BY <1>3, <1>4

\* One step of the sum of g over a set, where it has the sums of smaller sets.
SumStep(it, g, S) ==
    IF S = {} THEN 0 ELSE LET x == CHOOSE y \in S : TRUE IN g[x] + it[S \ {x}]

IsSum(it, g, D) == it = [S \in SUBSET D |-> SumStep(it, g, S)]

Smaller(D, n) == {S \in SUBSET D : Cardinality(S) <= n}

\* The sum over the subsets of a finite set is well defined.
LEMMA SumExists ==
    ASSUME NEW D, IsFiniteSet(D), NEW g
    PROVE  \E it : IsSum(it, g, D)
<1> DEFINE P == {n \in Nat : \E it : it = [S \in Smaller(D, n) |-> SumStep(it, g, S)]}
<1>1. \A S \in SUBSET D : IsFiniteSet(S) /\ Cardinality(S) \in Nat
  BY FS_Subset, FS_CardinalityType
<1>2. 0 \in P
  <2>1. \A S \in Smaller(D, 0) : S = {}
    <3> SUFFICES ASSUME NEW S \in Smaller(D, 0) PROVE S = {}
      OBVIOUS
    <3>1. Cardinality(S) = 0
      BY <1>1 DEF Smaller
    <3> QED  BY <1>1, <3>1, FS_EmptySet DEF Smaller
  <2> DEFINE it == [S \in Smaller(D, 0) |-> 0]
  <2>2. it = [S \in Smaller(D, 0) |-> SumStep(it, g, S)]
    BY <2>1 DEF SumStep
  <2> HIDE DEF it
  <2> QED  BY <2>2
<1>3. ASSUME NEW n \in Nat, n \in P PROVE n + 1 \in P
  <2>1. PICK it : it = [S \in Smaller(D, n) |-> SumStep(it, g, S)]
    BY <1>3
  <2> DEFINE jt == [S \in Smaller(D, n + 1) |-> SumStep(it, g, S)]
  <2>2. ASSUME NEW S \in Smaller(D, n + 1) PROVE SumStep(it, g, S) = SumStep(jt, g, S)
    <3>1. CASE S = {}
      BY <3>1 DEF SumStep
    <3>2. CASE S # {}
      <4> DEFINE x == CHOOSE y \in S : TRUE
                 R == S \ {x}
      <4>1. x \in S
        BY <3>2
      <4>2. R \in Smaller(D, n)
        <5>1. S \in SUBSET D /\ Cardinality(S) <= n + 1
          BY DEF Smaller
        <5> HIDE DEF x
        <5>2. Cardinality(R) = Cardinality(S) - 1
          BY <1>1, <4>1, <5>1, FS_RemoveElement
        <5> QED  BY <1>1, <5>1, <5>2 DEF Smaller
      <4>3. R \in Smaller(D, n + 1)
        BY <4>2, <1>1 DEF Smaller
      <4> HIDE DEF x, R
      <4>4. it[R] = SumStep(it, g, R)
        BY <2>1, <4>2
      <4>5. jt[R] = SumStep(it, g, R)
        BY <4>3
      <4> HIDE DEF jt
      <4> QED  BY <3>2, <4>4, <4>5 DEF SumStep, x, R
    <3> QED  BY <3>1, <3>2
  <2>3. jt = [S \in Smaller(D, n + 1) |-> SumStep(jt, g, S)]
    BY <2>2
  <2> HIDE DEF jt
  <2> QED  BY <2>3
<1> HIDE DEF P
<1>4. Cardinality(D) \in P
  BY <1>1, <1>2, <1>3, NatInSet
<1>5. Smaller(D, Cardinality(D)) = SUBSET D
  BY FS_Subset, <1>1 DEF Smaller
<1> QED  BY <1>4, <1>5 DEF P, IsSum

\* The business days of an interval (seed.py 289-291).
Weekdays(start, end) == {day \in Day(start.at)..Day(end.at) : IsWeekday(day)}

\* A function that sums the minutes of business day by day, one day of a set after
\* the other.
SumsMinutes(it, start, end) ==
    /\ BusinessMinutes(start, end) = it[Weekdays(start, end)]
    /\ it[{}] = 0
    /\ \A S \in SUBSET Weekdays(start, end) : S # {} =>
         \E x \in S : it[S] = (Overlap(start, end, x) \div SecondsPerMinute) + it[S \ {x}]

\* The minutes of business are the sum that MapThenSumSet makes of those of the days.
LEMMA BusinessSum ==
    ASSUME NEW start, NEW end, IsFiniteSet(Weekdays(start, end))
    PROVE  \E it : SumsMinutes(it, start, end)
<1> DEFINE D == Weekdays(start, end)
           Sums(it) == it = [S \in SUBSET D |->
               IF S = {} THEN 0
               ELSE LET x == CHOOSE y \in S : TRUE
                    IN  (Overlap(start, end, x) \div SecondsPerMinute) + it[S \ {x}]]
           iter == CHOOSE it : Sums(it)
           g == [day \in D |-> Overlap(start, end, day) \div SecondsPerMinute]
<1>1. BusinessMinutes(start, end) = iter[D]
  BY Zenon DEF BusinessMinutes, MapThenSumSet, MapThenFoldSet, Weekdays
<1>2. Sums(iter)
  <2>1. PICK it : IsSum(it, g, D)
    <3> HIDE DEF g
    <3> QED  BY SumExists
  <2>2. \A S \in SUBSET D : SumStep(it, g, S) =
          IF S = {} THEN 0
          ELSE LET x == CHOOSE y \in S : TRUE
               IN  (Overlap(start, end, x) \div SecondsPerMinute) + it[S \ {x}]
    BY DEF SumStep
  <2>3. Sums(it)
    BY <2>1, <2>2 DEF IsSum
  <2> HIDE DEF Sums
  <2> QED  BY <2>3
<1> HIDE DEF iter
<1>3. ASSUME NEW S \in SUBSET D, S # {}
      PROVE  \E x \in S : iter[S] = (Overlap(start, end, x) \div SecondsPerMinute) + iter[S \ {x}]
  <2> DEFINE x == CHOOSE y \in S : TRUE
  <2>1. x \in S
    BY <1>3
  <2>2. iter[S] = (Overlap(start, end, x) \div SecondsPerMinute) + iter[S \ {x}]
    BY <1>2, <1>3
  <2> QED  BY <2>1, <2>2
<1>4. iter[{}] = 0
  BY <1>2
<1> QED  BY <1>1, <1>3, <1>4 DEF SumsMinutes

-----------------------------------------------------------------------------
(***************************************************************************)
(* Seconds, days and the business day of a day.                            *)
(***************************************************************************)
\* Division and its remainder.
LEMMA DivMod ==
    ASSUME NEW a \in Nat, NEW d \in Nat \ {0}
    PROVE  /\ a \div d \in Nat /\ a % d \in 0..(d - 1)
           /\ a = d * (a \div d) + (a % d)
OBVIOUS

\* A quotient is compared as the dividend is with the product.
LEMMA DivBound ==
    ASSUME NEW a \in Nat, NEW d \in Nat \ {0}, NEW k \in Int
    PROVE  /\ k <= a \div d <=> d * k <= a
           /\ a \div d < k <=> a < d * k
OBVIOUS

LEMMA TimesMono ==
    ASSUME NEW d \in Nat, NEW x \in Int, NEW y \in Int, x <= y
    PROVE  d * x <= d * y
OBVIOUS

LEMMA DayLength == SecondsPerDay \in Nat \ {0}
BY DerivationAssumption DEF SecondsPerDay

\* A time is its day and the seconds of its day.
LEMMA DayType ==
    ASSUME NEW t \in Nat
    PROVE  /\ Day(t) \in Nat /\ t % SecondsPerDay \in 0..(SecondsPerDay - 1)
           /\ t = SecondsPerDay * Day(t) + (t % SecondsPerDay)
BY DayLength, DivMod DEF Day

\* An earlier time is on an earlier day, or earlier on the same day.
LEMMA EarlierTime ==
    ASSUME NEW t \in Nat, NEW u \in Nat
    PROVE  t < u <=> \/ Day(t) < Day(u)
                     \/ Day(t) = Day(u) /\ t % SecondsPerDay < u % SecondsPerDay
<1>1. SecondsPerDay \in Nat \ {0}
  BY DayLength
<1>2. /\ Day(t) \in Nat /\ t % SecondsPerDay \in 0..(SecondsPerDay - 1)
      /\ t = SecondsPerDay * Day(t) + (t % SecondsPerDay)
      /\ Day(u) \in Nat /\ u % SecondsPerDay \in 0..(SecondsPerDay - 1)
      /\ u = SecondsPerDay * Day(u) + (u % SecondsPerDay)
  BY DayType
<1>3. Day(t) < Day(u) => t < u
  <2>1. Day(t) < Day(u) => SecondsPerDay * (Day(t) + 1) <= SecondsPerDay * Day(u)
    BY <1>1, <1>2, TimesMono
  <2> QED  BY <2>1, <1>1, <1>2
<1>4. Day(u) < Day(t) => u < t
  <2>1. Day(u) < Day(t) => SecondsPerDay * (Day(u) + 1) <= SecondsPerDay * Day(t)
    BY <1>1, <1>2, TimesMono
  <2> QED  BY <2>1, <1>1, <1>2
<1>5. Day(t) = Day(u) => (t < u <=> t % SecondsPerDay < u % SecondsPerDay)
  <2> DEFINE r == t % SecondsPerDay
             q == u % SecondsPerDay
             n == SecondsPerDay * Day(t)
  <2>1. r \in Int /\ q \in Int /\ n \in Int
    BY <1>1, <1>2
  <2>2. Day(t) = Day(u) => t = n + r /\ u = n + q
    BY <1>2
  <2> HIDE DEF r, q, n
  <2>3. Day(t) = Day(u) => (t < u <=> r < q)
    BY <2>1, <2>2
  <2> QED  BY <2>3 DEF r, q
<1>6. Day(t) < Day(u) \/ Day(u) < Day(t) \/ Day(t) = Day(u)
  BY <1>2
<1>7. ~(Day(t) < Day(u) /\ Day(u) < Day(t)) /\ ~(t < u /\ u < t) /\ (Day(t) < Day(u) => Day(t) # Day(u))
  BY <1>2
<1> QED
  <2>1. CASE Day(t) < Day(u)
    BY <2>1, <1>3
  <2>2. CASE Day(u) < Day(t)
    BY <2>2, <1>4, <1>7
  <2>3. CASE Day(t) = Day(u)
    BY <2>3, <1>5, <1>7
  <2> QED  BY <2>1, <2>2, <2>3, <1>6

\* The smaller and the larger of two numbers.
LEMMA MinMaxOfTwo ==
    ASSUME NEW a \in Int, NEW b \in Int
    PROVE  /\ Min({a, b}) = (IF a <= b THEN a ELSE b)
           /\ Max({a, b}) = (IF a <= b THEN b ELSE a)
BY DEF Min, Max

\* The second a business day of a day opens and closes (seed.py 292-293).
Opening(day) == day * SecondsPerDay + OpeningMinute * SecondsPerMinute
Closing(day) == day * SecondsPerDay + ClosingMinute * SecondsPerMinute

\* The business window is not empty and within its day.
LEMMA WindowType ==
    ASSUME NEW day \in Nat
    PROVE  /\ Opening(day) \in Nat /\ Closing(day) \in Nat
           /\ day * SecondsPerDay <= Opening(day) /\ Opening(day) < Closing(day)
           /\ Closing(day) <= day * SecondsPerDay + SecondsPerDay
<1> DEFINE base == day * SecondsPerDay
           o == OpeningMinute * SecondsPerMinute
           c == ClosingMinute * SecondsPerMinute
<1>1. base \in Nat
  BY DayLength
<1>2. o \in Nat /\ c \in Nat /\ o < c /\ c <= SecondsPerDay
  <2>1. /\ OpeningMinute \in Nat /\ ClosingMinute \in Nat /\ SecondsPerMinute \in Nat \ {0}
        /\ MinutesPerDay \in Nat /\ OpeningMinute + 1 <= ClosingMinute /\ ClosingMinute <= MinutesPerDay
    BY DerivationAssumption
  <2>2. SecondsPerMinute * ClosingMinute <= SecondsPerMinute * MinutesPerDay
    BY <2>1, TimesMono
  <2>3. SecondsPerMinute * (OpeningMinute + 1) <= SecondsPerMinute * ClosingMinute
    BY <2>1, TimesMono
  <2> QED  BY <2>1, <2>2, <2>3 DEF SecondsPerDay
<1> HIDE DEF base, o, c
<1>3. Opening(day) = base + o /\ Closing(day) = base + c
  BY DEF Opening, Closing, base, o, c
<1>4. base \in Nat /\ base + o \in Nat /\ base + c \in Nat /\ base <= base + o /\ base + o < base + c
      /\ base + c <= base + SecondsPerDay
  BY <1>1, <1>2, DayLength
<1> QED  BY <1>3, <1>4 DEF base

\* The seconds of business of a day are those of its window.
LEMMA WindowOfDay ==
    ASSUME NEW t \in Nat, NEW day \in Nat, IsWeekday(day)
    PROVE  InBusiness(t) /\ Day(t) = day <=> Opening(day) <= t /\ t < Closing(day)
<1>0. SecondsPerDay \in Nat \ {0} /\ SecondsPerMinute \in Nat \ {0}
      /\ OpeningMinute \in Nat /\ ClosingMinute \in Nat
  BY DerivationAssumption, DayLength
<1>1. t % SecondsPerDay \in Nat /\ t = SecondsPerDay * Day(t) + (t % SecondsPerDay)
  <2>1. t % SecondsPerDay \in 0..(SecondsPerDay - 1)
    BY DayType
  <2>2. t = SecondsPerDay * Day(t) + (t % SecondsPerDay)
    BY DayType
  <2> QED  BY <2>1, <2>2, <1>0
<1>2. (t % SecondsPerDay) \div SecondsPerMinute \in OpeningMinute..(ClosingMinute - 1) <=>
        /\ SecondsPerMinute * OpeningMinute <= t % SecondsPerDay
        /\ t % SecondsPerDay < SecondsPerMinute * ClosingMinute
  <2> DEFINE q == t % SecondsPerDay
             m == q \div SecondsPerMinute
  <2>1. q \in Nat
    BY <1>1
  <2> HIDE DEF q
  <2>2. /\ OpeningMinute <= m <=> SecondsPerMinute * OpeningMinute <= q
        /\ m < ClosingMinute <=> q < SecondsPerMinute * ClosingMinute
    BY <1>0, <2>1, DivBound
  <2>3. m \in Nat
    BY <1>0, <2>1, DivMod
  <2> HIDE DEF m
  <2>4. m \in OpeningMinute..(ClosingMinute - 1) <=> OpeningMinute <= m /\ m < ClosingMinute
    BY <1>0, <2>3
  <2> QED  BY <2>2, <2>4 DEF q, m
<1>3. Day(t) = day => (Opening(day) <= t /\ t < Closing(day) <=>
        /\ SecondsPerMinute * OpeningMinute <= t % SecondsPerDay
        /\ t % SecondsPerDay < SecondsPerMinute * ClosingMinute)
  <2> DEFINE base == SecondsPerDay * day
             o == SecondsPerMinute * OpeningMinute
             c == SecondsPerMinute * ClosingMinute
             q == t % SecondsPerDay
  <2>1. base \in Int /\ o \in Int /\ c \in Int /\ q \in Int
    BY <1>0, <1>1
  <2>2. Opening(day) = base + o /\ Closing(day) = base + c
    BY <1>0 DEF Opening, Closing
  <2>3. Day(t) = day => t = base + q
    BY <1>1
  <2> HIDE DEF base, o, c, q
  <2>4. Day(t) = day => (base + o <= t /\ t < base + c <=> o <= q /\ q < c)
    BY <2>1, <2>3
  <2> QED  BY <2>2, <2>4 DEF o, c, q
<1>4. Opening(day) <= t /\ t < Closing(day) => Day(t) = day
  <2>1. Opening(day) <= t /\ t < Closing(day) => SecondsPerDay * day <= t /\ t < SecondsPerDay * (day + 1)
    <3> DEFINE base == day * SecondsPerDay
    <3>1. base \in Nat /\ SecondsPerDay * day = base /\ SecondsPerDay * (day + 1) = base + SecondsPerDay
      BY <1>0
    <3>2. Opening(day) \in Nat /\ Closing(day) \in Nat /\ base <= Opening(day) /\ Closing(day) <= base + SecondsPerDay
      BY WindowType
    <3> HIDE DEF base
    <3> QED  BY <3>1, <3>2, <1>0
  <2>2. day <= Day(t) <=> SecondsPerDay * day <= t
    BY <1>0, DivBound DEF Day
  <2>3. Day(t) < day + 1 <=> t < SecondsPerDay * (day + 1)
    BY <1>0, DivBound DEF Day
  <2>4. Day(t) \in Nat
    BY DayType
  <2> QED  BY <2>1, <2>2, <2>3, <2>4
<1>5. InBusiness(t) /\ Day(t) = day <=>
        Day(t) = day /\ (t % SecondsPerDay) \div SecondsPerMinute \in OpeningMinute..(ClosingMinute - 1)
  BY DEF InBusiness
<1> QED  BY <1>2, <1>3, <1>4, <1>5

\* The seconds of business from start to end that are on some of the days.
Seconds(start, end, days) == {t \in start..(end - 1) : InBusiness(t) /\ Day(t) \in days}

\* Overlap, by the opening and the closing (seed.py 294-296).
LEMMA OverlapParts ==
    ASSUME NEW start, NEW end, NEW day
    PROVE  Overlap(start, end, day) =
             LET seconds == Min({end.at, Closing(day)}) - Max({start.at, Opening(day)})
             IN  IF seconds > 0 THEN seconds ELSE 0
BY Zenon DEF Overlap, Opening, Closing

\* Of one weekday they are as many as Overlap says.
LEMMA SecondsOfDay ==
    ASSUME NEW start \in Nat, NEW end \in Nat, NEW day \in Nat, IsWeekday(day)
    PROVE  LET o == Overlap(Stamp(start, "fixture"), Stamp(end, "fixture"), day)
           IN  /\ o \in Nat
               /\ IsFiniteSet(Seconds(start, end, {day}))
               /\ Cardinality(Seconds(start, end, {day})) = o
               /\ start <= Opening(day) /\ Closing(day) <= end => o = Closing(day) - Opening(day)
<1> DEFINE lo == IF start <= Opening(day) THEN Opening(day) ELSE start
           hi == IF end <= Closing(day) THEN end ELSE Closing(day)
           o == Overlap(Stamp(start, "fixture"), Stamp(end, "fixture"), day)
<1>1. Opening(day) \in Nat /\ Closing(day) \in Nat /\ Opening(day) < Closing(day)
  BY WindowType
<1>2. lo \in Nat /\ hi \in Nat
  BY <1>1
<1>3. o = IF hi - lo > 0 THEN hi - lo ELSE 0
  <2>1. /\ Min({end, Closing(day)}) = hi
        /\ Max({start, Opening(day)}) = lo
    <3>1. Min({end, Closing(day)}) = hi
      BY <1>1, MinMaxOfTwo
    <3>2. Max({start, Opening(day)}) = lo
      BY <1>1, MinMaxOfTwo
    <3> QED  BY <3>1, <3>2
  <2>2. o = LET seconds == Min({end, Closing(day)}) - Max({start, Opening(day)})
            IN  IF seconds > 0 THEN seconds ELSE 0
    <3> DEFINE s == Stamp(start, "fixture")
               e == Stamp(end, "fixture")
    <3>1. s.at = start /\ e.at = end
      BY DEF Stamp
    <3> HIDE DEF s, e, lo, hi
    <3>2. Overlap(s, e, day) =
            LET seconds == Min({end, Closing(day)}) - Max({start, Opening(day)})
            IN  IF seconds > 0 THEN seconds ELSE 0
      BY <3>1, OverlapParts
    <3> QED  BY <3>2 DEF s, e
  <2> QED  BY <2>1, <2>2
<1>4. Seconds(start, end, {day}) = lo..(hi - 1)
  <2>1. \A t \in Nat : InBusiness(t) /\ Day(t) = day <=> Opening(day) <= t /\ t < Closing(day)
    BY WindowOfDay
  <2>2. Seconds(start, end, {day}) = {t \in start..(end - 1) : Opening(day) <= t /\ t < Closing(day)}
    BY <2>1 DEF Seconds
  <2>3. ASSUME NEW t PROVE t \in start..(end - 1) /\ Opening(day) <= t /\ t < Closing(day) <=> t \in lo..(hi - 1)
    <3> DEFINE a == Opening(day)
               b == Closing(day)
    <3>1. a \in Nat /\ b \in Nat
      BY <1>1
    <3> HIDE DEF a, b
    <3>2. t \in start..(end - 1) /\ a <= t /\ t < b <=>
            t \in (IF start <= a THEN a ELSE start)..((IF end <= b THEN end ELSE b) - 1)
      BY <3>1
    <3> QED  BY <3>2 DEF a, b
  <2> HIDE DEF lo, hi
  <2> QED  BY <2>2, <2>3
<1> HIDE DEF o
<1>5. start <= Opening(day) /\ Closing(day) <= end => o = Closing(day) - Opening(day)
  BY <1>1, <1>3
<1>6. o \in Nat
  BY <1>2, <1>3
<1> HIDE DEF lo, hi
<1>7. IsFiniteSet(lo..(hi - 1)) /\ Cardinality(lo..(hi - 1)) = o
  BY <1>2, <1>3, FS_Interval
<1> QED  BY <1>4, <1>5, <1>6, <1>7 DEF o

-----------------------------------------------------------------------------
\* What the minutes of a day leave out: less than a minute, and of a day between
\* the first and the last nothing.
LEMMA MinutesOfDay ==
    ASSUME NEW start \in Nat, NEW end \in Nat, NEW day \in Nat, IsWeekday(day)
    PROVE  LET o == Overlap(Stamp(start, "fixture"), Stamp(end, "fixture"), day)
               minutes == o \div SecondsPerMinute
           IN  /\ o \in Nat /\ minutes \in Nat
               /\ minutes * SecondsPerMinute <= o
               /\ o <= minutes * SecondsPerMinute + (SecondsPerMinute - 1)
               /\ Day(start) < day /\ day < Day(end) => o = minutes * SecondsPerMinute
<1> DEFINE o == Overlap(Stamp(start, "fixture"), Stamp(end, "fixture"), day)
           minutes == o \div SecondsPerMinute
<1>0. SecondsPerMinute \in Nat \ {0} /\ SecondsPerDay \in Nat \ {0}
      /\ OpeningMinute \in Nat /\ ClosingMinute \in Nat /\ OpeningMinute < ClosingMinute
  BY DerivationAssumption, DayLength
<1>1. o \in Nat /\ (start <= Opening(day) /\ Closing(day) <= end => o = Closing(day) - Opening(day))
  BY SecondsOfDay
<1> HIDE DEF o
<1>2. minutes \in Nat /\ o % SecondsPerMinute \in 0..(SecondsPerMinute - 1)
      /\ o = SecondsPerMinute * minutes + (o % SecondsPerMinute)
  BY <1>0, <1>1, DivMod
<1>3. minutes * SecondsPerMinute <= o /\ o <= minutes * SecondsPerMinute + (SecondsPerMinute - 1)
  <2> DEFINE r == o % SecondsPerMinute
             p == SecondsPerMinute * minutes
  <2>1. r \in 0..(SecondsPerMinute - 1) /\ o = p + r /\ p \in Nat /\ minutes * SecondsPerMinute = p
    BY <1>0, <1>2
  <2> HIDE DEF r, p
  <2>2. p <= o /\ o <= p + (SecondsPerMinute - 1)
    BY <1>0, <2>1
  <2> QED  BY <2>1, <2>2
<1>4. ASSUME Day(start) < day, day < Day(end) PROVE o = minutes * SecondsPerMinute
  <2>1. Day(start) \in Nat /\ Day(end) \in Nat
    BY DayType
  <2>2. start < SecondsPerDay * day
    BY <1>0, <1>4, DivBound DEF Day
  <2>3. SecondsPerDay * (day + 1) <= end
    <3>1. day + 1 <= Day(end)
      BY <1>4, <2>1
    <3> QED  BY <1>0, <3>1, DivBound DEF Day
  <2>4. SecondsPerDay * day = day * SecondsPerDay
        /\ SecondsPerDay * (day + 1) = day * SecondsPerDay + SecondsPerDay
        /\ day * SecondsPerDay \in Nat
    BY <1>0
  <2> DEFINE b == day * SecondsPerDay
  <2>5. /\ Opening(day) \in Nat /\ Closing(day) \in Nat
        /\ b <= Opening(day) /\ Closing(day) <= b + SecondsPerDay
    BY WindowType
  <2>6. b \in Nat /\ start < b /\ b + SecondsPerDay <= end
    BY <2>2, <2>3, <2>4
  <2> HIDE DEF b
  <2>7. start <= Opening(day) /\ Closing(day) <= end
    BY <2>5, <2>6, <1>0
  <2>8. o = (ClosingMinute - OpeningMinute) * SecondsPerMinute
    <3>1. o = Closing(day) - Opening(day)
      BY <2>7, <1>1
    <3> DEFINE c == ClosingMinute * SecondsPerMinute
               a == OpeningMinute * SecondsPerMinute
               d == day * SecondsPerDay
    <3>2. a \in Nat /\ c \in Nat /\ d \in Nat /\ (ClosingMinute - OpeningMinute) * SecondsPerMinute = c - a
      BY <1>0
    <3>3. Closing(day) = d + c /\ Opening(day) = d + a
      BY DEF Closing, Opening
    <3> HIDE DEF a, c, d
    <3> QED  BY <3>1, <3>2, <3>3
  <2>9. minutes = ClosingMinute - OpeningMinute
    <3> DEFINE k == ClosingMinute - OpeningMinute
    <3>1. k \in Nat /\ o = SecondsPerMinute * k /\ o < SecondsPerMinute * (k + 1)
      BY <1>0, <2>8
    <3> HIDE DEF k
    <3>2. k <= minutes /\ minutes < k + 1
      BY <3>1, <1>0, <1>1, DivBound
    <3> QED  BY <3>1, <3>2, <1>2 DEF k
  <2> QED  BY <2>8, <2>9
<1> QED  BY <1>1, <1>2, <1>3, <1>4 DEF o

\* The seconds that the minutes of some days leave out at most.
Slack(start, end, days) ==
    (IF Day(start) \in days THEN SecondsPerMinute - 1 ELSE 0)
    + (IF Day(end) \in days THEN SecondsPerMinute - 1 ELSE 0)

\* What is left out is left out of one of the days or of the others.
LEMMA SlackType ==
    ASSUME NEW start, NEW end, NEW days
    PROVE  /\ Slack(start, end, days) \in Nat
           /\ Slack(start, end, days) <= 2 * (SecondsPerMinute - 1)
           /\ Slack(start, end, {}) = 0
           /\ \A x \in days :
                Slack(start, end, days) = Slack(start, end, days \ {x}) + Slack(start, end, {x})
BY DerivationAssumption DEF Slack

\* The seconds of some days are those of one of them and those of the others.
LEMMA SecondsSplit ==
    ASSUME NEW start \in Nat, NEW end \in Nat, NEW days, NEW x \in days
    PROVE  /\ Cardinality(Seconds(start, end, days)) \in Nat
           /\ Cardinality(Seconds(start, end, days)) =
                Cardinality(Seconds(start, end, days \ {x})) + Cardinality(Seconds(start, end, {x}))
           /\ Cardinality(Seconds(start, end, {})) = 0
<1>1. IsFiniteSet(start..(end - 1))
  BY FS_Interval
<1>2. \A X : IsFiniteSet(Seconds(start, end, X))
  <2> SUFFICES ASSUME NEW X PROVE IsFiniteSet(Seconds(start, end, X))
    OBVIOUS
  <2>1. Seconds(start, end, X) \in SUBSET (start..(end - 1))
    BY DEF Seconds
  <2> QED  BY <1>1, <2>1, FS_Subset
<1> DEFINE A == Seconds(start, end, days \ {x})
           B == Seconds(start, end, {x})
<1>3. Seconds(start, end, days) = A \cup B /\ A \cap B = {}
  BY DEF Seconds
<1>4. Seconds(start, end, {}) = {}
  BY DEF Seconds
<1> HIDE DEF A, B
<1>5. IsFiniteSet(A) /\ IsFiniteSet(B)
  BY <1>2 DEF A, B
<1>6. Cardinality(A) \in Nat /\ Cardinality(B) \in Nat /\ Cardinality({}) = 0
  BY <1>5, FS_CardinalityType, FS_EmptySet
<1>7. Cardinality(A \cup B) = Cardinality(A) + Cardinality(B)
  <2>1. Cardinality(A \cup B) = Cardinality(A) + Cardinality(B) - Cardinality(A \cap B)
    BY <1>5, FS_Union
  <2>2. Cardinality(A \cap B) = 0
    BY <1>3, <1>6
  <2> QED  BY <2>1, <2>2, <1>6
<1>8. /\ Cardinality(Seconds(start, end, days)) \in Nat
      /\ Cardinality(Seconds(start, end, days)) = Cardinality(A) + Cardinality(B)
  BY <1>3, <1>6, <1>7
<1>9. Cardinality(Seconds(start, end, {})) = 0
  BY <1>4, <1>6
<1> QED  BY <1>8, <1>9 DEF A, B

\* The minutes of business between two times tell the seconds of business between
\* them, but for less than two minutes.
LEMMA BusinessBounds ==
    ASSUME NEW start \in Nat, NEW end \in Nat
    PROVE  LET minutes == BusinessMinutes(Stamp(start, "fixture"), Stamp(end, "fixture"))
               seconds == Cardinality({t \in start..(end - 1) : InBusiness(t)})
           IN  /\ minutes \in Nat /\ seconds \in Nat
               /\ minutes * SecondsPerMinute <= seconds
               /\ seconds < (minutes + 2) * SecondsPerMinute
<1> DEFINE s == Stamp(start, "fixture")
           e == Stamp(end, "fixture")
           D == Weekdays(s, e)
           minutes == BusinessMinutes(s, e)
<1>0. SecondsPerMinute \in Nat \ {0}
  BY DerivationAssumption
<1>1. D = {day \in Day(start)..Day(end) : IsWeekday(day)}
  BY DEF Weekdays, Stamp
<1>2. Day(start) \in Nat /\ Day(end) \in Nat
  BY DayType
<1>3. IsFiniteSet(D) /\ \A day \in D : day \in Nat /\ IsWeekday(day) /\ Day(start) <= day /\ day <= Day(end)
  <2>1. IsFiniteSet(Day(start)..Day(end))
    BY <1>2, FS_Interval
  <2>2. D \in SUBSET (Day(start)..Day(end))
    BY <1>1
  <2>3. IsFiniteSet(D)
    BY <2>1, <2>2, FS_Subset
  <2> QED  BY <2>3, <1>1, <1>2
<1> HIDE DEF D
<1>sums. PICK it : SumsMinutes(it, s, e)
  BY <1>3, BusinessSum DEF D
<1>4. /\ minutes = it[D] /\ it[{}] = 0
      /\ \A S \in SUBSET D : S # {} =>
           \E x \in S : it[S] = (Overlap(s, e, x) \div SecondsPerMinute) + it[S \ {x}]
  BY Zenon, <1>sums DEF SumsMinutes, D
<1> DEFINE C(X) == Cardinality(Seconds(start, end, X))
           K(X) == Slack(start, end, X)
           Told(X) == /\ it[X] \in Nat /\ C(X) \in Nat
                      /\ it[X] * SecondsPerMinute <= C(X)
                      /\ C(X) <= it[X] * SecondsPerMinute + K(X)
           P == {n \in Nat : \A X \in SUBSET D : Cardinality(X) = n => Told(X)}
<1>5. \A X \in SUBSET D : IsFiniteSet(X) /\ Cardinality(X) \in Nat
  BY <1>3, FS_Subset, FS_CardinalityType
<1>6. C({}) = 0 /\ K({}) = 0
  <2>1. C({}) = 0
    BY SecondsSplit
  <2> QED  BY <2>1, SlackType
<1>7. 0 \in P
  <2>1. \A X \in SUBSET D : Cardinality(X) = 0 => X = {}
    BY <1>5, FS_EmptySet
  <2>2. Told({})
    BY <1>0, <1>4, <1>6
  <2> HIDE DEF Told
  <2> QED  BY <2>1, <2>2
<1>8. ASSUME NEW n \in Nat, n \in P PROVE n + 1 \in P
  <2> SUFFICES ASSUME NEW X \in SUBSET D, Cardinality(X) = n + 1 PROVE Told(X)
    BY DEF P
  <2>1. X # {}
    BY FS_EmptySet
  <2>2. PICK x \in X : it[X] = (Overlap(s, e, x) \div SecondsPerMinute) + it[X \ {x}]
    BY <1>4, <2>1
  <2> DEFINE Y == X \ {x}
             o == Overlap(s, e, x)
             m == o \div SecondsPerMinute
  <2>3. Told(Y)
    <3>1. Y \in SUBSET D /\ Cardinality(Y) = n
      BY <1>5, FS_RemoveElement
    <3> HIDE DEF Told, Y
    <3> QED  BY <1>8, <3>1 DEF P
  <2>4. x \in Nat /\ IsWeekday(x) /\ Day(start) <= x /\ x <= Day(end)
    BY <1>3
  <2>5. /\ o \in Nat /\ m \in Nat
        /\ m * SecondsPerMinute <= o
        /\ o <= m * SecondsPerMinute + (SecondsPerMinute - 1)
        /\ Day(start) < x /\ x < Day(end) => o = m * SecondsPerMinute
    BY <2>4, MinutesOfDay
  <2>6. C(X) \in Nat /\ C(X) = C(Y) + o
    <3>1. C({x}) = o
      BY <2>4, SecondsOfDay
    <3>2. C(X) \in Nat /\ C(X) = C(Y) + C({x})
      BY SecondsSplit
    <3> QED  BY <3>1, <3>2
  <2>7. K(X) = K(Y) + K({x}) /\ K(Y) \in Nat /\ K({x}) \in Nat
    BY SlackType
  <2>8. o <= m * SecondsPerMinute + K({x})
    <3>1. x = Day(start) \/ x = Day(end) => K({x}) >= SecondsPerMinute - 1
      BY <1>0 DEF Slack
    <3>2. x # Day(start) /\ x # Day(end) => Day(start) < x /\ x < Day(end)
      BY <1>2, <2>4
    <3> DEFINE p == m * SecondsPerMinute
    <3>3. p \in Nat
      BY <1>0, <2>5
    <3> HIDE DEF p, o, m, K
    <3>4. o \in Nat /\ o <= p + (SecondsPerMinute - 1) /\ (Day(start) < x /\ x < Day(end) => o = p)
      BY <2>5 DEF p
    <3>5. o <= p + K({x})
      BY <1>0, <2>7, <3>1, <3>2, <3>3, <3>4
    <3> QED  BY <3>5 DEF p
  <2>9. it[X] = m + it[Y]
    BY <2>2
  <2> DEFINE a == it[Y] * SecondsPerMinute
             b == m * SecondsPerMinute
  <2>10. it[Y] \in Nat /\ C(Y) \in Nat /\ a \in Nat /\ a <= C(Y) /\ C(Y) <= a + K(Y)
    BY <1>0, <2>3
  <2>11. it[X] \in Nat /\ it[X] * SecondsPerMinute = a + b /\ b \in Nat
    BY <1>0, <2>5, <2>9, <2>10
  <2>12. b <= o /\ o <= b + K({x})
    BY <2>5, <2>8
  <2> HIDE DEF a, b, o, m, Y, C, K
  <2>13. a + b <= C(X) /\ C(X) <= a + b + K(X)
    BY <2>5, <2>6, <2>7, <2>10, <2>11, <2>12
  <2>14. it[X] * SecondsPerMinute <= C(X) /\ C(X) <= it[X] * SecondsPerMinute + K(X)
    BY <2>11, <2>13
  <2> QED  BY <2>6, <2>11, <2>14
<1> HIDE DEF P
<1>9. Cardinality(D) \in P
  BY <1>5, <1>7, <1>8, NatInSet
<1>10. Told(D)
  <2> HIDE DEF Told
  <2> QED  BY <1>9 DEF P
<1>11. Seconds(start, end, D) = {t \in start..(end - 1) : InBusiness(t)}
  <2>1. ASSUME NEW t \in start..(end - 1), InBusiness(t) PROVE Day(t) \in D
    <3>1. t \in Nat /\ start <= t /\ t <= end
      OBVIOUS
    <3>2. Day(start) <= Day(t) /\ Day(t) <= Day(end) /\ Day(t) \in Nat
      <4>1. Day(t) \in Nat
        BY <3>1, DayType
      <4>2. ~(t < start) /\ ~(end < t)
        BY <3>1
      <4>3. ~(Day(t) < Day(start)) /\ ~(Day(end) < Day(t))
        BY <3>1, <4>2, EarlierTime
      <4> QED  BY <1>2, <4>1, <4>3
    <3> QED  BY <1>1, <1>2, <2>1, <3>2 DEF D, InBusiness
  <2> QED  BY <2>1 DEF Seconds
<1>12. K(D) \in Nat /\ K(D) <= 2 * (SecondsPerMinute - 1)
  BY SlackType
<1> DEFINE p == minutes * SecondsPerMinute
           seconds == Cardinality({t \in start..(end - 1) : InBusiness(t)})
<1>13. minutes \in Nat /\ seconds \in Nat /\ p <= seconds /\ seconds <= p + K(D)
  BY <1>4, <1>10, <1>11
<1>14. p \in Nat /\ (minutes + 2) * SecondsPerMinute = p + 2 * SecondsPerMinute
  BY <1>0, <1>13
<1> HIDE DEF p, minutes, seconds, K
<1>15. p <= seconds /\ seconds < p + 2 * SecondsPerMinute
  BY <1>0, <1>12, <1>13, <1>14
<1>16. minutes * SecondsPerMinute <= seconds /\ seconds < (minutes + 2) * SecondsPerMinute
  BY <1>14, <1>15 DEF p
<1> QED  BY <1>13, <1>16 DEF minutes, seconds

-----------------------------------------------------------------------------
(***************************************************************************)
(* SeedDerivation: what the database compares, texts.                      *)
(***************************************************************************)
\* A text, part by part.
LEMMA TextParts ==
    ASSUME NEW s
    PROVE  /\ DOMAIN Text(s) = 1..4
           /\ Text(s)[1] = Day(s.at) /\ Text(s)[2] = Formats[s.format][1]
           /\ Text(s)[3] = (IF s.format = "date" THEN 0 ELSE s.at % SecondsPerDay)
           /\ Text(s)[4] = Formats[s.format][2]
BY DEF Text

\* The comparison of two texts, without the index.
LEMMA LessParts ==
    ASSUME NEW a, NEW b
    PROVE  Less(a, b) <=>
             \/ Text(a)[1] < Text(b)[1]
             \/ /\ Text(a)[1] = Text(b)[1]
                /\ \/ Text(a)[2] < Text(b)[2]
                   \/ /\ Text(a)[2] = Text(b)[2]
                      /\ \/ Text(a)[3] < Text(b)[3]
                         \/ Text(a)[3] = Text(b)[3] /\ Text(a)[4] < Text(b)[4]
<1>1. Less(a, b) <=> \E i \in 1..4 : /\ Text(a)[i] < Text(b)[i]
                                     /\ \A j \in 1..(i - 1) : Text(a)[j] = Text(b)[j]
  BY TextParts DEF Less
<1> DEFINE T(i) == Text(a)[i] < Text(b)[i] /\ \A j \in 1..(i - 1) : Text(a)[j] = Text(b)[j]
<1>2. T(1) <=> Text(a)[1] < Text(b)[1]
  OBVIOUS
<1>3. T(2) <=> Text(a)[2] < Text(b)[2] /\ Text(a)[1] = Text(b)[1]
  OBVIOUS
<1>4. T(3) <=> Text(a)[3] < Text(b)[3] /\ Text(a)[1] = Text(b)[1] /\ Text(a)[2] = Text(b)[2]
  OBVIOUS
<1>5. T(4) <=> /\ Text(a)[4] < Text(b)[4] /\ Text(a)[1] = Text(b)[1] /\ Text(a)[2] = Text(b)[2]
               /\ Text(a)[3] = Text(b)[3]
  OBVIOUS
<1>6. (\E i \in 1..4 : T(i)) <=> T(1) \/ T(2) \/ T(3) \/ T(4)
  <2> HIDE DEF T
  <2>1. 1..4 = {1, 2, 3, 4}
    OBVIOUS
  <2> QED  BY <2>1
<1> HIDE DEF T
<1>7. Less(a, b) <=> \E i \in 1..4 : T(i)
  BY <1>1 DEF T
<1> QED  BY <1>2, <1>3, <1>4, <1>5, <1>6, <1>7

\* Two texts of one format are ordered as their times are.
LEMMA SameFormatOrder ==
    ASSUME NEW t \in Nat, NEW u \in Nat, NEW format \in {"fixture", "sqlite"}
    PROVE  Less(Stamp(t, format), Stamp(u, format)) <=> t < u
<1>1. Less(Stamp(t, format), Stamp(u, format)) <=>
        \/ Day(t) < Day(u)
        \/ Day(t) = Day(u) /\ t % SecondsPerDay < u % SecondsPerDay
  <2> DEFINE a == Stamp(t, format)
             b == Stamp(u, format)
  <2>1. a.at = t /\ a.format = format /\ b.at = u /\ b.format = format
    BY DEF Stamp
  <2> HIDE DEF a, b
  <2>2. Text(a)[2] = Text(b)[2] /\ Text(a)[4] = Text(b)[4]
    BY <2>1, TextParts
  <2>3. ~(Text(a)[2] < Text(b)[2]) /\ ~(Text(a)[4] < Text(b)[4])
    BY <2>1, TextParts DEF Formats, LetterT, LetterZ, Space, End
  <2>4. /\ Text(a)[1] = Day(t) /\ Text(b)[1] = Day(u)
        /\ Text(a)[3] = t % SecondsPerDay /\ Text(b)[3] = u % SecondsPerDay
    BY <2>1, TextParts
  <2>5. Less(a, b) <=> \/ Day(t) < Day(u)
                       \/ Day(t) = Day(u) /\ t % SecondsPerDay < u % SecondsPerDay
    BY <2>2, <2>3, <2>4, LessParts
  <2> QED  BY <2>5 DEF a, b
<1> QED  BY <1>1, EarlierTime

-----------------------------------------------------------------------------
(***************************************************************************)
(* SeedDerivation: the order of the notes and the filters of the incidents.*)
(***************************************************************************)
\* What the fixtures promise of an interaction.
LEMMA Interaction ==
    ASSUME NEW t \in Tickets, NEW i \in DOMAIN t.interactions
    PROVE  /\ t.interactions[i].at \in Nat /\ t.opened <= t.interactions[i].at
           /\ t.interactions[i].actor \in {"customer", "agent", "portal"}
<1> DEFINE s == t.interactions
           T == [at : Nat, actor : {"customer", "agent", "portal"}]
<1>1. s \in Seq(T) /\ i \in DOMAIN s /\ t.opened <= s[i].at
  BY TicketsAssumption
<1> HIDE DEF s, T
<1>2. s[i] \in T
  BY <1>1
<1> QED  BY <1>1, <1>2 DEF s, T

\* The seed writes its notes in one format, and the database those of clients in
\* another (seed.py 169, 196, 236; db.py 113).
NotesStamped ==
    /\ ticket \in Tickets
    /\ \A n \in notes :
         /\ n.created.at \in Nat
         /\ n.created = Stamp(n.created.at, IF n.by = "client" THEN "sqlite" ELSE "fixture")

LEMMA StampFields ==
    ASSUME NEW t, NEW format
    PROVE  Stamp(t, format).at = t /\ Stamp(t, format).format = format
BY DEF Stamp

LEMMA NoteFields ==
    ASSUME NEW created, NEW by
    PROVE  Note(created, by).created = created /\ Note(created, by).by = by
BY DEF Note

\* Every step keeps one format for each source of notes.
LEMMA NotesStampedStep == NotesStamped /\ [DerivationNext]_derivationVars => NotesStamped'
<1> SUFFICES ASSUME NotesStamped, [DerivationNext]_derivationVars PROVE NotesStamped'
  OBVIOUS
<1>1. ticket' = ticket /\ ticket \in Tickets
  BY DEF NotesStamped, DerivationNext, derivationVars, SeedHistorical, SeedNarrative, PostIncident, Derive, PostNote
<1>2. CASE UNCHANGED notes
  BY <1>1, <1>2 DEF NotesStamped
<1>3. ASSUME NEW t \in Nat, NEW by, by # "client", NEW n, n = Note(Stamp(t, "fixture"), by)
      PROVE  /\ n.created.at \in Nat
             /\ n.created = Stamp(n.created.at, IF n.by = "client" THEN "sqlite" ELSE "fixture")
  BY <1>3, StampFields, NoteFields
<1>4. CASE SeedHistorical
  <2>1. \A i \in DOMAIN ticket.interactions :
          ticket.interactions[i].at \in Nat /\ ticket.interactions[i].actor # "client"
    BY <1>1, Interaction
  <2>2. notes' = {Note(Stamp(ticket.interactions[i].at, "fixture"), ticket.interactions[i].actor) :
                    i \in DOMAIN ticket.interactions}
    BY <1>4 DEF SeedHistorical
  <2> QED  BY <1>1, <1>3, <2>1, <2>2 DEF NotesStamped
<1>5. CASE SeedNarrative
  <2>1. ticket.opened \in Nat /\ AddMinutes(ticket.opened, ReplyMinutes) \in Nat
    <3>1. ReplyMinutes * SecondsPerMinute \in Nat
      BY DerivationAssumption
    <3>2. ticket.opened \in Nat
      BY <1>1, TicketsAssumption
    <3> QED  BY <3>1, <3>2 DEF AddMinutes
  <2>2. notes' = {Note(Stamp(ticket.opened, "fixture"), "customer"),
                  Note(Stamp(AddMinutes(ticket.opened, ReplyMinutes), "fixture"), "agent")}
    BY <1>5 DEF SeedNarrative
  <2> QED  BY <1>1, <1>3, <2>1, <2>2 DEF NotesStamped
<1>6. ASSUME NEW t \in Times, PostNote(t) PROVE NotesStamped'
  <2>1. t \in Nat
    BY DerivationAssumption
  <2>2. notes' = notes \cup {Note(Stamp(t, "sqlite"), "client")}
    BY <1>6 DEF PostNote, NoteStamp
  <2>3. ASSUME NEW n, n = Note(Stamp(t, "sqlite"), "client")
        PROVE  n.created.at \in Nat /\ n.by = "client" /\ n.created = Stamp(n.created.at, "sqlite")
    BY <2>1, <2>3, StampFields, NoteFields
  <2> QED  BY <1>1, <2>2, <2>3 DEF NotesStamped
<1> QED
  BY <1>1, <1>2, <1>4, <1>5, <1>6 DEF DerivationNext, derivationVars, PostIncident, Derive

\* Of two notes of different days the earlier is listed first, and so it is of two
\* of one source; of one day a space comes before a "T".
LEMMA StampedNotesAreOrdered == NotesStamped => OnlyClientsNotesAreEarly
<1> SUFFICES ASSUME NotesStamped, NEW m \in notes, NEW n \in notes,
                    m.created.at < n.created.at, ~Less(m.created, n.created)
             PROVE  /\ m.by # "client" /\ n.by = "client"
                    /\ Day(m.created.at) = Day(n.created.at)
  BY DEF OnlyClientsNotesAreEarly, ListedBefore
<1>1. /\ m.created.at \in Nat /\ n.created.at \in Nat
      /\ m.created = Stamp(m.created.at, IF m.by = "client" THEN "sqlite" ELSE "fixture")
      /\ n.created = Stamp(n.created.at, IF n.by = "client" THEN "sqlite" ELSE "fixture")
  BY DEF NotesStamped
<1>2. ~(m.by = "client" <=> n.by = "client")
  <2> SUFFICES ASSUME m.by = "client" <=> n.by = "client" PROVE Less(m.created, n.created)
    OBVIOUS
  <2>1. PICK format \in {"fixture", "sqlite"} :
          m.created = Stamp(m.created.at, format) /\ n.created = Stamp(n.created.at, format)
    BY <1>1
  <2> QED  BY <1>1, <2>1, SameFormatOrder
<1>3. /\ Day(m.created.at) <= Day(n.created.at)
      /\ Day(m.created.at) \in Nat /\ Day(n.created.at) \in Nat
  BY <1>1, EarlierTime, DayType
<1>4. ~(Day(m.created.at) < Day(n.created.at))
  BY TextParts, LessParts
<1>5. Day(m.created.at) = Day(n.created.at)
  BY <1>3, <1>4
<1>6. ~(m.by = "client")
  <2> SUFFICES ASSUME m.by = "client", n.by # "client" PROVE Less(m.created, n.created)
    BY <1>2
  <2>1. m.created.format = "sqlite" /\ n.created.format = "fixture"
    BY <1>1, StampFields
  <2>2. Text(m.created)[2] < Text(n.created)[2]
    BY <2>1, TextParts DEF Formats, Space, LetterT
  <2> QED  BY <1>5, <2>2, TextParts, LessParts
<1> QED  BY <1>2, <1>5, <1>6

\* OnlyClientsNotesAreEarly: a note is listed before an earlier one only if it is a
\* client's, and the earlier one the seed's, of the same day (work_notes.py 49,
\* db.py 113, seed.py 236), for any tickets, times and number of notes.
THEOREM NotesMisplacedAtMost == DerivationSpec => []OnlyClientsNotesAreEarly
<1>1. DerivationInit => NotesStamped
  BY DEF DerivationInit, NotesStamped
<1> QED  BY <1>1, NotesStampedStep, StampedNotesAreOrdered, PTL DEF DerivationSpec

\* The invariant of the filters: what is stored as opened_at has a "T" after its
\* date (the fixtures, and isoformat() of incidents.py 127), so that a bound may be of any format.
OpenedStamped ==
    \A row \in incident :
        row.opened.at \in Nat /\ row.opened.format \in {"fixture", "micros", "whole"}

\* Every step keeps the ticket a fixture and the "T".
LEMMA OpenedStampedStep ==
    ticket \in Tickets /\ OpenedStamped /\ [DerivationNext]_derivationVars
        => ticket' \in Tickets /\ OpenedStamped'
<1> SUFFICES ASSUME ticket \in Tickets, OpenedStamped, [DerivationNext]_derivationVars
             PROVE  ticket' \in Tickets /\ OpenedStamped'
  OBVIOUS
<1>1. ticket.opened \in Nat
  BY TicketsAssumption
<1>2. \A format : Stamp(ticket.opened, format).at = ticket.opened
                  /\ Stamp(ticket.opened, format).format = format
  BY DEF Stamp
<1>3. CASE UNCHANGED <<ticket, incident>>
  BY <1>3 DEF OpenedStamped
<1>4. ASSUME UNCHANGED ticket,
             \A row \in incident' : \E format \in {"fixture", "micros", "whole"} :
                 row.opened = Stamp(ticket.opened, format)
      PROVE  ticket' \in Tickets /\ OpenedStamped'
  BY <1>1, <1>2, <1>4 DEF OpenedStamped
<1>5. CASE SeedHistorical
  BY <1>4, <1>5 DEF SeedHistorical
<1>6. CASE SeedNarrative
  BY <1>4, <1>6 DEF SeedNarrative
<1>7. CASE PostIncident
  BY <1>4, <1>7 DEF PostIncident, PostedFormats
<1> QED
  BY <1>3, <1>5, <1>6, <1>7 DEF DerivationNext, derivationVars, Derive, PostNote

\* What follows the date: a "T", unless the text is a date only.
LEMMA Separators ==
    /\ Formats["date"][1] = End
    /\ \A format \in {"fixture", "micros", "whole", "naive"} : Formats[format][1] = LetterT
BY DEF Formats

\* A time with a "T" is compared with a bound as the instant of the bound is.
LEMMA BoundCompared ==
    ASSUME NEW a, a.at \in Nat, a.format \in {"fixture", "micros", "whole"},
           NEW b, b.at \in Nat, b.format \in {"date", "naive", "whole", "micros", "fixture"},
           a.at # Instant(b)
    PROVE  Less(a, b) <=> a.at < Instant(b)
<1>1. Text(a)[2] = LetterT /\ Text(a)[3] = a.at % SecondsPerDay
  BY TextParts, Separators
<1>2. Text(a)[1] = Day(a.at) /\ Text(b)[1] = Day(b.at)
  BY TextParts
<1>3. CASE b.format = "date"
  <2>1. Text(b)[2] = End /\ Instant(b) = Day(b.at) * SecondsPerDay
    BY <1>3, TextParts, Separators DEF Instant
  <2>2. Less(a, b) <=> Day(a.at) < Day(b.at)
    <3>1. ~(Text(a)[2] < Text(b)[2]) /\ Text(a)[2] # Text(b)[2]
      BY <1>1, <2>1 DEF LetterT, End
    <3> QED  BY <1>2, <3>1, LessParts
  <2>3. Day(a.at) < Day(b.at) <=> a.at < SecondsPerDay * Day(b.at)
    <3>1. SecondsPerDay \in Nat \ {0} /\ Day(b.at) \in Int
      BY DayType, DayLength
    <3> QED  BY <3>1, DivBound DEF Day
  <2>4. SecondsPerDay * Day(b.at) = Day(b.at) * SecondsPerDay
    <3>1. SecondsPerDay \in Int /\ Day(b.at) \in Int
      BY DayType, DayLength
    <3> QED  BY <3>1
  <2> QED  BY <2>1, <2>2, <2>3, <2>4
<1>4. CASE b.format # "date"
  <2>1. Text(b)[2] = LetterT /\ Text(b)[3] = b.at % SecondsPerDay /\ Instant(b) = b.at
    BY <1>4, TextParts, Separators DEF Instant
  <2>2. a.at < b.at <=>
          \/ Day(a.at) < Day(b.at)
          \/ Day(a.at) = Day(b.at) /\ a.at % SecondsPerDay < b.at % SecondsPerDay
    BY EarlierTime
  <2>3. Day(a.at) # Day(b.at) \/ a.at % SecondsPerDay # b.at % SecondsPerDay
    BY <2>1, DayType
  <2>4. ~(LetterT < LetterT)
    BY DEF LetterT
  <2>5. Less(a, b) <=>
          \/ Day(a.at) < Day(b.at)
          \/ Day(a.at) = Day(b.at) /\ a.at % SecondsPerDay < b.at % SecondsPerDay
    BY <1>1, <1>2, <2>1, <2>3, <2>4, LessParts
  <2> QED  BY <2>1, <2>2, <2>5
<1> QED  BY <1>3, <1>4

\* The instant of a bound is a time.
LEMMA InstantType ==
    ASSUME NEW b, b.at \in Nat
    PROVE  Instant(b) \in Nat
<1>1. Day(b.at) * SecondsPerDay \in Nat
  <2>1. Day(b.at) \in Nat /\ SecondsPerDay \in Nat
    BY DayType, DayLength
  <2> QED  BY <2>1
<1> QED  BY <1>1 DEF Instant

\* FilterToTheSecond follows from the "T" alone.
LEMMA FilterExact == OpenedStamped => FilterToTheSecond
<1> SUFFICES ASSUME OpenedStamped, NEW row \in incident, NEW t \in Times,
                    NEW format \in {"date", "naive", "whole", "micros", "fixture"}
             PROVE  OpenedAfter(row, Stamp(t, format)) # (row.opened.at >= Instant(Stamp(t, format))) =>
                        row.opened.at = Instant(Stamp(t, format))
  BY DEF FilterToTheSecond
<1> SUFFICES ASSUME row.opened.at # Instant(Stamp(t, format))
             PROVE  OpenedAfter(row, Stamp(t, format)) = (row.opened.at >= Instant(Stamp(t, format)))
  BY Zenon
<1> DEFINE b == Stamp(t, format)
<1>1. b.at \in Nat /\ b.format \in {"date", "naive", "whole", "micros", "fixture"}
  BY DerivationAssumption DEF Stamp
<1>2. row.opened.at \in Nat /\ row.opened.format \in {"fixture", "micros", "whole"}
  BY DEF OpenedStamped
<1>3. row.opened.at # Instant(b)
  OBVIOUS
<1> HIDE DEF b
<1>4. Less(row.opened, b) <=> row.opened.at < Instant(b)
  BY <1>1, <1>2, <1>3, BoundCompared
<1>5. row.opened.at < Instant(b) <=> ~(row.opened.at >= Instant(b))
  BY <1>1, <1>2, InstantType
<1>6. OpenedAfter(row, b) = (row.opened.at >= Instant(b))
  BY <1>4, <1>5 DEF OpenedAfter
<1> QED  BY <1>6 DEF b

\* FilterToTheSecond: opened_after keeps the incidents opened at its bound or
\* later, and errs in the second of the bound at most, though what SQLite compares
\* are the texts (incidents.py 89-94).
THEOREM FiltersAreExact == DerivationSpec => []FilterToTheSecond
<1> DEFINE I == ticket \in Tickets /\ OpenedStamped
<1>1. DerivationInit => I
  BY DEF DerivationInit, OpenedStamped
<1>2. I /\ [DerivationNext]_derivationVars => I'
  BY OpenedStampedStep
<1> QED  BY <1>1, <1>2, FilterExact, PTL DEF DerivationSpec

-----------------------------------------------------------------------------
(***************************************************************************)
(* SeedDerivation: the SLA records of a ticket.                            *)
(***************************************************************************)
\* What RecordsTellTheTime says of one record.
Tells(r, seconds, slack) ==
    /\ r.actual = {} <=> seconds = {}
    /\ \A minutes \in r.actual, s \in seconds :
         /\ minutes * SecondsPerMinute <= s
         /\ s < (minutes + slack) * SecondsPerMinute
         /\ IF r.breached THEN s > r.target * SecondsPerMinute
            ELSE s < (r.target + slack) * SecondsPerMinute

\* A target is missed by the seconds if it is by the minutes, and nearly the
\* other way round.
LEMMA TargetMissed ==
    ASSUME NEW minutes \in Nat, NEW s \in Nat, NEW slack \in Nat, NEW target \in Nat,
           minutes * SecondsPerMinute <= s, s < (minutes + slack) * SecondsPerMinute
    PROVE  IF minutes > target THEN s > target * SecondsPerMinute
           ELSE s < (target + slack) * SecondsPerMinute
<1>0. SecondsPerMinute \in Nat \ {0}
  BY DerivationAssumption
<1>1. CASE minutes > target
  <2>1. SecondsPerMinute * (target + 1) <= SecondsPerMinute * minutes
    BY <1>0, <1>1, TimesMono
  <2>2. target * SecondsPerMinute < SecondsPerMinute * (target + 1)
        /\ target * SecondsPerMinute \in Nat /\ SecondsPerMinute * (target + 1) \in Nat
    BY <1>0
  <2>3. SecondsPerMinute * minutes = minutes * SecondsPerMinute /\ minutes * SecondsPerMinute \in Nat
    BY <1>0
  <2> QED  BY <1>1, <2>1, <2>2, <2>3
<1>2. CASE ~(minutes > target)
  <2>1. SecondsPerMinute * (minutes + slack) <= SecondsPerMinute * (target + slack)
    BY <1>0, <1>2, TimesMono
  <2>2. /\ SecondsPerMinute * (minutes + slack) = (minutes + slack) * SecondsPerMinute
        /\ SecondsPerMinute * (target + slack) = (target + slack) * SecondsPerMinute
        /\ (minutes + slack) * SecondsPerMinute \in Nat /\ (target + slack) * SecondsPerMinute \in Nat
    BY <1>0
  <2> QED  BY <1>2, <2>1, <2>2
<1> QED  BY <1>1, <1>2

\* A record whose minutes tell the seconds says of the target what it should.
LEMMA RecordTells ==
    ASSUME NEW definition, NEW target \in Nat, NEW slack \in Nat, NEW actual, NEW seconds,
           actual = {} <=> seconds = {},
           \A m, n \in actual : m = n,
           \A minutes \in actual, s \in seconds :
               /\ minutes \in Nat /\ s \in Nat
               /\ minutes * SecondsPerMinute <= s /\ s < (minutes + slack) * SecondsPerMinute
    PROVE  Tells(Record(definition, target, actual), seconds, slack)
<1> DEFINE missed == \E minutes \in actual : minutes > target
           r == Record(definition, target, actual)
<1>1. r.actual = actual /\ r.target = target
  BY DEF Record
<1>2. r.breached <=> missed
  BY Zenon DEF Record
<1> HIDE DEF r
<1>3. ASSUME NEW minutes \in actual, NEW s \in seconds
      PROVE  IF r.breached THEN s > target * SecondsPerMinute ELSE s < (target + slack) * SecondsPerMinute
  <2>1. missed <=> minutes > target
    OBVIOUS
  <2>2. IF minutes > target THEN s > target * SecondsPerMinute ELSE s < (target + slack) * SecondsPerMinute
    BY TargetMissed
  <2> HIDE DEF missed
  <2> QED  BY <1>2, <2>1, <2>2
<1>4. Tells(r, seconds, slack)
  BY <1>1, <1>3 DEF Tells
<1> QED  BY <1>4 DEF r

\* When somebody of who wrote.
Wrote(t, who) ==
    {t.interactions[i].at : i \in {j \in DOMAIN t.interactions : t.interactions[j].actor \in who}}

\* Nobody writes before the ticket is opened.
LEMMA WroteType ==
    ASSUME NEW t \in Tickets, NEW who
    PROVE  \A u \in Wrote(t, who) : u \in Nat /\ t.opened <= u
<1>2. \A i \in DOMAIN t.interactions : t.interactions[i].at \in Nat /\ t.opened <= t.interactions[i].at
  BY Interaction
<1>3. \A u \in Wrote(t, who) : \E i \in DOMAIN t.interactions : u = t.interactions[i].at
  BY Zenon DEF Wrote
<1> QED  BY <1>2, <1>3

\* When a ticket is answered and resolved, by the writers.
LEMMA Ends ==
    /\ ticket.origin = "narrative" =>
         \A definition : EndsOf(definition) = {AddMinutes(ticket.opened, ReplyMinutes)}
    /\ ticket.origin # "narrative" =>
         /\ EndsOf("first_response") =
               {t \in Wrote(ticket, {"agent", "portal"}) : \A u \in Wrote(ticket, {"agent", "portal"}) : t <= u}
         /\ EndsOf("resolution") =
               {t \in Wrote(ticket, {"agent", "portal", "customer"}) :
                   \A u \in Wrote(ticket, {"agent", "portal", "customer"}) : t <= u => t = u}
BY Zenon DEF EndsOf, Wrote

\* There is at most one end, and it is not before the ticket is opened.
LEMMA OneEnd ==
    ASSUME ticket \in Tickets, NEW definition \in {"first_response", "resolution"}
    PROVE  /\ \A t \in EndsOf(definition) : t \in Nat /\ ticket.opened <= t
           /\ \A t, u \in EndsOf(definition) : t = u
<1>1. CASE ticket.origin = "narrative"
  <2>1. ticket.opened \in Nat /\ ReplyMinutes * SecondsPerMinute \in Nat
    BY TicketsAssumption, DerivationAssumption
  <2>2. AddMinutes(ticket.opened, ReplyMinutes) \in Nat
        /\ ticket.opened <= AddMinutes(ticket.opened, ReplyMinutes)
    BY <2>1 DEF AddMinutes
  <2> QED  BY <1>1, <2>2, Ends
<1>2. CASE ticket.origin # "narrative" /\ definition = "first_response"
  <2>1. \A t \in Wrote(ticket, {"agent", "portal"}) : t \in Nat /\ ticket.opened <= t
    BY WroteType
  <2> QED  BY <1>2, <2>1, Ends
<1>3. CASE ticket.origin # "narrative" /\ definition = "resolution"
  <2>1. \A t \in Wrote(ticket, {"agent", "portal", "customer"}) : t \in Nat /\ ticket.opened <= t
    BY WroteType
  <2>2. \A t, u \in Nat : t <= u \/ u <= t
    OBVIOUS
  <2> QED  BY <1>3, <2>1, <2>2, Ends
<1> QED  BY <1>1, <1>2, <1>3

\* All the seconds count of a first response.
LEMMA CountedResponse ==
    ASSUME NEW end \in Nat, ticket.opened \in Nat, ticket.opened <= end
    PROVE  Counted("first_response", end) = end - ticket.opened
<1>1. {t \in ticket.opened..(end - 1) : "first_response" = "resolution" => InBusiness(t)}
        = ticket.opened..(end - 1)
  OBVIOUS
<1>2. Cardinality(ticket.opened..(end - 1)) = end - ticket.opened
  <2> DEFINE a == ticket.opened
             b == end - 1
  <2>1. a \in Int /\ b \in Int /\ a <= b + 1 /\ end = b + 1
    OBVIOUS
  <2> HIDE DEF a, b
  <2>2. Cardinality(a..b) = b - a + 1
    <3>1. Cardinality(a..b) = IF a > b THEN 0 ELSE b - a + 1
      BY <2>1, FS_Interval
    <3> QED  BY <2>1, <3>1
  <2>3. b - a + 1 = end - a
    BY <2>1
  <2> QED  BY <2>2, <2>3 DEF a, b
<1> QED  BY <1>1, <1>2 DEF Counted

\* The notes that the seed writes of a ticket.
SeededNotes(t) ==
    IF t.origin = "historical"
    THEN {Note(Stamp(t.interactions[i].at, "fixture"), t.interactions[i].actor) : i \in DOMAIN t.interactions}
    ELSE {Note(Stamp(t.opened, "fixture"), "customer"),
          Note(Stamp(AddMinutes(t.opened, ReplyMinutes), "fixture"), "agent")}

\* The parts of a timestamp and of a note.
\* When somebody else than the customer wrote, by the notes and by the ticket.
LEMMA Replies ==
    ASSUME ticket \in Tickets, ticket.origin # "posted", notes = SeededNotes(ticket)
    PROVE  /\ \A n \in notes : n.created.at \in Nat /\ n.created = Stamp(n.created.at, "fixture")
           /\ {n.created.at : n \in {m \in notes : m.by # "customer"}} =
                IF ticket.origin = "historical" THEN Wrote(ticket, {"agent", "portal"})
                ELSE {AddMinutes(ticket.opened, ReplyMinutes)}
<1>1. CASE ticket.origin = "historical"
  <2> DEFINE N(i) == Note(Stamp(ticket.interactions[i].at, "fixture"), ticket.interactions[i].actor)
  <2>1. /\ \A n \in notes : \E i \in DOMAIN ticket.interactions : n = N(i)
        /\ \A i \in DOMAIN ticket.interactions : N(i) \in notes
    BY <1>1 DEF SeededNotes
  <2>2. \A i \in DOMAIN ticket.interactions :
          /\ N(i).created = Stamp(ticket.interactions[i].at, "fixture")
          /\ N(i).created.at = ticket.interactions[i].at
          /\ N(i).by = ticket.interactions[i].actor
    BY StampFields, NoteFields
  <2>3. \A i \in DOMAIN ticket.interactions :
          /\ ticket.interactions[i].at \in Nat
          /\ ticket.interactions[i].actor \in {"customer", "agent", "portal"}
    BY Interaction
  <2> HIDE DEF N
  <2>4. \A n \in notes : n.created.at \in Nat /\ n.created = Stamp(n.created.at, "fixture")
    BY <2>1, <2>2, <2>3
  <2>5. \A i \in DOMAIN ticket.interactions :
          N(i).by # "customer" <=> ticket.interactions[i].actor \in {"agent", "portal"}
    BY <2>2, <2>3
  <2>6. ASSUME NEW t
        PROVE  t \in {n.created.at : n \in {m \in notes : m.by # "customer"}} <=> t \in Wrote(ticket, {"agent", "portal"})
    <3>1. t \in {n.created.at : n \in {m \in notes : m.by # "customer"}} <=>
            \E i \in DOMAIN ticket.interactions : t = N(i).created.at /\ N(i).by # "customer"
      BY <2>1
    <3>2. t \in Wrote(ticket, {"agent", "portal"}) <=>
            \E i \in DOMAIN ticket.interactions :
                t = ticket.interactions[i].at /\ ticket.interactions[i].actor \in {"agent", "portal"}
      BY Zenon DEF Wrote
    <3> QED  BY <3>1, <3>2, <2>2, <2>5
  <2> QED  BY <1>1, <2>4, <2>6
<1>2. CASE ticket.origin # "historical"
  <2> DEFINE first == Note(Stamp(ticket.opened, "fixture"), "customer")
             reply == AddMinutes(ticket.opened, ReplyMinutes)
             second == Note(Stamp(reply, "fixture"), "agent")
  <2>1. notes = {first, second}
    BY <1>2 DEF SeededNotes
  <2>2. /\ first.created = Stamp(ticket.opened, "fixture") /\ first.created.at = ticket.opened
        /\ first.by = "customer"
        /\ second.created = Stamp(reply, "fixture") /\ second.created.at = reply /\ second.by = "agent"
    BY StampFields, NoteFields
  <2>3. ticket.opened \in Nat /\ reply \in Nat
    <3>1. ticket.opened \in Nat /\ ReplyMinutes * SecondsPerMinute \in Nat
      BY TicketsAssumption, DerivationAssumption
    <3> QED  BY <3>1 DEF AddMinutes
  <2> HIDE DEF first, second, reply
  <2>4. {m \in notes : m.by # "customer"} = {second}
    BY <2>1, <2>2
  <2> QED  BY <1>2, <2>1, <2>2, <2>3, <2>4 DEF reply
<1> QED  BY <1>1, <1>2

\* The first responses are at the end of the first response.
LEMMA ResponsesEnd ==
    ASSUME ticket \in Tickets, ticket.origin # "posted", notes = SeededNotes(ticket)
    PROVE  /\ \A n \in FirstResponses : n.created.at \in EndsOf("first_response")
           /\ \A t \in EndsOf("first_response") : \E n \in FirstResponses : n.created.at = t
<1> DEFINE others == {m \in notes : m.by # "customer"}
           R == {n.created.at : n \in others}
<1>1. \A n \in notes : n.created.at \in Nat /\ n.created = Stamp(n.created.at, "fixture")
  BY Replies
<1>2. R = IF ticket.origin = "historical" THEN Wrote(ticket, {"agent", "portal"})
          ELSE {AddMinutes(ticket.opened, ReplyMinutes)}
  BY Replies
<1>3. EndsOf("first_response") = {t \in R : \A u \in R : t <= u}
  <2>1. CASE ticket.origin = "historical"
    BY <1>2, <2>1, Ends
  <2>2. CASE ticket.origin = "narrative"
    <3> DEFINE reply == AddMinutes(ticket.opened, ReplyMinutes)
    <3>1. reply \in Nat
      BY <1>1, <1>2, <2>2
    <3> HIDE DEF reply
    <3>2. R = {reply} /\ EndsOf("first_response") = {reply}
      BY <1>2, <2>2, Ends DEF reply
    <3> QED  BY <3>1, <3>2
  <2> QED  BY <2>1, <2>2, TicketsAssumption
<1>4. \A m, n \in others : Less(m.created, n.created) <=> m.created.at < n.created.at
  BY <1>1, SameFormatOrder
<1>5. FirstResponses = {n \in others : \A m \in others : ~(m.created.at < n.created.at)}
  BY <1>4 DEF FirstResponses
<1>6. \A m, n \in others : ~(m.created.at < n.created.at) <=> n.created.at <= m.created.at
  BY <1>1
<1>7. FirstResponses = {n \in others : \A u \in R : n.created.at <= u}
  BY <1>5, <1>6
<1> HIDE DEF others
<1> QED  BY <1>3, <1>7

\* The seconds that count for a record, from the opening to each end.
CountedSeconds(definition) == {Counted(definition, end) : end \in EndsOf(definition)}

\* The record of the first response tells the time.
LEMMA ResponseTells ==
    ASSUME ticket \in Tickets, ticket.origin # "posted", notes = SeededNotes(ticket),
           NEW row, row.opened = Stamp(ticket.opened, "fixture"), NEW target \in Nat
    PROVE  Tells(Record("first_response", target,
                        {WallClockMinutes(row.opened, n.created) : n \in FirstResponses}),
                 CountedSeconds("first_response"), 1)
<1> DEFINE E == EndsOf("first_response")
           F == FirstResponses
           W(n) == WallClockMinutes(row.opened, n.created)
           actual == {W(n) : n \in F}
           S == SecondsPerMinute
           open == ticket.opened
<1>0. S \in Nat \ {0} /\ open \in Nat
  BY DerivationAssumption, TicketsAssumption
<1>1. \A n \in F : n.created.at \in E
  BY ResponsesEnd
<1>2. \A t \in E : \E n \in F : n.created.at = t
  BY ResponsesEnd
<1>3. \A t \in E : t \in Nat /\ open <= t
  BY OneEnd
<1>4. \A t, u \in E : t = u
  BY OneEnd
<1>5. \A n \in F : W(n) = (n.created.at - open) \div S
  BY StampFields DEF WallClockMinutes
<1>6. \A t \in E : Counted("first_response", t) = t - open
  BY <1>0, <1>3, CountedResponse
<1>7. \A s \in CountedSeconds("first_response") : \E t \in E : s = t - open
  BY <1>6 DEF CountedSeconds
<1>8. actual = {} <=> CountedSeconds("first_response") = {}
  <2> HIDE DEF E, F, W
  <2>1. actual = {} <=> F = {}
    OBVIOUS
  <2>2. CountedSeconds("first_response") = {} <=> E = {}
    BY DEF CountedSeconds, E
  <2> QED  BY <2>1, <2>2, <1>1, <1>2
<1> HIDE DEF E, F, W
<1>9. \A m, n \in actual : m = n
  <2>1. \A m, n \in F : m.created.at = n.created.at
    BY <1>1, <1>4
  <2>2. \A m, n \in F : W(m) = W(n)
    BY <1>5, <2>1
  <2> QED  BY <2>2
<1>10. ASSUME NEW minutes \in actual, NEW s \in CountedSeconds("first_response")
       PROVE  /\ minutes \in Nat /\ s \in Nat
              /\ minutes * S <= s /\ s < (minutes + 1) * S
  <2>1. PICK n \in F : minutes = (n.created.at - open) \div S
    BY <1>5
  <2>2. PICK t \in E : s = t - open
    BY <1>7
  <2>3. n.created.at = t
    BY <1>1, <1>4
  <2>4. s \in Nat /\ minutes = s \div S
    BY <1>0, <1>3, <2>1, <2>2, <2>3
  <2>5. minutes \in Nat
    BY <1>0, <2>4, DivMod
  <2>6. S * minutes <= s /\ s < S * (minutes + 1)
    BY <1>0, <2>4, <2>5, DivBound
  <2>7. S * minutes = minutes * S /\ S * (minutes + 1) = (minutes + 1) * S
    BY <1>0, <2>5
  <2> QED  BY <2>4, <2>5, <2>6, <2>7
<1> HIDE DEF actual
<1>11. Tells(Record("first_response", target, actual), CountedSeconds("first_response"), 1)
  BY <1>8, <1>9, <1>10, RecordTells
<1> QED  BY <1>11 DEF actual, W, F

\* Of the interactions of a ticket one is the last.
LEMMA LastInteraction ==
    ASSUME NEW t \in Tickets, t.interactions # <<>>
    PROVE  \E i \in DOMAIN t.interactions : \A j \in DOMAIN t.interactions :
               t.interactions[j].at <= t.interactions[i].at
<1> DEFINE s == t.interactions
           N == Len(s)
           Latest(n) == \E i \in 1..n : \A j \in 1..n : s[j].at <= s[i].at
           P == {n \in Nat : n + 1 <= N => Latest(n + 1)}
<1>1. N \in Nat /\ DOMAIN s = 1..N /\ N # 0
  <2> DEFINE T == [at : Nat, actor : {"customer", "agent", "portal"}]
  <2>1. s \in Seq(T) /\ s # <<>>
    BY TicketsAssumption
  <2> HIDE DEF s, T
  <2> QED  BY <2>1
<1>2. \A i \in 1..N : s[i].at \in Nat
  BY <1>1, Interaction
<1> HIDE DEF s, N
<1>3. 0 \in P
  BY <1>1, <1>2
<1>4. ASSUME NEW n \in Nat, n \in P PROVE n + 1 \in P
  <2> SUFFICES ASSUME n + 2 <= N PROVE Latest(n + 2)
    <3>1. (n + 1) + 1 = n + 2 /\ n + 1 \in Nat
      OBVIOUS
    <3> HIDE DEF Latest
    <3> QED  BY <3>1
  <2>1. PICK i \in 1..(n + 1) : \A j \in 1..(n + 1) : s[j].at <= s[i].at
    BY <1>1, <1>4
  <2>2. s[i].at \in Nat /\ s[n + 2].at \in Nat
    BY <1>1, <1>2
  <2>3. \A j \in 1..(n + 2) : j \in 1..(n + 1) \/ j = n + 2
    OBVIOUS
  <2>4. CASE s[n + 2].at <= s[i].at
    <3>1. \A j \in 1..(n + 2) : s[j].at <= s[i].at
      BY <2>1, <2>3, <2>4
    <3>2. i \in 1..(n + 2)
      OBVIOUS
    <3> QED  BY <3>1, <3>2
  <2>5. CASE s[i].at < s[n + 2].at
    <3>1. \A j \in 1..(n + 1) : s[j].at \in Nat /\ s[j].at <= s[n + 2].at
      BY <1>1, <1>2, <2>1, <2>2, <2>5
    <3>2. \A j \in 1..(n + 2) : s[j].at <= s[n + 2].at
      BY <2>2, <2>3, <3>1
    <3> QED  BY <3>2
  <2>6. s[n + 2].at <= s[i].at \/ s[i].at < s[n + 2].at
    BY <2>2
  <2> HIDE DEF Latest
  <2> QED  BY <2>4, <2>5, <2>6
<1> HIDE DEF P
<1>5. N - 1 \in P
  BY <1>1, <1>3, <1>4, NatInSet
<1>6. \E i \in 1..N : \A j \in 1..N : s[j].at <= s[i].at
  <2> HIDE DEF Latest
  <2>1. Latest(N)
    BY <1>1, <1>5 DEF P
  <2> QED  BY <2>1 DEF Latest
<1> QED  BY <1>1, <1>6 DEF s

\* The record of the resolution tells the time.
LEMMA ResolutionTells ==
    ASSUME ticket \in Tickets, ticket.origin = "historical", ticket.interactions # <<>>,
           NEW row, row.opened = Stamp(ticket.opened, "fixture"), NEW target \in Nat
    PROVE  Tells(Record("resolution", target, {BusinessMinutes(row.opened, ResolvedAt(ticket))}),
                 CountedSeconds("resolution"), 2)
<1> DEFINE A == {ticket.interactions[i].at : i \in DOMAIN ticket.interactions}
           last == Max(A)
           minutes == BusinessMinutes(row.opened, ResolvedAt(ticket))
           actual == {minutes}
           s == Cardinality({t \in ticket.opened..(last - 1) : InBusiness(t)})
<1>1. \A t \in A : t \in Nat
  BY Interaction
<1>2. last \in A /\ \A t \in A : t <= last
  <2>1. \E t \in A : \A u \in A : u <= t
    BY LastInteraction
  <2>2. last = CHOOSE t \in A : \A u \in A : t >= u
    BY Zenon DEF Max
  <2>3. \E t \in A : \A u \in A : t >= u
    BY <1>1, <2>1
  <2> HIDE DEF A
  <2>4. last \in A /\ \A u \in A : last >= u
    BY <2>2, <2>3, Zenon
  <2> QED  BY <1>1, <2>4
<1>3. A = Wrote(ticket, {"agent", "portal", "customer"})
  <2>1. \A i \in DOMAIN ticket.interactions : ticket.interactions[i].actor \in {"agent", "portal", "customer"}
    BY Interaction
  <2>2. {j \in DOMAIN ticket.interactions : ticket.interactions[j].actor \in {"agent", "portal", "customer"}}
          = DOMAIN ticket.interactions
    BY <2>1
  <2> QED  BY <2>2 DEF Wrote
<1>4. EndsOf("resolution") = {t \in A : \A u \in A : t <= u => t = u}
  BY <1>3, Ends
<1>5. ResolvedAt(ticket) = Stamp(last, "fixture")
  BY Zenon DEF ResolvedAt
<1> HIDE DEF A, last
<1>6. EndsOf("resolution") = {last}
  <2>1. \A t \in A : (\A u \in A : t <= u => t = u) <=> t = last
    <3> SUFFICES ASSUME NEW t \in A PROVE (\A u \in A : t <= u => t = u) <=> t = last
      OBVIOUS
    <3>1. ASSUME \A u \in A : t <= u => t = u PROVE t = last
      BY <1>2, <3>1
    <3>2. ASSUME t = last PROVE \A u \in A : t <= u => t = u
      BY <1>1, <1>2, <3>2
    <3> QED  BY <3>1, <3>2
  <2> QED  BY <1>2, <1>4, <2>1
<1>7. CountedSeconds("resolution") = {s}
  <2>1. Counted("resolution", last) = s
    BY Zenon DEF Counted
  <2> QED  BY <1>6, <2>1 DEF CountedSeconds
<1>8. /\ minutes \in Nat /\ s \in Nat
      /\ minutes * SecondsPerMinute <= s /\ s < (minutes + 2) * SecondsPerMinute
  <2>1. ticket.opened \in Nat /\ last \in Nat
    BY <1>1, <1>2, TicketsAssumption
  <2>2. minutes = BusinessMinutes(Stamp(ticket.opened, "fixture"), Stamp(last, "fixture"))
    BY <1>5
  <2> HIDE DEF minutes
  <2> QED  BY <2>1, <2>2, BusinessBounds
<1> HIDE DEF minutes, s
<1>9. Tells(Record("resolution", target, actual), {s}, 2)
  <2>1. actual # {} /\ (\A m, n \in actual : m = n) /\ \A m \in actual : m = minutes
    OBVIOUS
  <2> HIDE DEF actual
  <2>2. \A m \in actual, t \in {s} :
          /\ m \in Nat /\ t \in Nat
          /\ m * SecondsPerMinute <= t /\ t < (m + 2) * SecondsPerMinute
    BY <1>8, <2>1
  <2>3. actual = {} <=> {s} = {}
    BY <2>1
  <2> QED  BY <2>1, <2>2, <2>3, RecordTells
<1> QED  BY <1>7, <1>9 DEF minutes

\* The incomplete minutes of a record: those of the first and of the last day, or
\* those of the one interval of a first response.
SlackOf(definition) == IF definition = "resolution" THEN 2 ELSE 1

\* Each record tells its seconds.
Recorded ==
    \A r \in sla : Tells(r, CountedSeconds(r.definition), SlackOf(r.definition))

\* The row and the notes that the seed has made of a ticket when it derives the
\* records.
Derivable ==
    ticket.origin # "posted" =>
        /\ \A row \in incident :
             /\ row.opened = Stamp(ticket.opened, "fixture")
             /\ row.state \in {"closed", "new", "in_progress", "on_hold"}
             /\ row.state = "closed" =>
                  /\ ticket.origin = "historical"
                  /\ row.resolved = IF ticket.interactions = <<>> THEN {} ELSE {ResolvedAt(ticket)}
        /\ incident # {} /\ sla = {} => notes = SeededNotes(ticket)

\* The invariant of the seed's derivation.
DerivationInv == ticket \in Tickets /\ OpenedStamped /\ Derivable /\ Recorded

\* Recorded is RecordsTellTheTime, one record at a time.
LEMMA RecordedSays == Recorded <=> RecordsTellTheTime
BY Zenon DEF Recorded, RecordsTellTheTime, Tells, CountedSeconds, SlackOf

\* The targets of a tier are minutes (seed.py 302-308).
LEMMA TargetTypes ==
    ASSUME NEW t \in Tickets
    PROVE  Commitments[t.tier].first_response_minutes \in Nat /\ TargetMinutes(t.tier) \in Nat
<1>1. t.tier \in DOMAIN Commitments
  BY TicketsAssumption
<1> DEFINE c == Commitments[t.tier]
<1>2. /\ c.first_response_minutes \in Nat
      /\ IF "resolution_business_hours" \in DOMAIN c THEN c.resolution_business_hours \in Nat
         ELSE c.resolution_business_days \in Nat
  BY <1>1, CommitmentsAssumption
<1>3. MinutesPerHour \in Nat /\ ClosingMinute - OpeningMinute \in Nat
  BY DerivationAssumption
<1>4. TargetMinutes(t.tier) = IF "resolution_business_hours" \in DOMAIN c
                              THEN c.resolution_business_hours * MinutesPerHour
                              ELSE c.resolution_business_days * (ClosingMinute - OpeningMinute)
  BY DEF TargetMinutes
<1> HIDE DEF c
<1>5. TargetMinutes(t.tier) \in Nat
  BY <1>2, <1>3, <1>4
<1> QED  BY <1>2, <1>5 DEF c

\* The records that Derive makes tell the time.
LEMMA DeriveRecords ==
    ASSUME ticket \in Tickets, Derivable, Derive
    PROVE  /\ \A r \in sla' : Tells(r, CountedSeconds(r.definition), SlackOf(r.definition))
           /\ sla' # {}
<1> DEFINE response(row) == Record("first_response", Commitments[ticket.tier].first_response_minutes,
               {WallClockMinutes(row.opened, n.created) : n \in FirstResponses})
           resolution(row, end) == Record("resolution", TargetMinutes(ticket.tier),
               {BusinessMinutes(row.opened, end)})
<1>1. PICK row \in incident :
        sla' = {response(row)} \cup
            IF row.state \in {"resolved", "closed"} THEN {resolution(row, end) : end \in row.resolved} ELSE {}
  BY Zenon DEF Derive
<1>2. ticket.origin # "posted" /\ notes = SeededNotes(ticket)
  BY <1>1 DEF Derive, Derivable
<1>3. /\ row.opened = Stamp(ticket.opened, "fixture")
      /\ row.state \in {"closed", "new", "in_progress", "on_hold"}
      /\ row.state = "closed" =>
           /\ ticket.origin = "historical"
           /\ row.resolved = IF ticket.interactions = <<>> THEN {} ELSE {ResolvedAt(ticket)}
  BY <1>1, <1>2 DEF Derivable
<1>4. Commitments[ticket.tier].first_response_minutes \in Nat /\ TargetMinutes(ticket.tier) \in Nat
  BY TargetTypes
<1>5. /\ response(row).definition = "first_response"
      /\ \A end : resolution(row, end).definition = "resolution"
  BY DEF Record
<1>6. Tells(response(row), CountedSeconds("first_response"), 1)
  BY <1>2, <1>3, <1>4, ResponseTells
<1>7. ASSUME row.state \in {"resolved", "closed"}, NEW end \in row.resolved
      PROVE  Tells(resolution(row, end), CountedSeconds("resolution"), 2)
  <2>1. ticket.origin = "historical" /\ ticket.interactions # <<>> /\ end = ResolvedAt(ticket)
    BY <1>3, <1>7
  <2> QED  BY <1>3, <1>4, <2>1, ResolutionTells
<1> HIDE DEF response, resolution
<1>8. ASSUME NEW r \in sla'
      PROVE  Tells(r, CountedSeconds(r.definition), SlackOf(r.definition))
  <2>1. CASE r = response(row)
    BY <1>5, <1>6, <2>1 DEF SlackOf
  <2>2. ASSUME row.state \in {"resolved", "closed"}, NEW end \in row.resolved, r = resolution(row, end)
        PROVE  Tells(r, CountedSeconds(r.definition), SlackOf(r.definition))
    BY <1>5, <1>7, <2>2 DEF SlackOf
  <2> QED  BY <1>1, <1>8, <2>1, <2>2
<1> QED  BY <1>1, <1>8

\* What a ticket tells depends on nothing but the ticket.
LEMMA SameTicket ==
    ASSUME ticket' = ticket, NEW definition
    PROVE  CountedSeconds(definition)' = CountedSeconds(definition)
BY DEF CountedSeconds, Counted, EndsOf

\* Every step of the seed and of a client keeps the invariant: Derive has the notes
\* of the fixture before it, and the other steps make no record.
LEMMA DerivationInvStep == DerivationInv /\ [DerivationNext]_derivationVars => DerivationInv'
<1> SUFFICES ASSUME DerivationInv, [DerivationNext]_derivationVars PROVE DerivationInv'
  OBVIOUS
<1>1. ticket \in Tickets /\ OpenedStamped /\ Derivable /\ Recorded
  BY DEF DerivationInv
<1>2. ticket' \in Tickets /\ OpenedStamped'
  BY <1>1, OpenedStampedStep
<1>3. ticket' = ticket
  BY DEF DerivationNext, derivationVars, SeedHistorical, SeedNarrative, PostIncident, Derive, PostNote
<1>4. SeededNotes(ticket)' = SeededNotes(ticket) /\ ResolvedAt(ticket)' = ResolvedAt(ticket)
  BY <1>3
<1>5. UNCHANGED sla => Recorded'
  <2> SUFFICES ASSUME UNCHANGED sla, NEW r \in sla
               PROVE  Tells(r, CountedSeconds(r.definition)', SlackOf(r.definition))
    BY DEF Recorded
  <2>1. CountedSeconds(r.definition)' = CountedSeconds(r.definition)
    BY <1>3, SameTicket
  <2> QED  BY <1>1, <2>1 DEF Recorded
<1>6. CASE SeedHistorical
  <2>1. Derivable'
    BY <1>3, <1>4, <1>6 DEF SeedHistorical, Derivable, SeededNotes
  <2> QED  BY <1>2, <1>5, <1>6, <2>1 DEF DerivationInv, SeedHistorical
<1>7. CASE SeedNarrative
  <2>1. Derivable'
    BY <1>3, <1>4, <1>7 DEF SeedNarrative, Derivable, SeededNotes
  <2> QED  BY <1>2, <1>5, <1>7, <2>1 DEF DerivationInv, SeedNarrative
<1>8. CASE PostIncident
  <2>1. Derivable'
    BY <1>3, <1>8 DEF PostIncident, Derivable
  <2> QED  BY <1>2, <1>5, <1>8, <2>1 DEF DerivationInv, PostIncident
<1>9. CASE Derive
  <2>1. (\A r \in sla' : Tells(r, CountedSeconds(r.definition), SlackOf(r.definition))) /\ sla' # {}
    BY <1>1, <1>9, DeriveRecords
  <2>2. \A r : CountedSeconds(r.definition)' = CountedSeconds(r.definition)
    BY <1>3, SameTicket
  <2>3. Recorded'
    BY <2>1, <2>2 DEF Recorded
  <2>4. Derivable'
    BY <1>1, <1>3, <1>4, <1>9, <2>1 DEF Derive, Derivable
  <2> QED  BY <1>2, <2>3, <2>4 DEF DerivationInv
<1>10. ASSUME NEW t \in Times, PostNote(t) PROVE DerivationInv'
  <2>1. Derivable'
    BY <1>1, <1>3, <1>4, <1>10 DEF PostNote, Derivable
  <2> QED  BY <1>2, <1>5, <1>10, <2>1 DEF DerivationInv, PostNote
<1>11. CASE UNCHANGED derivationVars
  <2>1. Derivable'
    BY <1>1, <1>3, <1>4, <1>11 DEF derivationVars, Derivable
  <2> QED  BY <1>2, <1>5, <1>11, <2>1 DEF DerivationInv, derivationVars
<1> QED
  BY <1>6, <1>7, <1>8, <1>9, <1>10, <1>11 DEF DerivationNext

\* RecordsTellTheTime: an SLA record tells how many seconds of business (of any
\* seconds, for a first response) passed until the ticket was answered or
\* resolved, but for the incomplete minutes of two days (of one interval), and it
\* is flagged as a breach only if they exceed the target (seed.py 273-299,
\* 335-364).
THEOREM SlaRecordsTellTheTime == DerivationSpec => []RecordsTellTheTime
<1>1. DerivationInit => DerivationInv
  BY DEF DerivationInit, DerivationInv, OpenedStamped, Derivable, Recorded
<1>2. DerivationInv => RecordsTellTheTime
  BY RecordedSays DEF DerivationInv
<1> QED  BY <1>1, <1>2, DerivationInvStep, PTL DEF DerivationSpec
=============================================================================
