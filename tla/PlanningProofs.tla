---------------------------- MODULE PlanningProofs ----------------------------
(***************************************************************************)
(* The asset registry, the workflow compiler, the partition mappings, the  *)
(* local executor, the retry policy and the estimate of a backfill's time, *)
(* for every value of their constants.                                     *)
(***************************************************************************)
EXTENDS MCPlanning, FiniteSetTheorems, TLAPS

(* A behaviour moves one component at a time: every step is a step of each  *)
(* component or leaves it as it is.                                         *)
LEMMA PlanningSteps ==
  [Next]_vars => /\ [Registry!Next]_registryVars
                 /\ [Compiler!Next]_compilerVars
                 /\ [Mapping!Next]_mappingVars
                 /\ [Retry!Next]_retryVars
                 /\ [Eta!Next]_etaVars
                 /\ [Local!Next]_localVars
  BY DEF Next, Plan, Locally, AtDoor, Attempting, vars, planningVars, registryVars,
         compilerVars, mappingVars, retryVars, etaVars, localVars, doorVars, attemptVars
-----------------------------------------------------------------------------
(* The asset registry.                                                      *)

(* An asset whose identifier and name are both free keeps the maps inverse: *)
(* no entry of either map is overwritten.                                   *)
LEMMA InsertKeeps ==
  ASSUME NEW ids, NEW names, NEW id, NEW name,
         id \notin DOMAIN ids, name \notin DOMAIN names,
         \A i \in DOMAIN ids : ids[i] \in DOMAIN names /\ names[ids[i]] = i,
         \A n \in DOMAIN names : names[n] \in DOMAIN ids /\ ids[names[n]] = n,
         NEW ids2, ids2 = Registry!Put(ids, id, name),
         NEW names2, names2 = Registry!Put(names, name, id)
  PROVE  /\ \A i \in DOMAIN ids2 : ids2[i] \in DOMAIN names2 /\ names2[ids2[i]] = i
         /\ \A n \in DOMAIN names2 : names2[n] \in DOMAIN ids2 /\ ids2[names2[n]] = n
<1>1. /\ DOMAIN ids2 = DOMAIN ids \cup {id} /\ ids2[id] = name
      /\ \A k \in DOMAIN ids : ids2[k] = ids[k]
  BY DEF Registry!Put
<1>2. /\ DOMAIN names2 = DOMAIN names \cup {name} /\ names2[name] = id
      /\ \A k \in DOMAIN names : names2[k] = names[k]
  BY DEF Registry!Put
<1> QED
  BY <1>1, <1>2

(* Removing an asset from both maps keeps them inverse.                     *)
LEMMA RemoveKeeps ==
  ASSUME NEW ids, NEW names, NEW id \in DOMAIN ids,
         \A i \in DOMAIN ids : ids[i] \in DOMAIN names /\ names[ids[i]] = i,
         \A n \in DOMAIN names : names[n] \in DOMAIN ids /\ ids[names[n]] = n,
         NEW ids2, ids2 = Registry!Drop(ids, id),
         NEW names2, names2 = Registry!Drop(names, ids[id])
  PROVE  /\ \A i \in DOMAIN ids2 : ids2[i] \in DOMAIN names2 /\ names2[ids2[i]] = i
         /\ \A n \in DOMAIN names2 : names2[n] \in DOMAIN ids2 /\ ids2[names2[n]] = n
<1>1. /\ DOMAIN ids2 = DOMAIN ids \ {id}
      /\ \A k \in DOMAIN ids : k # id => ids2[k] = ids[k]
  BY DEF Registry!Drop, Registry!Restrict
<1>2. /\ DOMAIN names2 = DOMAIN names \ {ids[id]}
      /\ \A k \in DOMAIN names : k # ids[id] => names2[k] = names[k]
  BY DEF Registry!Drop, Registry!Restrict
<1> QED
  BY <1>1, <1>2

(* Every operation of the registry keeps the two maps inverse.              *)
LEMMA ConsistentStep ==
  Registry!RegistryConsistent /\ [Registry!Next]_registryVars
    => Registry!RegistryConsistent'
<1> SUFFICES ASSUME Registry!RegistryConsistent, [Registry!Next]_registryVars
             PROVE  Registry!RegistryConsistent'
  OBVIOUS
<1>1. ASSUME NEW asset \in Registry!Asset, Registry!Register(asset)
      PROVE  Registry!RegistryConsistent'
  BY <1>1, InsertKeeps DEF Registry!Register, Registry!RegistryConsistent
<1>2. ASSUME NEW asset \in Registry!Asset, Registry!Update(asset)
      PROVE  Registry!RegistryConsistent'
  <2>1. CASE byId[asset.id] = asset.name
    <3>1. /\ byName' = byName /\ byId' = Registry!Put(byId, asset.id, asset.name)
          /\ asset.id \in DOMAIN byId
      BY <1>2, <2>1 DEF Registry!Update
    <3>2. /\ DOMAIN byId' = DOMAIN byId
          /\ \A i \in DOMAIN byId : byId'[i] = byId[i]
      BY <2>1, <3>1 DEF Registry!Put
    <3> QED
      BY <3>1, <3>2 DEF Registry!RegistryConsistent
  <2>2. CASE byId[asset.id] # asset.name
    <3> DEFINE ids == Registry!Drop(byId, asset.id)
               names == Registry!Drop(byName, byId[asset.id])
    <3>1. /\ asset.id \in DOMAIN byId /\ asset.name \notin DOMAIN byName
          /\ byName' = Registry!Put(names, asset.name, asset.id)
          /\ byId' = Registry!Put(byId, asset.id, asset.name)
      BY <1>2, <2>2 DEF Registry!Update
    <3>2. /\ \A i \in DOMAIN ids : ids[i] \in DOMAIN names /\ names[ids[i]] = i
          /\ \A n \in DOMAIN names : names[n] \in DOMAIN ids /\ ids[names[n]] = n
      BY <3>1, RemoveKeeps DEF Registry!RegistryConsistent
    <3>3. asset.id \notin DOMAIN ids /\ asset.name \notin DOMAIN names
      <4>1. /\ DOMAIN ids = DOMAIN byId \ {asset.id}
            /\ DOMAIN names = DOMAIN byName \ {byId[asset.id]}
        BY DEF Registry!Drop, Registry!Restrict
      <4> QED
        BY <3>1, <4>1
    <3>4. byId' = Registry!Put(ids, asset.id, asset.name)
      BY <3>1 DEF Registry!Put, Registry!Drop, Registry!Restrict
    <3> HIDE DEF ids, names
    <3> QED
      BY <3>1, <3>2, <3>3, <3>4, InsertKeeps DEF Registry!RegistryConsistent
  <2> QED
    BY <2>1, <2>2
<1>3. ASSUME NEW one \in Registry!Asset, NEW two \in Registry!Asset,
             Registry!RegisterBatch(one, two)
      PROVE  Registry!RegistryConsistent'
  <2> DEFINE ids == Registry!Put(byId, one.id, one.name)
             names == Registry!Put(byName, one.name, one.id)
  <2>1. /\ one.id \notin DOMAIN byId /\ one.name \notin DOMAIN byName
        /\ two.id \notin DOMAIN byId /\ two.name \notin DOMAIN byName
        /\ one.id # two.id /\ one.name # two.name
    BY <1>3 DEF Registry!RegisterBatch, Registry!BatchValid
  <2>2. /\ \A i \in DOMAIN ids : ids[i] \in DOMAIN names /\ names[ids[i]] = i
        /\ \A n \in DOMAIN names : names[n] \in DOMAIN ids /\ ids[names[n]] = n
    BY <2>1, InsertKeeps DEF Registry!RegistryConsistent
  <2>3. two.id \notin DOMAIN ids /\ two.name \notin DOMAIN names
    <3>1. /\ DOMAIN ids = DOMAIN byId \cup {one.id}
          /\ DOMAIN names = DOMAIN byName \cup {one.name}
      BY DEF Registry!Put
    <3> QED
      BY <2>1, <3>1
  <2>4. /\ byId' = Registry!Put(ids, two.id, two.name)
        /\ byName' = Registry!Put(names, two.name, two.id)
    BY <1>3 DEF Registry!RegisterBatch
  <2> HIDE DEF ids, names
  <2> QED
    BY <2>2, <2>3, <2>4, InsertKeeps DEF Registry!RegistryConsistent
<1>4. ASSUME NEW id \in Ids, Registry!Remove(id) PROVE Registry!RegistryConsistent'
  BY <1>4, RemoveKeeps DEF Registry!Remove, Registry!RegistryConsistent
<1>5. CASE Registry!Clear
  BY <1>5 DEF Registry!Clear, Registry!RegistryConsistent
<1>6. CASE UNCHANGED registryVars
  BY <1>6 DEF registryVars, Registry!RegistryConsistent
<1> QED
  BY <1>1, <1>2, <1>3, <1>4, <1>5, <1>6 DEF Registry!Next

(* Every registered name leads to the asset that bears it and every asset   *)
(* is found by its name, after any registrations, renames and removals.     *)
THEOREM RegistryIsConsistent == Spec => []RegistryConsistent
<1>1. Init => Registry!RegistryConsistent
  BY DEF Init, Registry!Init, Registry!RegistryConsistent
<1>2. Registry!RegistryConsistent /\ [Next]_vars => Registry!RegistryConsistent'
  BY PlanningSteps, ConsistentStep
<1>3. RegistryConsistent <=> Registry!RegistryConsistent
  BY DEF RegistryConsistent
<1> QED
  BY <1>1, <1>2, <1>3, PTL DEF Spec
-----------------------------------------------------------------------------
(* The compiler.                                                            *)

Distinct(s) == \A i, j \in DOMAIN s : s[i] = s[j] => i = j

(* The sizes and sets of the module are the usual ones.                     *)
LEMMA CompilerSizes ==
  /\ \A S : Compiler!Cardinality(S) = Cardinality(S)
  /\ \A s : Compiler!ToSet(s) = {s[i] : i \in DOMAIN s}
<1>1. \A S : Compiler!Cardinality(S) = Cardinality(S)
  BY DEF Compiler!Cardinality, Cardinality
<1>2. \A s : Compiler!ToSet(s) = {s[i] : i \in DOMAIN s}
  BY DEF Compiler!ToSet
<1> QED
  BY <1>1, <1>2

(* A sequence has at most as many elements as places, and as many if they   *)
(* are distinct.                                                            *)
LEMMA SizeOfSequence ==
  ASSUME NEW S, NEW s \in Seq(S)
  PROVE  /\ IsFiniteSet(Compiler!ToSet(s)) /\ Compiler!ToSet(s) \subseteq S
         /\ Cardinality(Compiler!ToSet(s)) <= Len(s)
         /\ Distinct(s) => Cardinality(Compiler!ToSet(s)) = Len(s)
<1> DEFINE T == {s[i] : i \in 1 .. Len(s)}
<1>1. T = Compiler!ToSet(s) /\ T \subseteq S
  BY CompilerSizes
<1>2. s \in Surjection(1 .. Len(s), T) /\ Len(s) \in Nat
  BY DEF Surjection
<1>3. IsFiniteSet(T)
  BY <1>2, FS_NatSurjection DEF ExistsSurjection
<1>4. Cardinality(T) <= Len(s)
  BY <1>2, FS_SurjCardinalityBound DEF ExistsSurjection
<1>5. ASSUME Distinct(s) PROVE Cardinality(T) = Len(s)
  <2>1. s \in Injection(1 .. Len(s), T)
    BY <1>2, <1>5 DEF Distinct, Injection, IsInjective, Surjection
  <2>2. s \in Bijection(1 .. Len(s), T)
    BY <1>2, <2>1 DEF Bijection
  <2> QED
    BY <1>2, <2>2, FS_CountingElements DEF ExistsBijection
<1> QED
  BY <1>1, <1>3, <1>4, <1>5

(* Any order of a finite set has each of its elements once.                 *)
LEMMA OrderOfSet ==
  ASSUME NEW S, IsFiniteSet(S), NEW s \in Compiler!SetToSeqs(S)
  PROVE  s \in Seq(S) /\ Compiler!ToSet(s) = S /\ Distinct(s)
<1>1. Cardinality(S) \in Nat
  BY FS_CardinalityType
<1> DEFINE D == 1 .. Cardinality(S)
<1>2. s \in [D -> S] /\ \A i, j \in D : i # j => s[i] # s[j]
  BY CompilerSizes DEF Compiler!SetToSeqs
<1>3. s \in Injection(D, S)
  BY <1>2 DEF Injection, IsInjective
<1>4. Cardinality(D) = Cardinality(S)
  BY <1>1, FS_Interval
<1>5. s \in Surjection(D, S)
  BY <1>3, <1>4, FS_Injection
<1>6. S = {s[i] : i \in DOMAIN s}
  BY <1>2, <1>5 DEF Surjection
<1>7. s \in Seq(S)
  BY <1>1, <1>2
<1> QED
  BY <1>2, <1>6, <1>7, CompilerSizes DEF Distinct

Done == Compiler!ToSet(ordered)

\* How often an asset is listed, and its dependencies that are not in done.
Copies(c) == Cardinality({i \in DOMAIN workflow : workflow[i] = c})
Unmet(c, done) == {j \in DOMAIN assetsById[c] : assetsById[c][j] \notin done}

\* What a compilation has read: every listed asset and all it needs is known.
Readable ==
    /\ workflow \in Seq(AssetIds)
    /\ Compiler!Members \subseteq DOMAIN assetsById
    /\ \A c \in Compiler!Members : Compiler!Upstreams(c) \subseteq Compiler!Members

\* An asset is ready when nothing it needs is missing, and is in the plan after
\* what it needs.
Ordering ==
    /\ ordered \in Seq(Compiler!Members) /\ Distinct(ordered)
    /\ ready \in Seq(Compiler!Members) /\ Distinct(ready)
    /\ DOMAIN indegree = Compiler!Members
    /\ \A c \in Compiler!Members :
          /\ indegree[c] = Copies(c) * Cardinality(Unmet(c, Done))
          /\ c \in Compiler!ToSet(ready) <=> c \notin Done /\ indegree[c] = 0
    /\ \A i \in DOMAIN ordered : \A up \in Compiler!Upstreams(ordered[i]) :
          \E j \in 1 .. (i - 1) : ordered[j] = up

CompilerInv ==
    /\ \A id \in DOMAIN assetsById : assetsById[id] \in Seq(AssetIds)
    /\ outcome \in {"sorting", "plan", "circular"} => Readable /\ Ordering
    /\ outcome \in {"plan", "circular"} => ready = <<>>
    /\ outcome = "plan" <=> outcome \in {"plan", "circular"} /\ Len(ordered) = Len(workflow)

(* An asset that is listed is listed at least once, and what it still needs *)
(* is a number.                                                             *)
LEMMA Degrees ==
  ASSUME CompilerInv, Readable, NEW c \in Compiler!Members, NEW done
  PROVE  /\ Copies(c) \in Nat \ {0}
         /\ IsFiniteSet(Unmet(c, done)) /\ Cardinality(Unmet(c, done)) \in Nat
         /\ Cardinality(Unmet(c, done)) = 0 <=> Compiler!Upstreams(c) \subseteq done
         /\ Copies(c) * Cardinality(Unmet(c, done)) = 0
               <=> Compiler!Upstreams(c) \subseteq done
<1> DEFINE places == {i \in DOMAIN workflow : workflow[i] = c}
<1>1. assetsById[c] \in Seq(AssetIds) /\ workflow \in Seq(AssetIds)
  BY DEF CompilerInv, Readable
<1>2. IsFiniteSet(1 .. Len(workflow)) /\ IsFiniteSet(1 .. Len(assetsById[c]))
  BY <1>1, FS_Interval
<1>3. places \subseteq 1 .. Len(workflow) /\ places # {}
  BY <1>1, CompilerSizes DEF Compiler!Members
<1>4. Copies(c) \in Nat \ {0}
  BY <1>2, <1>3, FS_Subset, FS_CardinalityType, FS_EmptySet DEF Copies
<1>5. Unmet(c, done) \in SUBSET (1 .. Len(assetsById[c]))
  BY <1>1 DEF Unmet
<1>6. IsFiniteSet(Unmet(c, done)) /\ Cardinality(Unmet(c, done)) \in Nat
  BY <1>2, <1>5, FS_Subset, FS_CardinalityType
<1>7. Cardinality(Unmet(c, done)) = 0 <=> Unmet(c, done) = {}
  BY <1>6, FS_EmptySet
<1>8. Unmet(c, done) = {} <=> Compiler!Upstreams(c) \subseteq done
  BY CompilerSizes DEF Unmet, Compiler!Upstreams
<1>9. ASSUME NEW m \in Nat \ {0}, NEW n \in Nat PROVE m * n = 0 <=> n = 0
  OBVIOUS
<1> QED
  BY <1>4, <1>6, <1>7, <1>8, <1>9

(* A popped asset takes its edges off what the others need.                 *)
LEMMA DegreeLeft ==
  ASSUME CompilerInv, Readable, NEW c \in Compiler!Members, NEW id, id \notin Done
  PROVE  /\ Compiler!Edges(id, c) \in Nat
         /\ Copies(c) * Cardinality(Unmet(c, Done)) - Compiler!Edges(id, c)
               = Copies(c) * Cardinality(Unmet(c, Done \cup {id}))
<1> DEFINE edges == {j \in DOMAIN assetsById[c] : assetsById[c][j] = id}
<1>1. /\ IsFiniteSet(Unmet(c, Done)) /\ Cardinality(Unmet(c, Done)) \in Nat
      /\ Copies(c) \in Nat
  BY Degrees
<1>2. edges \in SUBSET Unmet(c, Done)
  BY DEF Unmet
<1>3. Unmet(c, Done \cup {id}) = Unmet(c, Done) \ edges
  BY DEF Unmet
<1>4. Unmet(c, Done) \cap edges = edges
  BY <1>2
<1>5. Cardinality(edges) \in Nat
  BY <1>1, <1>2, FS_Subset, FS_CardinalityType
<1>6. Cardinality(Unmet(c, Done) \ edges)
         = Cardinality(Unmet(c, Done)) - Cardinality(Unmet(c, Done) \cap edges)
  BY <1>1, FS_Difference
<1>7. Compiler!Edges(id, c) = Copies(c) * Cardinality(edges)
  BY CompilerSizes DEF Compiler!Edges, Copies
<1>8. ASSUME NEW m \in Nat, NEW a \in Nat, NEW b \in Nat
      PROVE  m * b \in Nat /\ m * a - m * b = m * (a - b)
  OBVIOUS
<1>9. Cardinality(Unmet(c, Done \cup {id}))
         = Cardinality(Unmet(c, Done)) - Cardinality(edges)
  BY <1>3, <1>4, <1>6
<1> HIDE DEF edges
<1> QED
  BY <1>1, <1>5, <1>7, <1>8, <1>9

(* A queue gives up its head and takes others at its end.                   *)
LEMMA QueueMoves ==
  ASSUME NEW S, NEW q \in Seq(S), q # <<>>, Distinct(q), NEW p \in Seq(S), Distinct(p),
         Compiler!ToSet(q) \cap Compiler!ToSet(p) = {}
  PROVE  /\ Tail(q) \o p \in Seq(S) /\ Distinct(Tail(q) \o p)
         /\ Compiler!ToSet(Tail(q) \o p)
               = (Compiler!ToSet(q) \ {Head(q)}) \cup Compiler!ToSet(p)
<1> DEFINE t == Tail(q)  r == t \o p
<1>1. t \in Seq(S) /\ Len(t) = Len(q) - 1 /\ \A i \in 1 .. Len(t) : t[i] = q[i + 1]
  OBVIOUS
<1>2. /\ r \in Seq(S) /\ Len(r) = Len(t) + Len(p)
      /\ \A i \in 1 .. Len(t) : r[i] = q[i + 1]
      /\ \A i \in Len(t) + 1 .. Len(r) : r[i] = p[i - Len(t)]
  BY <1>1
<1> HIDE DEF t, r
<1>3. /\ \A i \in 1 .. Len(q) : q[i] \in Compiler!ToSet(q)
      /\ \A i \in 1 .. Len(p) : p[i] \in Compiler!ToSet(p)
  BY CompilerSizes
<1>4. Head(q) = q[1] /\ Len(q) >= 1
  OBVIOUS
<1>5. /\ DOMAIN q = 1 .. Len(q) /\ DOMAIN p = 1 .. Len(p) /\ DOMAIN r = 1 .. Len(r)
      /\ Len(p) \in Nat /\ Len(q) \in Nat /\ Len(t) \in Nat /\ Len(r) \in Nat
  BY <1>1, <1>2
<1>6. Distinct(r)
  <2>1. ASSUME NEW i \in 1 .. Len(t), NEW j \in 1 .. Len(t), r[i] = r[j] PROVE i = j
    <3>1. i + 1 \in DOMAIN q /\ j + 1 \in DOMAIN q /\ q[i + 1] = q[j + 1]
      BY <1>1, <1>2, <1>5, <2>1
    <3> QED
      BY <1>5, <2>1, <3>1 DEF Distinct
  <2>2. ASSUME NEW i \in Len(t) + 1 .. Len(r), NEW j \in Len(t) + 1 .. Len(r), r[i] = r[j]
        PROVE  i = j
    <3>1. /\ i - Len(t) \in DOMAIN p /\ j - Len(t) \in DOMAIN p
          /\ p[i - Len(t)] = p[j - Len(t)]
      BY <1>2, <1>5, <2>2
    <3> QED
      BY <1>5, <2>2, <3>1 DEF Distinct
  <2>3. ASSUME NEW i \in 1 .. Len(t), NEW j \in Len(t) + 1 .. Len(r) PROVE r[i] # r[j]
    <3>1. i + 1 \in 1 .. Len(q) /\ j - Len(t) \in 1 .. Len(p)
      BY <1>1, <1>2, <1>5
    <3> QED
      BY <1>2, <1>3, <3>1
  <2>4. \A i \in DOMAIN r : i \in 1 .. Len(t) \/ i \in Len(t) + 1 .. Len(r)
    BY <1>5
  <2> QED
    BY <2>1, <2>2, <2>3, <2>4 DEF Distinct
<1>7. ASSUME NEW x PROVE x \in Compiler!ToSet(r)
                            <=> x \in (Compiler!ToSet(q) \ {Head(q)}) \cup Compiler!ToSet(p)
  <2>1. ASSUME NEW i \in 1 .. Len(r), x = r[i]
        PROVE  x \in (Compiler!ToSet(q) \ {Head(q)}) \cup Compiler!ToSet(p)
    <3>1. CASE i \in 1 .. Len(t)
      <4>1. i + 1 \in 1 .. Len(q) /\ x = q[i + 1] /\ i + 1 # 1 /\ 1 \in 1 .. Len(q)
        BY <1>1, <1>2, <1>4, <1>5, <2>1, <3>1
      <4>2. q[i + 1] # q[1]
        BY <1>5, <4>1 DEF Distinct
      <4> QED
        BY <1>3, <1>4, <4>1, <4>2
    <3>2. CASE i \in Len(t) + 1 .. Len(r)
      <4>1. i - Len(t) \in 1 .. Len(p) /\ x = p[i - Len(t)]
        BY <1>2, <1>5, <2>1, <3>2
      <4> QED
        BY <1>3, <4>1
    <3> QED
      BY <1>5, <3>1, <3>2
  <2>2. ASSUME NEW i \in 1 .. Len(q), x = q[i], x # Head(q) PROVE x \in Compiler!ToSet(r)
    <3>1. i - 1 \in 1 .. Len(t) /\ x = r[i - 1]
      BY <1>1, <1>2, <1>4, <2>2
    <3> QED
      BY <1>1, <1>2, <3>1, CompilerSizes
  <2>3. ASSUME NEW i \in 1 .. Len(p), x = p[i] PROVE x \in Compiler!ToSet(r)
    <3> DEFINE k == Len(t) + i
    <3>1. k \in Len(t) + 1 .. Len(r) /\ k - Len(t) = i /\ k \in DOMAIN r
      BY <1>2, <1>5, <2>3
    <3> HIDE DEF k
    <3>2. r[k] = x
      BY <1>2, <2>3, <3>1
    <3> QED
      BY <3>1, <3>2, CompilerSizes
  <2>4. /\ Compiler!ToSet(r) = {r[i] : i \in 1 .. Len(r)}
        /\ Compiler!ToSet(q) = {q[i] : i \in 1 .. Len(q)}
        /\ Compiler!ToSet(p) = {p[i] : i \in 1 .. Len(p)}
    BY <1>2, CompilerSizes
  <2> QED
    BY <2>1, <2>2, <2>3, <2>4
<1> QED
  BY <1>2, <1>6, <1>7 DEF t, r

(* A sequence takes one more.                                               *)
LEMMA SequenceGrows ==
  ASSUME NEW S, NEW s \in Seq(S), Distinct(s), NEW x \in S, x \notin Compiler!ToSet(s)
  PROVE  /\ Append(s, x) \in Seq(S) /\ Distinct(Append(s, x))
         /\ Compiler!ToSet(Append(s, x)) = Compiler!ToSet(s) \cup {x}
<1>1. Compiler!ToSet(s) = {s[i] : i \in 1 .. Len(s)}
  BY CompilerSizes
<1>2. /\ Append(s, x) \in Seq(S) /\ Len(Append(s, x)) = Len(s) + 1
      /\ Append(s, x)[Len(s) + 1] = x /\ Len(s) \in Nat
      /\ \A i \in 1 .. Len(s) : Append(s, x)[i] = s[i]
  OBVIOUS
<1>3. Compiler!ToSet(Append(s, x)) = {Append(s, x)[i] : i \in 1 .. Len(s) + 1}
  <2>1. DOMAIN Append(s, x) = 1 .. Len(s) + 1
    OBVIOUS
  <2> QED
    BY <2>1, CompilerSizes
<1>4. Distinct(Append(s, x))
  BY <1>1, <1>2 DEF Distinct
<1>5. Compiler!ToSet(Append(s, x)) = Compiler!ToSet(s) \cup {x}
  BY <1>1, <1>2, <1>3
<1> QED
  BY <1>2, <1>4, <1>5

(* Kahn's step keeps the order.                                             *)
LEMMA PopStep == CompilerInv /\ Compiler!Pop => CompilerInv'
<1> SUFFICES ASSUME CompilerInv, Compiler!Pop PROVE CompilerInv'
  OBVIOUS
<1> DEFINE id == Head(ready)  M == Compiler!Members
           freed == {c \in M : Compiler!Edges(id, c) > 0
                                 /\ Compiler!Edges(id, c) = indegree[c]}
<1>1. /\ outcome = "sorting" /\ ready # <<>> /\ ordered' = Append(ordered, id)
      /\ indegree' = [c \in M |-> indegree[c] - Compiler!Edges(id, c)]
      /\ UNCHANGED <<assetsById, workflow, outcome>>
  BY DEF Compiler!Pop
<1>2. PICK pushed \in Compiler!SetToSeqs(freed) : ready' = Tail(ready) \o pushed
  BY DEF Compiler!Pop
<1>3. Readable /\ Ordering
  BY <1>1 DEF CompilerInv
<1>4. id \in Compiler!ToSet(ready) /\ id \in M
  BY <1>1, <1>3, CompilerSizes DEF Ordering
<1>5. id \notin Done /\ indegree[id] = 0
  BY <1>3, <1>4 DEF Ordering
<1>6. /\ Readable' /\ M' = M
      /\ \A c : Copies(c)' = Copies(c)
      /\ \A c, done : Unmet(c, done)' = Unmet(c, done)
      /\ \A c : Compiler!Upstreams(c)' = Compiler!Upstreams(c)
  <2>1. M' = M /\ \A c : Compiler!Upstreams(c)' = Compiler!Upstreams(c)
    BY <1>1 DEF Compiler!Members, Compiler!Upstreams
  <2>2. (\A c : Copies(c)' = Copies(c)) /\ \A c, done : Unmet(c, done)' = Unmet(c, done)
    BY <1>1 DEF Copies, Unmet
  <2> QED
    BY <1>1, <1>3, <2>1, <2>2 DEF Readable
<1>7. /\ ordered' \in Seq(M) /\ Distinct(ordered')
      /\ Done' = Done \cup {id}
  BY <1>1, <1>3, <1>4, <1>5, SequenceGrows DEF Ordering, Done
<1>8. ASSUME NEW c \in M
      PROVE  /\ indegree'[c] = Copies(c) * Cardinality(Unmet(c, Done \cup {id}))
             /\ indegree[c] = 0 <=> Compiler!Upstreams(c) \subseteq Done
             /\ indegree'[c] = 0 <=> Compiler!Upstreams(c) \subseteq Done \cup {id}
             /\ indegree'[c] = indegree[c] - Compiler!Edges(id, c)
             /\ indegree[c] \in Nat /\ indegree'[c] \in Nat
             /\ Compiler!Edges(id, c) \in Nat
  <2>1. indegree[c] = Copies(c) * Cardinality(Unmet(c, Done))
    BY <1>3 DEF Ordering
  <2>2. indegree'[c] = indegree[c] - Compiler!Edges(id, c)
    BY <1>1
  <2>3. /\ Compiler!Edges(id, c) \in Nat
        /\ indegree'[c] = Copies(c) * Cardinality(Unmet(c, Done \cup {id}))
    BY <1>3, <1>5, <2>1, <2>2, DegreeLeft
  <2>4. /\ Copies(c) \in Nat /\ Cardinality(Unmet(c, Done)) \in Nat
        /\ Cardinality(Unmet(c, Done \cup {id})) \in Nat
        /\ indegree[c] = 0 <=> Compiler!Upstreams(c) \subseteq Done
        /\ indegree'[c] = 0 <=> Compiler!Upstreams(c) \subseteq Done \cup {id}
    BY <1>3, <2>1, <2>3, Degrees
  <2>5. ASSUME NEW m \in Nat, NEW n \in Nat PROVE m * n \in Nat
    OBVIOUS
  <2> QED
    BY <2>1, <2>2, <2>3, <2>4, <2>5
<1>9. \A c \in M : c \in freed <=> indegree[c] # 0 /\ indegree'[c] = 0
  BY <1>8
<1>10. /\ pushed \in Seq(M) /\ Distinct(pushed) /\ Compiler!ToSet(pushed) = freed
  <2>1. IsFiniteSet(M)
    BY <1>3, SizeOfSequence DEF Readable, Compiler!Members
  <2>2. IsFiniteSet(freed) /\ freed \subseteq M
    BY <2>1, FS_Subset
  <2> HIDE DEF freed
  <2>3. pushed \in Seq(freed) /\ Compiler!ToSet(pushed) = freed /\ Distinct(pushed)
    BY <1>2, <2>2, OrderOfSet
  <2> QED
    BY <2>2, <2>3
<1>11. Compiler!ToSet(ready) \cap freed = {}
  BY <1>3, <1>9 DEF Ordering
<1>12. /\ ready' \in Seq(M) /\ Distinct(ready')
       /\ Compiler!ToSet(ready') = (Compiler!ToSet(ready) \ {id}) \cup freed
  <2> HIDE DEF freed
  <2> QED
    BY <1>1, <1>2, <1>3, <1>10, <1>11, QueueMoves DEF Ordering
<1>13. ASSUME NEW c \in M
       PROVE  c \in Compiler!ToSet(ready') <=> c \notin Done' /\ indegree'[c] = 0
  <2>1. c \in Compiler!ToSet(ready) <=> c \notin Done /\ indegree[c] = 0
    BY <1>3 DEF Ordering
  <2>2. c \in Done => indegree[c] = 0
    <3>1. ASSUME c \in Done, NEW up \in Compiler!Upstreams(c) PROVE up \in Done
      <4>1. PICK i \in DOMAIN ordered : c = ordered[i]
        BY <3>1, CompilerSizes DEF Done
      <4>2. PICK j \in 1 .. (i - 1) : ordered[j] = up
        BY <1>3, <3>1, <4>1 DEF Ordering
      <4>3. j \in DOMAIN ordered
        BY <1>3, <4>1, <4>2 DEF Ordering
      <4> QED
        BY <4>2, <4>3, CompilerSizes DEF Done
    <3> QED
      BY <1>8, <3>1
  <2>3. indegree[c] = 0 => indegree'[c] = 0
    BY <1>8
  <2> HIDE DEF freed
  <2> QED
    BY <1>5, <1>7, <1>9, <1>12, <2>1, <2>2, <2>3
<1>14. ASSUME NEW i \in DOMAIN ordered', NEW up \in Compiler!Upstreams(ordered'[i])
       PROVE  \E j \in 1 .. (i - 1) : ordered'[j] = up
  <2>1. /\ Len(ordered) \in Nat /\ DOMAIN ordered' = 1 .. Len(ordered) + 1
        /\ \A j \in 1 .. Len(ordered) : ordered'[j] = ordered[j]
        /\ ordered'[Len(ordered) + 1] = id
    BY <1>1, <1>3 DEF Ordering
  <2>2. CASE i \in 1 .. Len(ordered)
    <3>1. PICK j \in 1 .. (i - 1) : ordered[j] = up
      BY <1>3, <1>14, <2>1, <2>2 DEF Ordering
    <3> QED
      BY <2>1, <2>2, <3>1
  <2>3. CASE i = Len(ordered) + 1
    <3>1. up \in Done
      BY <1>4, <1>5, <1>8, <1>14, <2>1, <2>3
    <3>2. PICK j \in DOMAIN ordered : ordered[j] = up
      BY <3>1, CompilerSizes DEF Done
    <3>3. j \in 1 .. Len(ordered)
      BY <1>3, <3>2 DEF Ordering
    <3> QED
      BY <2>1, <2>3, <3>2, <3>3
  <2> QED
    BY <2>1, <2>2, <2>3
<1>15. DOMAIN indegree' = M
  BY <1>1
<1>16. Ordering'
  <2> HIDE DEF id, freed
  <2> QED
    BY <1>6, <1>7, <1>8, <1>12, <1>13, <1>14, <1>15 DEF Ordering
<1> QED
  BY <1>1, <1>6, <1>16 DEF CompilerInv

(* A compilation starts with nothing done: a degree is the copies of an     *)
(* asset times its dependencies, and the queue holds those with none.       *)
LEMMA CompileStep ==
  ASSUME CompilerAssumption, CompilerInv, NEW order \in Workflows, Compiler!Compile(order)
  PROVE  CompilerInv'
<1> DEFINE M == Compiler!ToSet(order)
           roots == {c \in M : Compiler!InitialDegree(order, c) = 0}
<1>1. /\ workflow' = order /\ ordered' = <<>> /\ assetsById' = assetsById
      /\ outcome' \in {"sorting", "missing_asset", "missing_dependency"}
  BY DEF Compiler!Compile
<1>2. CASE outcome' # "sorting"
  BY <1>1, <1>2 DEF CompilerInv
<1>3. CASE outcome' = "sorting"
  <2>1. /\ M \subseteq DOMAIN assetsById
        /\ \A c \in M : Compiler!Upstreams(c) \subseteq M
        /\ indegree' = [c \in M |-> Compiler!InitialDegree(order, c)]
        /\ ready' \in Compiler!SetToSeqs(roots)
    BY <1>3 DEF Compiler!Compile
  <2>2. /\ Compiler!Members' = M
        /\ \A c : Compiler!Upstreams(c)' = Compiler!Upstreams(c)
    BY <1>1 DEF Compiler!Members, Compiler!Upstreams
  <2>3. order \in Seq(AssetIds)
    BY DEF CompilerAssumption
  <2>4. Readable'
    BY <1>1, <2>1, <2>2, <2>3 DEF Readable
  <2>5. /\ Done' = {} /\ ordered' \in Seq(M) /\ Distinct(ordered')
        /\ DOMAIN ordered' = {}
    BY <1>1, CompilerSizes DEF Done, Distinct
  <2>6. ASSUME NEW c \in M
        PROVE  indegree'[c] = Copies(c)' * Cardinality(Unmet(c, Done)')
    <3>1. assetsById[c] \in Seq(AssetIds)
      BY <2>1 DEF CompilerInv
    <3>2. Unmet(c, Done)' = 1 .. Len(assetsById[c])
      BY <1>1, <2>5, <3>1 DEF Unmet
    <3>3. Cardinality(Unmet(c, Done)') = Len(assetsById[c])
      <4>1. Len(assetsById[c]) \in Nat
        BY <3>1
      <4>2. Cardinality(1 .. Len(assetsById[c])) = Len(assetsById[c])
        BY <4>1, FS_Interval
      <4> QED
        BY <3>2, <4>2
    <3>4. Copies(c)' = Compiler!Cardinality({i \in DOMAIN order : order[i] = c})
      BY <1>1, CompilerSizes DEF Copies
    <3> QED
      BY <2>1, <3>3, <3>4 DEF Compiler!InitialDegree
  <2>7. ready' \in Seq(M) /\ Distinct(ready') /\ Compiler!ToSet(ready') = roots
    <3>1. IsFiniteSet(M)
      BY <2>3, SizeOfSequence
    <3>2. IsFiniteSet(roots) /\ roots \subseteq M
      BY <3>1, FS_Subset
    <3> HIDE DEF roots
    <3>3. ready' \in Seq(roots) /\ Compiler!ToSet(ready') = roots /\ Distinct(ready')
      BY <2>1, <3>2, OrderOfSet
    <3> QED
      BY <3>2, <3>3
  <2>8. ASSUME NEW c \in M
        PROVE  c \in Compiler!ToSet(ready') <=> c \notin Done' /\ indegree'[c] = 0
    BY <2>1, <2>5, <2>7
  <2>9. DOMAIN indegree' = M
    BY <2>1
  <2>10. Ordering'
    <3> HIDE DEF M, roots
    <3> QED
      BY <2>2, <2>5, <2>6, <2>7, <2>8, <2>9 DEF Ordering
  <2> QED
    BY <1>1, <1>3, <2>4, <2>10 DEF CompilerInv
<1> QED
  BY <1>2, <1>3

(* Every operation of the compiler keeps its invariant: an asset is         *)
(* registered only between two compilations, so none reads two versions.    *)
LEMMA CompilerStep ==
  CompilerAssumption /\ CompilerInv /\ [Compiler!Next]_compilerVars => CompilerInv'
<1> SUFFICES ASSUME CompilerAssumption, CompilerInv, [Compiler!Next]_compilerVars
             PROVE  CompilerInv'
  OBVIOUS
<1>1. ASSUME NEW asset \in Assets, Compiler!RegisterAsset(asset) PROVE CompilerInv'
  <2>1. /\ outcome' = "none"
        /\ assetsById' = [id \in DOMAIN assetsById \cup {asset.id} |->
                            IF id = asset.id THEN asset.dependencies ELSE assetsById[id]]
    BY <1>1 DEF Compiler!RegisterAsset
  <2>2. \A id \in DOMAIN assetsById' : assetsById'[id] \in Seq(AssetIds)
    BY <2>1 DEF CompilerInv, CompilerAssumption
  <2> QED
    BY <2>1, <2>2 DEF CompilerInv
<1>2. CASE Compiler!Finish
  <2>1. /\ outcome = "sorting" /\ ready = <<>>
        /\ outcome' = IF Len(ordered) = Len(workflow) THEN "plan" ELSE "circular"
        /\ UNCHANGED <<assetsById, assetsByName, workflow, indegree, ready, ordered>>
    BY <1>2 DEF Compiler!Finish
  <2>2. (Readable /\ Ordering)'
    BY <2>1 DEF CompilerInv, Readable, Ordering, Done, Copies, Unmet,
                Compiler!Members, Compiler!Upstreams
  <2>3. /\ outcome' \in {"plan", "circular"} /\ ready' = <<>>
        /\ outcome' = "plan" <=> Len(ordered') = Len(workflow')
    BY <2>1
  <2> QED
    BY <2>1, <2>2, <2>3 DEF CompilerInv
<1>3. CASE UNCHANGED compilerVars
  <2>1. UNCHANGED <<assetsById, workflow, indegree, ready, ordered, outcome>>
    BY <1>3 DEF compilerVars
  <2> QED
    BY <2>1 DEF CompilerInv, Readable, Ordering, Done, Copies, Unmet,
                Compiler!Members, Compiler!Upstreams
<1> QED
  BY <1>1, <1>2, <1>3, CompileStep, PopStep DEF Compiler!Next

(* When nothing is ready, the assets that are not in the plan each need     *)
(* another of them.                                                         *)
LEMMA NothingReady ==
  ASSUME CompilerInv, Readable, Ordering, ready = <<>>, NEW c \in Compiler!Members \ Done
  PROVE  Compiler!Upstreams(c) \cap (Compiler!Members \ Done) # {}
<1>1. c \notin Compiler!ToSet(ready)
  BY CompilerSizes
<1>2. indegree[c] # 0
  BY <1>1 DEF Ordering
<1>3. Copies(c) * Cardinality(Unmet(c, Done)) # 0
  BY <1>2 DEF Ordering
<1>4. ~(Compiler!Upstreams(c) \subseteq Done)
  BY <1>3, Degrees
<1> QED
  BY <1>4 DEF Readable

(* The plan is right: as long as the workflow it holds each of its assets   *)
(* once, and a shorter one leaves assets that wait for each other.          *)
LEMMA PlanIsRight == CompilerInv => PlanSound
<1> SUFFICES ASSUME CompilerInv PROVE PlanSound
  OBVIOUS
<1> DEFINE M == Compiler!Members
<1>1. ASSUME outcome \in {"plan", "circular"}
      PROVE  /\ Readable /\ Ordering /\ ready = <<>>
             /\ IsFiniteSet(M) /\ Cardinality(M) <= Len(workflow) /\ Cardinality(M) \in Nat
             /\ Len(workflow) \in Nat /\ Len(ordered) \in Nat
             /\ Done \subseteq M /\ Cardinality(Done) = Len(ordered)
  <2>1. Readable /\ Ordering /\ ready = <<>>
    BY <1>1 DEF CompilerInv
  <2>2. workflow \in Seq(AssetIds) /\ ordered \in Seq(M) /\ Distinct(ordered)
    BY <2>1 DEF Readable, Ordering
  <2>3. IsFiniteSet(M) /\ Cardinality(M) <= Len(workflow)
    BY <2>2, SizeOfSequence DEF Compiler!Members
  <2>4. Done \subseteq M /\ Cardinality(Done) = Len(ordered)
    BY <2>2, SizeOfSequence DEF Done
  <2> QED
    BY <2>1, <2>2, <2>3, <2>4, FS_CardinalityType
<1>2. ASSUME outcome = "plan"
      PROVE  /\ Compiler!ToSet(ordered) = M
             /\ Compiler!Cardinality(M) = Len(ordered)
             /\ \A i \in DOMAIN ordered : \A up \in Compiler!Upstreams(ordered[i]) :
                   \E j \in 1 .. (i - 1) : ordered[j] = up
  <2>1. Len(ordered) = Len(workflow)
    BY <1>2 DEF CompilerInv
  <2>2. Cardinality(Done) <= Cardinality(M)
    BY <1>1, <1>2, FS_Subset
  <2>3. Cardinality(Done) = Cardinality(M)
    BY <1>1, <1>2, <2>1, <2>2
  <2>4. Done = M
    BY <1>1, <1>2, <2>3, FS_Subset
  <2> QED
    BY <1>1, <1>2, <2>3, <2>4, CompilerSizes DEF Done, Ordering
<1>3. ASSUME outcome = "circular" PROVE Compiler!Repeats \/ Compiler!Circular
  <2> SUFFICES ASSUME ~Compiler!Repeats PROVE Compiler!Circular
    OBVIOUS
  <2> DEFINE S == M \ Done
  <2>1. Cardinality(M) = Len(workflow)
    BY CompilerSizes DEF Compiler!Repeats
  <2>2. Len(ordered) # Len(workflow)
    BY <1>3 DEF CompilerInv
  <2>3. Done # M
    BY <1>1, <1>3, <2>1, <2>2
  <2>4. S \in SUBSET M /\ S # {}
    BY <1>1, <1>3, <2>3
  <2>5. \A c \in S : Compiler!Upstreams(c) \cap S # {}
    BY <1>1, <1>3, NothingReady
  <2> HIDE DEF S
  <2> QED
    BY <2>4, <2>5 DEF Compiler!Circular
<1> QED
  BY <1>2, <1>3 DEF PlanSound, Compiler!PlanSound

(* A compiled plan holds every asset of the workflow once, each after all   *)
(* it depends on, and a workflow is refused as circular only if some of its *)
(* assets wait for each other or one is listed twice                        *)
(* (WorkflowCompiler::topological_sort).                                    *)
THEOREM PlansAreSound == Spec => []PlanSound
<1>1. Init => CompilerInv
  <2>1. Compiler!Init => CompilerInv
    BY DEF Compiler!Init, CompilerInv
  <2> QED
    BY <2>1 DEF Init
<1>2. CompilerInv /\ [Next]_vars => CompilerInv'
  BY CompilerAssumption, PlanningSteps, CompilerStep
<1>3. CompilerInv => PlanSound
  BY PlanIsRight
<1> QED
  BY <1>1, <1>2, <1>3, PTL DEF Spec

-----------------------------------------------------------------------------
(* The partition mappings.                                                  *)

(* Every fourth, hundredth, four hundredth year is counted when it comes.   *)
LEMMA LeapDays ==
  ASSUME NEW y \in Nat
  PROVE  /\ y \div 4 - (y - 1) \div 4 = IF y % 4 = 0 THEN 1 ELSE 0
         /\ y \div 100 - (y - 1) \div 100 = IF y % 100 = 0 THEN 1 ELSE 0
         /\ y \div 400 - (y - 1) \div 400 = IF y % 400 = 0 THEN 1 ELSE 0
         /\ y % 400 = 0 => y % 100 = 0
         /\ y % 100 = 0 => y % 4 = 0
<1>1. y \div 4 - (y - 1) \div 4 = IF y % 4 = 0 THEN 1 ELSE 0
  OBVIOUS
<1>2. y \div 100 - (y - 1) \div 100 = IF y % 100 = 0 THEN 1 ELSE 0
  OBVIOUS
<1>3. y \div 400 - (y - 1) \div 400 = IF y % 400 = 0 THEN 1 ELSE 0
  OBVIOUS
<1>4. y % 400 = 0 => y % 100 = 0
  OBVIOUS
<1>5. y % 100 = 0 => y % 4 = 0
  OBVIOUS
<1> QED
  BY <1>1, <1>2, <1>3, <1>4, <1>5

(* The years follow each other: a leap year by 366 days.                    *)
LEMMA YearLength ==
  ASSUME NEW y \in Nat
  PROVE  /\ Mapping!DaysBeforeYear(y) \in Int
         /\ Mapping!DaysBeforeYear(y + 1) - Mapping!DaysBeforeYear(y)
               = IF Mapping!IsLeapYear(y) THEN 366 ELSE 365
<1> DEFINE a == y \div 4  b == y \div 100  c == y \div 400
           a1 == (y - 1) \div 4  b1 == (y - 1) \div 100  c1 == (y - 1) \div 400
<1>1. /\ a \in Int /\ b \in Int /\ c \in Int
      /\ a1 \in Int /\ b1 \in Int /\ c1 \in Int
  OBVIOUS
<1>2. Mapping!DaysBeforeYear(y) = 365*(y - 1) + a1 - b1 + c1
  BY DEF Mapping!DaysBeforeYear
<1>3. Mapping!DaysBeforeYear(y + 1) = 365*y + a - b + c
  <2>1. y + 1 - 1 = y
    OBVIOUS
  <2> QED
    BY <2>1 DEF Mapping!DaysBeforeYear
<1>4. /\ a - a1 = IF y % 4 = 0 THEN 1 ELSE 0
      /\ b - b1 = IF y % 100 = 0 THEN 1 ELSE 0
      /\ c - c1 = IF y % 400 = 0 THEN 1 ELSE 0
      /\ y % 400 = 0 => y % 100 = 0
      /\ y % 100 = 0 => y % 4 = 0
  BY LeapDays
<1>5. 365*y - 365*(y - 1) = 365
  OBVIOUS
<1> HIDE DEF a, b, c, a1, b1, c1
<1> QED
  BY <1>1, <1>2, <1>3, <1>4, <1>5 DEF Mapping!IsLeapYear

\* The first day of a month's successor.
FirstAfter(y, m) ==
    IF m = 12 THEN Mapping!DayNumber(y + 1, 1, 1) ELSE Mapping!DayNumber(y, m + 1, 1)

(* The months follow each other, February by 29 days in a leap year, and    *)
(* the first one begins the year.                                           *)
LEMMA MonthLength ==
  ASSUME NEW y \in Nat, NEW m \in 1 .. 12
  PROVE  /\ Mapping!DayNumber(y, m, 1) \in Int /\ Mapping!DaysInMonth(y, m) \in 28 .. 31
         /\ FirstAfter(y, m) = Mapping!DayNumber(y, m, 1) + Mapping!DaysInMonth(y, m)
         /\ Mapping!DayNumber(y, 1, 1) = Mapping!DaysBeforeYear(y) + 1
<1> DEFINE year == Mapping!DaysBeforeYear(y)  next == Mapping!DaysBeforeYear(y + 1)
           leap == IF Mapping!IsLeapYear(y) THEN 1 ELSE 0
           before == <<0, 31, 59, 90, 120, 151, 181, 212, 243, 273, 304, 334>>
<1>1. year \in Int /\ next = year + 365 + leap /\ leap \in 0 .. 1
  BY YearLength
<1>2. /\ \A k \in 1 .. 12 : Mapping!DayNumber(y, k, 1)
                               = year + (before[k] + IF k > 2 THEN leap ELSE 0) + 1
  <2>1. ASSUME NEW k \in 1 .. 12
        PROVE  Mapping!DaysBeforeMonth(y, k) = before[k] + IF k > 2 THEN leap ELSE 0
    BY <1>1 DEF Mapping!DaysBeforeMonth
  <2> QED
    BY <2>1 DEF Mapping!DayNumber
<1>3. Mapping!DayNumber(y + 1, 1, 1) = next + 1
  <2>1. Mapping!DaysBeforeMonth(y + 1, 1) = 0
    BY DEF Mapping!DaysBeforeMonth
  <2>2. next \in Int
    BY <1>1
  <2> HIDE DEF next
  <2> QED
    BY <2>1, <2>2 DEF Mapping!DayNumber, next
<1>4. Mapping!DaysInMonth(y, m) = IF m \in {1, 3, 5, 7, 8, 10, 12} THEN 31
                                  ELSE IF m = 2 THEN 28 + leap ELSE 30
  BY DEF Mapping!DaysInMonth
<1> HIDE DEF year, next, leap
<1>5. CASE m = 12
  <2>1. FirstAfter(y, m) = next + 1
    BY <1>3, <1>5 DEF FirstAfter
  <2>2. Mapping!DayNumber(y, m, 1) = year + (334 + leap) + 1
    BY <1>2, <1>5
  <2>3. Mapping!DaysInMonth(y, m) = 31
    BY <1>4, <1>5
  <2>4. Mapping!DayNumber(y, 1, 1) = year + 1
    BY <1>1, <1>2
  <2> HIDE DEF before
  <2> QED
    BY <1>1, <2>1, <2>2, <2>3, <2>4 DEF year
<1>6. CASE m \in 1 .. 11
  <2>1. FirstAfter(y, m) = Mapping!DayNumber(y, m + 1, 1)
    BY <1>6 DEF FirstAfter
  <2>2. /\ Mapping!DayNumber(y, m, 1) = year + (before[m] + IF m > 2 THEN leap ELSE 0) + 1
        /\ Mapping!DayNumber(y, m + 1, 1)
              = year + (before[m + 1] + IF m + 1 > 2 THEN leap ELSE 0) + 1
    BY <1>2, <1>6
  <2>3. before[m + 1] = before[m] + IF m \in {1, 3, 5, 7, 8, 10, 12} THEN 31
                                    ELSE IF m = 2 THEN 28 ELSE 30
    BY <1>6
  <2>4. before[m] \in Int
    OBVIOUS
  <2> HIDE DEF before
  <2>5. Mapping!DayNumber(y, m, 1) \in Int /\ Mapping!DaysInMonth(y, m) \in 28 .. 31
    BY <1>1, <1>4, <1>6, <2>2, <2>4
  <2>6. FirstAfter(y, m) = Mapping!DayNumber(y, m, 1) + Mapping!DaysInMonth(y, m)
    BY <1>1, <1>4, <1>6, <2>1, <2>2, <2>3, <2>4
  <2>7. Mapping!DayNumber(y, 1, 1) = year + 1
    BY <1>1, <1>2 DEF before
  <2> QED
    BY <2>5, <2>6, <2>7 DEF year
<1> QED
  BY <1>5, <1>6

(* The months of a year divide its days.                                    *)
LEMMA MonthsOfYear ==
  ASSUME NEW y \in Nat
  PROVE  Mapping!DaysBeforeYear(y) + 1 .. Mapping!DaysBeforeYear(y + 1)
            = UNION {Mapping!DayNumber(y, m, 1) .. FirstAfter(y, m) - 1 : m \in 1 .. 12}
<1> DEFINE F(m) == Mapping!DayNumber(y, m, 1)
<1>1. /\ \A m \in 1 .. 11 : FirstAfter(y, m) = F(m + 1)
      /\ FirstAfter(y, 12) = Mapping!DayNumber(y + 1, 1, 1)
  BY DEF FirstAfter
<1>2. /\ \A m \in 1 .. 12 : F(m) \in Int /\ F(m) < FirstAfter(y, m)
                               /\ FirstAfter(y, m) \in Int
      /\ F(1) = Mapping!DaysBeforeYear(y) + 1
  BY MonthLength
<1>3. Mapping!DayNumber(y + 1, 1, 1) = Mapping!DaysBeforeYear(y + 1) + 1
  BY MonthLength
<1>4. Mapping!DaysBeforeYear(y + 1) \in Int
  BY YearLength
<1> HIDE DEF F
<1>5. /\ F(1) < F(2) /\ F(2) < F(3) /\ F(3) < F(4) /\ F(4) < F(5) /\ F(5) < F(6)
      /\ F(6) < F(7) /\ F(7) < F(8) /\ F(8) < F(9) /\ F(9) < F(10) /\ F(10) < F(11)
      /\ F(11) < F(12) /\ F(12) < FirstAfter(y, 12)
  BY <1>1, <1>2
<1>6. ASSUME NEW d \in Int, F(1) <= d, d < FirstAfter(y, 12)
      PROVE  \E m \in 1 .. 12 : F(m) <= d /\ d < FirstAfter(y, m)
  BY <1>1, <1>2, <1>6
<1>7. ASSUME NEW m \in 1 .. 12 PROVE F(1) <= F(m) /\ FirstAfter(y, m) <= FirstAfter(y, 12)
  BY <1>1, <1>2, <1>5
<1>8. FirstAfter(y, 12) = Mapping!DaysBeforeYear(y + 1) + 1
  BY <1>1, <1>3
<1>9. ASSUME NEW d
      PROVE  d \in Mapping!DaysBeforeYear(y) + 1 .. Mapping!DaysBeforeYear(y + 1)
                <=> \E m \in 1 .. 12 : d \in F(m) .. FirstAfter(y, m) - 1
  BY <1>2, <1>4, <1>6, <1>7, <1>8
<1> QED
  BY <1>9 DEF F

(* A list of days has the days of an interval, each once.                   *)
LEMMA ListOfDays ==
  ASSUME NEW first \in Int, NEW length \in Nat
  PROVE  /\ Mapping!ToSet(Mapping!Days(first, length))
               = {<<"Daily", d>> : d \in first .. first + length - 1}
         /\ Len(Mapping!Days(first, length)) = length
         /\ Mapping!Cardinality(first .. first + length - 1) = length
         /\ length > 0 => /\ Head(Mapping!Days(first, length)) = <<"Daily", first>>
                         /\ Mapping!Last(Mapping!Days(first, length))
                               = <<"Daily", first + length - 1>>
<1> DEFINE s == Mapping!Days(first, length)
<1>1. s = [i \in 1 .. length |-> <<"Daily", first + i - 1>>]
  BY DEF Mapping!Days
<1>2. Mapping!ToSet(s) = {s[i] : i \in 1 .. length}
  BY <1>1 DEF Mapping!ToSet
<1>3. ASSUME NEW d \in first .. first + length - 1
      PROVE  <<"Daily", d>> \in {s[i] : i \in 1 .. length}
  <2>1. d - first + 1 \in 1 .. length /\ first + (d - first + 1) - 1 = d
    OBVIOUS
  <2> QED
    BY <1>1, <2>1
<1>4. ASSUME NEW i \in 1 .. length
      PROVE  s[i] \in {<<"Daily", d>> : d \in first .. first + length - 1}
  <2>1. first + i - 1 \in first .. first + length - 1
    OBVIOUS
  <2> QED
    BY <1>1, <2>1
<1>5. Len(s) = length
  BY <1>1
<1>6. Mapping!Cardinality(first .. first + length - 1) = length
  <2>1. first + length - 1 \in Int /\ length = (first + length - 1) - first + 1
    OBVIOUS
  <2>2. Cardinality(first .. first + length - 1)
           = IF first > first + length - 1 THEN 0 ELSE (first + length - 1) - first + 1
    BY <2>1, FS_Interval
  <2>3. Mapping!Cardinality(first .. first + length - 1)
           = Cardinality(first .. first + length - 1)
    BY DEF Mapping!Cardinality, Cardinality
  <2> QED
    BY <2>1, <2>2, <2>3
<1>7. ASSUME length > 0 PROVE Head(s) = <<"Daily", first>>
  <2>1. Head(s) = s[1] /\ 1 \in 1 .. length /\ first + 1 - 1 = first
    BY <1>1, <1>7
  <2> QED
    BY <1>1, <2>1
<1>8. ASSUME length > 0 PROVE Mapping!Last(s) = <<"Daily", first + length - 1>>
  BY <1>1, <1>5, <1>8 DEF Mapping!Last
<1> HIDE DEF s
<1>9. Mapping!ToSet(s) = {<<"Daily", d>> : d \in first .. first + length - 1}
  BY <1>2, <1>3, <1>4
<1> QED
  BY <1>5, <1>6, <1>7, <1>8, <1>9 DEF s

(* A week or a month is mapped to the list of its days.                     *)
LEMMA PeriodToDays ==
  ASSUME MappingAssumption, NEW key \in Keys, NEW grain \in {"Weekly", "Monthly"},
         Mapping!OfGrain(key, grain)
  PROVE  \E first \in Int, length \in Nat \ {0} :
            /\ Mapping!MapPartition(<<"Aggregation", "Daily", grain>>, key)
                  = Mapping!Days(first, length)
            /\ Mapping!DaysOf(key) = first .. first + length - 1
<1>1. /\ key[1] = grain /\ Mapping!Exists(key)
      /\ key[2] \in Nat /\ grain = "Monthly" => key[3] \in 1 .. 12
      /\ grain = "Weekly" => key[3] \in Nat
  BY DEF MappingAssumption, Mapping!OfGrain
<1>2. Mapping!MapPartition(<<"Aggregation", "Daily", grain>>, key)
         = Mapping!MapTimeAggregation(key, "Daily", grain)
  BY DEF Mapping!MapPartition
<1>3. \A x : Mapping!The({x}) = x
  BY DEF Mapping!The
<1>4. CASE grain = "Weekly"
  <2> DEFINE monday == Mapping!IsoMonday(key[2], key[3])
  <2>1. Mapping!ParseWeekly(key) = {monday}
    BY <1>1, <1>4 DEF Mapping!ParseWeekly, Mapping!Exists
  <2>2. Mapping!MapTimeAggregation(key, "Daily", grain) = Mapping!Days(monday, 7)
    BY <1>3, <1>4, <2>1 DEF Mapping!MapTimeAggregation
  <2>3. Mapping!DaysOf(key) = monday .. monday + 6
    BY <1>1, <1>4 DEF Mapping!DaysOf
  <2>4. monday \in Int
    <3>1. Mapping!DayNumber(key[2], 1, 4) \in Int
      <4>1. Mapping!DaysBeforeYear(key[2]) \in Int /\ Mapping!DaysBeforeMonth(key[2], 1) = 0
        BY <1>1, YearLength DEF Mapping!DaysBeforeMonth
      <4> QED
        BY <4>1 DEF Mapping!DayNumber
    <3> QED
      BY <1>1, <1>4, <3>1 DEF Mapping!IsoMonday, Mapping!MondayOf
  <2> HIDE DEF monday
  <2>5. monday + 6 = monday + 7 - 1
    BY <2>4
  <2> QED
    BY <1>2, <2>2, <2>3, <2>4, <2>5
<1>5. CASE grain = "Monthly"
  <2> DEFINE first == Mapping!DayNumber(key[2], key[3], 1)
             length == Mapping!DaysInMonth(key[2], key[3])
  <2>1. Mapping!ParseMonthly(key) = {<<key[2], key[3]>>}
    BY <1>1, <1>5 DEF Mapping!ParseMonthly
  <2>2. Mapping!MapTimeAggregation(key, "Daily", grain) = Mapping!Days(first, length)
    <3> DEFINE ym == Mapping!The(Mapping!ParseMonthly(key))
    <3>1. Mapping!MapTimeAggregation(key, "Daily", grain)
             = Mapping!Days(Mapping!DayNumber(ym[1], ym[2], 1),
                            Mapping!DaysInMonth(ym[1], ym[2]))
      BY <1>5, <2>1 DEF Mapping!MapTimeAggregation
    <3>2. ym = <<key[2], key[3]>>
      BY <1>3, <2>1
    <3>3. ym[1] = key[2] /\ ym[2] = key[3]
      BY <3>2
    <3> HIDE DEF ym
    <3> QED
      BY <3>1, <3>3
  <2>3. first \in Int /\ length \in Nat \ {0} /\ FirstAfter(key[2], key[3]) = first + length
    BY <1>1, <1>5, MonthLength
  <2>4. Mapping!DaysOf(key) = first .. FirstAfter(key[2], key[3]) - 1
    BY <1>1, <1>5 DEF Mapping!DaysOf, FirstAfter
  <2> HIDE DEF first, length
  <2> QED
    BY <1>2, <2>2, <2>3, <2>4
<1> QED
  BY <1>4, <1>5

(* The upstream partitions of a period are the ones it is made of.          *)
LEMMA AggregationIsExact ==
  ASSUME MappingAssumption, NEW key \in Keys, NEW up \in Types \cup {NoType},
         NEW down \in Types \cup {NoType}, Mapping!Dependencies(key, up, down)
  PROVE  Mapping!AggregationExact'
<1>1. /\ call'.op = "deps" /\ call'.args = <<key, up, down>>
      /\ call'.answer = LET inferred == IF NoType \in {up, down} THEN Mapping!Error
                                        ELSE Mapping!InferMapping(up, down)
                        IN  IF inferred = Mapping!Error THEN <<key>>
                            ELSE Mapping!MapPartition(inferred, key)
  BY DEF Mapping!Dependencies, Mapping!Answer
<1> SUFFICES ASSUME NEW grain \in {"Weekly", "Monthly", "Daily", "Yearly"},
                    down = <<"Time", grain>>, up # NoType, Mapping!OfGrain(key, grain)
             PROVE  /\ up = <<"Time", "Daily">> /\ grain # "Yearly" =>
                        /\ Mapping!ToSet(call'.answer)
                              = {<<"Daily", d>> : d \in Mapping!DaysOf(key)}
                        /\ Len(call'.answer) = Mapping!Cardinality(Mapping!DaysOf(key))
                    /\ up = <<"Time", "Hourly">> /\ grain = "Daily" =>
                        Mapping!ToSet(call'.answer)
                           = {<<"Hourly", h>> : h \in 24 * key[2] .. 24 * key[2] + 23}
                    /\ up = <<"Time", "Monthly">> /\ grain = "Yearly" =>
                        Mapping!DaysOf(key)
                           = UNION {Mapping!DaysOf(m) : m \in Mapping!ToSet(call'.answer)}
  BY <1>1 DEF Mapping!AggregationExact
<1>2. down # NoType
  BY DEF MappingAssumption
<1>3. /\ key[1] = grain /\ key[2] \in Nat
      /\ grain \in {"Daily", "Yearly"} => key = <<grain, key[2]>>
  BY DEF MappingAssumption, Mapping!OfGrain
<1>4. ASSUME NEW g \in {"Daily", "Hourly", "Monthly"}, up = <<"Time", g>>,
             <<g, grain>> \in Mapping!Aggregations
      PROVE  call'.answer = Mapping!MapPartition(<<"Aggregation", g, grain>>, key)
  <2>1. up # down /\ up[1] = "Time" /\ down[1] = "Time" /\ up[2] = g /\ down[2] = grain
    BY <1>4 DEF Mapping!Aggregations
  <2>2. Mapping!InferMapping(up, down) = <<"Aggregation", g, grain>>
    BY <1>4, <2>1 DEF Mapping!InferMapping
  <2>3. <<"Aggregation", g, grain>> # Mapping!Error
    BY DEF Mapping!Error
  <2> QED
    BY <1>1, <1>2, <2>2, <2>3
<1>5. ASSUME up = <<"Time", "Daily">>, grain # "Yearly"
      PROVE  /\ Mapping!ToSet(call'.answer) = {<<"Daily", d>> : d \in Mapping!DaysOf(key)}
             /\ Len(call'.answer) = Mapping!Cardinality(Mapping!DaysOf(key))
  <2>1. CASE grain \in {"Weekly", "Monthly"}
    <3>1. call'.answer = Mapping!MapPartition(<<"Aggregation", "Daily", grain>>, key)
      BY <1>4, <1>5, <2>1 DEF Mapping!Aggregations
    <3>2. PICK first \in Int, length \in Nat \ {0} :
            /\ Mapping!MapPartition(<<"Aggregation", "Daily", grain>>, key)
                  = Mapping!Days(first, length)
            /\ Mapping!DaysOf(key) = first .. first + length - 1
      BY <2>1, PeriodToDays
    <3> QED
      BY <3>1, <3>2, ListOfDays
  <2>2. CASE grain = "Daily"
    <3>1. up = down /\ up[1] = "Time"
      BY <1>5, <2>2
    <3>2. Mapping!InferMapping(up, down) = <<"Identity">>
      BY <1>5, <3>1 DEF Mapping!InferMapping, Mapping!Aggregations
    <3>3. call'.answer = <<key>>
      <4>1. <<"Identity">> # Mapping!Error
        BY DEF Mapping!Error
      <4>2. Mapping!MapPartition(<<"Identity">>, key) = <<key>>
        BY DEF Mapping!MapPartition
      <4> QED
        BY <1>1, <1>2, <3>2, <4>1, <4>2
    <3>4. Mapping!DaysOf(key) = key[2] .. key[2] + 1 - 1 /\ Mapping!DaysOf(key) = {key[2]}
      BY <1>3, <2>2 DEF Mapping!DaysOf
    <3>5. Mapping!ToSet(<<key>>) = {<<"Daily", key[2]>>}
      BY <1>3, <2>2 DEF Mapping!ToSet
    <3>6. Mapping!Cardinality(Mapping!DaysOf(key)) = 1
      <4>1. Cardinality({key[2]}) = 1
        BY FS_Singleton
      <4> QED
        BY <3>4, <4>1 DEF Mapping!Cardinality, Cardinality
    <3> QED
      BY <3>3, <3>4, <3>5, <3>6
  <2> QED
    BY <1>5, <2>1, <2>2
<1>6. ASSUME up = <<"Time", "Hourly">>, grain = "Daily"
      PROVE  Mapping!ToSet(call'.answer)
                = {<<"Hourly", h>> : h \in 24 * key[2] .. 24 * key[2] + 23}
  <2> DEFINE s == [h \in 1 .. 24 |-> <<"Hourly", 24 * key[2] + h - 1>>]
  <2>1. call'.answer = Mapping!MapTimeAggregation(key, "Hourly", "Daily")
    BY <1>4, <1>6 DEF Mapping!Aggregations, Mapping!MapPartition
  <2>2. Mapping!ParseDaily(key) = {key[2]} /\ Mapping!The({key[2]}) = key[2]
    BY <1>3, <1>6 DEF Mapping!ParseDaily, Mapping!The
  <2>3. Mapping!MapTimeAggregation(key, "Hourly", "Daily") = s
    BY <2>2 DEF Mapping!MapTimeAggregation
  <2>4. Mapping!ToSet(s) = {s[i] : i \in 1 .. 24}
    BY DEF Mapping!ToSet
  <2>5. ASSUME NEW i \in 1 .. 24
        PROVE  s[i] \in {<<"Hourly", h>> : h \in 24 * key[2] .. 24 * key[2] + 23}
    <3>1. 24 * key[2] + i - 1 \in 24 * key[2] .. 24 * key[2] + 23
      BY <1>3
    <3> QED
      BY <3>1
  <2>6. ASSUME NEW h \in 24 * key[2] .. 24 * key[2] + 23
        PROVE  <<"Hourly", h>> \in {s[i] : i \in 1 .. 24}
    <3>1. h - 24 * key[2] + 1 \in 1 .. 24 /\ 24 * key[2] + (h - 24 * key[2] + 1) - 1 = h
      BY <1>3
    <3> QED
      BY <3>1
  <2> HIDE DEF s
  <2>7. Mapping!ToSet(s) = {<<"Hourly", h>> : h \in 24 * key[2] .. 24 * key[2] + 23}
    BY <2>4, <2>5, <2>6
  <2> QED
    BY <2>1, <2>3, <2>7
<1>7. ASSUME up = <<"Time", "Monthly">>, grain = "Yearly"
      PROVE  Mapping!DaysOf(key)
                = UNION {Mapping!DaysOf(m) : m \in Mapping!ToSet(call'.answer)}
  <2> DEFINE s == [m \in 1 .. 12 |-> <<"Monthly", key[2], m>>]
             days(m) == Mapping!DayNumber(key[2], m, 1) .. FirstAfter(key[2], m) - 1
  <2>1. call'.answer = Mapping!MapTimeAggregation(key, "Monthly", "Yearly")
    BY <1>4, <1>7 DEF Mapping!Aggregations, Mapping!MapPartition
  <2>2. Mapping!MapTimeAggregation(key, "Monthly", "Yearly") = s
    BY <1>3, <1>7 DEF Mapping!MapTimeAggregation
  <2>3. Mapping!ToSet(s) = {s[m] : m \in 1 .. 12}
    BY DEF Mapping!ToSet
  <2>4. ASSUME NEW m \in 1 .. 12 PROVE Mapping!DaysOf(s[m]) = days(m)
    BY DEF Mapping!DaysOf, FirstAfter
  <2>5. Mapping!DaysOf(key)
           = Mapping!DaysBeforeYear(key[2]) + 1 .. Mapping!DaysBeforeYear(key[2] + 1)
    BY <1>3, <1>7 DEF Mapping!DaysOf
  <2>6. Mapping!DaysOf(key) = UNION {days(m) : m \in 1 .. 12}
    BY <1>3, <2>5, MonthsOfYear
  <2> HIDE DEF s, days
  <2> QED
    BY <2>1, <2>2, <2>3, <2>4, <2>6
<1> QED
  BY <1>5, <1>6, <1>7

(* The range of a child job holds the days of the ends of its parent's: the *)
(* first of the one and the last of the other, and all between.             *)
LEMMA RangeIsCovered ==
  ASSUME MappingAssumption, NEW start \in Keys, NEW end \in Keys, NEW up, NEW down,
         NEW default, Mapping!ResolveRange(default, start, end, up, down)
  PROVE  Mapping!RangeCovers'
<1>1. PICK mapping : /\ call'.op = "range" /\ call'.args = <<mapping, start, end>>
                     /\ call'.answer = Mapping!Ends(mapping, start, end)
  BY DEF Mapping!ResolveRange, Mapping!Answer
<1>2. /\ call'.args[1] = mapping /\ call'.args[2] = start /\ call'.args[3] = end
  BY <1>1
<1>3. ASSUME NEW grain \in {"Weekly", "Monthly"},
             mapping = <<"Aggregation", "Daily", grain>>,
             Mapping!OfGrain(start, grain), Mapping!OfGrain(end, grain),
             \A d \in Mapping!DaysOf(start), e \in Mapping!DaysOf(end) :
                d <= e \/ Mapping!DaysOf(start) = Mapping!DaysOf(end),
             NEW day \in Mapping!DaysOf(start) \cup Mapping!DaysOf(end)
      PROVE  call'.answer[1][2] <= day /\ day <= call'.answer[2][2]
  <2>0. ASSUME NEW key \in {start, end}
        PROVE  \E first \in Int, length \in Nat \ {0} :
                  /\ Mapping!MapPartition(mapping, key) = Mapping!Days(first, length)
                  /\ Mapping!DaysOf(key) = first .. first + length - 1
    <3>1. key \in Keys /\ Mapping!OfGrain(key, grain)
      BY <1>3
    <3>2. \E first \in Int, length \in Nat \ {0} :
            /\ Mapping!MapPartition(<<"Aggregation", "Daily", grain>>, key)
                  = Mapping!Days(first, length)
            /\ Mapping!DaysOf(key) = first .. first + length - 1
      BY <3>1, PeriodToDays
    <3>3. mapping = <<"Aggregation", "Daily", grain>>
      BY <1>3
    <3> QED
      BY <3>2, <3>3
  <2>1. PICK first \in Int, length \in Nat \ {0} :
          /\ Mapping!MapPartition(mapping, start) = Mapping!Days(first, length)
          /\ Mapping!DaysOf(start) = first .. first + length - 1
    BY <2>0
  <2>2. PICK first2 \in Int, length2 \in Nat \ {0} :
          /\ Mapping!MapPartition(mapping, end) = Mapping!Days(first2, length2)
          /\ Mapping!DaysOf(end) = first2 .. first2 + length2 - 1
    BY <2>0
  <2>3. call'.answer = <<Head(Mapping!Days(first, length)),
                         Mapping!Last(Mapping!Days(first2, length2))>>
    BY <1>1, <1>3, <2>1, <2>2 DEF Mapping!Ends
  <2>4. call'.answer = <<<<"Daily", first>>, <<"Daily", first2 + length2 - 1>>>>
    <3>1. /\ first \in Int /\ length \in Nat /\ length > 0
          /\ first2 \in Int /\ length2 \in Nat /\ length2 > 0
      OBVIOUS
    <3>2. Head(Mapping!Days(first, length)) = <<"Daily", first>>
      BY <3>1, ListOfDays
    <3>3. Mapping!Last(Mapping!Days(first2, length2)) = <<"Daily", first2 + length2 - 1>>
      BY <3>1, ListOfDays
    <3> QED
      BY <2>3, <3>2, <3>3
  <2>5. call'.answer[1][2] = first /\ call'.answer[2][2] = first2 + length2 - 1
    BY <2>4
  <2>6. /\ first \in Mapping!DaysOf(start) /\ first + length - 1 \in Mapping!DaysOf(start)
        /\ first2 \in Mapping!DaysOf(end) /\ first2 + length2 - 1 \in Mapping!DaysOf(end)
    BY <2>1, <2>2
  <2>7. CASE Mapping!DaysOf(start) = Mapping!DaysOf(end)
    <3>1. first \in first2 .. first2 + length2 - 1 /\ first2 \in first .. first + length - 1
      BY <2>1, <2>2, <2>6, <2>7
    <3>2. first = first2
      BY <3>1
    <3> QED
      BY <1>3, <2>2, <2>5, <2>7, <3>2
  <2>8. CASE \A d \in Mapping!DaysOf(start), e \in Mapping!DaysOf(end) : d <= e
    <3>1. first <= first2 /\ first + length - 1 <= first2 + length2 - 1
      BY <2>6, <2>8
    <3> QED
      BY <1>3, <2>1, <2>2, <2>5, <3>1
  <2> QED
    BY <1>3, <2>7, <2>8
<1> QED
  BY <1>2, <1>3 DEF Mapping!RangeCovers

(* Every call is answered right, whatever was asked before.                 *)
LEMMA MappingStep ==
  MappingAssumption /\ MappingSound /\ [Mapping!Next]_mappingVars => MappingSound'
<1> SUFFICES ASSUME MappingAssumption, Mapping!MappingSound, [Mapping!Next]_mappingVars
             PROVE  Mapping!AggregationExact' /\ Mapping!RangeCovers'
  BY DEF MappingSound, Mapping!MappingSound
<1>1. ASSUME call'.op # "deps" PROVE Mapping!AggregationExact'
  BY <1>1 DEF Mapping!AggregationExact
<1>2. ASSUME call'.op # "range" PROVE Mapping!RangeCovers'
  BY <1>2 DEF Mapping!RangeCovers
<1>3. ASSUME NEW key \in Keys, NEW up \in Types \cup {NoType}, NEW down \in Types \cup {NoType},
             Mapping!Dependencies(key, up, down)
      PROVE  Mapping!AggregationExact' /\ Mapping!RangeCovers'
  BY <1>2, <1>3, AggregationIsExact DEF Mapping!Dependencies, Mapping!Answer
<1>4. ASSUME NEW start \in Keys, NEW end \in Keys, NEW up, NEW down, NEW default,
             Mapping!ResolveRange(default, start, end, up, down)
      PROVE  Mapping!AggregationExact' /\ Mapping!RangeCovers'
  BY <1>1, <1>4, RangeIsCovered DEF Mapping!ResolveRange, Mapping!Answer
<1>5. ASSUME call'.op \in {"none", "dependency", "mapping", "key", "days"}
      PROVE  Mapping!AggregationExact' /\ Mapping!RangeCovers'
  BY <1>1, <1>2, <1>5
<1>6. ASSUME Mapping!Return PROVE call'.op = "none"
  BY <1>6 DEF Mapping!Return, Mapping!Idle
<1>7. ASSUME NEW start, NEW end, Mapping!GenerateRange(start, end) PROVE call'.op = "days"
  BY <1>7 DEF Mapping!GenerateRange, Mapping!Answer
<1>8. ASSUME NEW up, NEW down, Mapping!ValidateDependency(up, down)
      PROVE  call'.op = "dependency"
  BY <1>8 DEF Mapping!ValidateDependency, Mapping!Answer
<1>9. ASSUME NEW mapping, NEW up, NEW down, Mapping!ValidateWithMapping(mapping, up, down)
      PROVE  call'.op = "mapping"
  BY <1>9 DEF Mapping!ValidateWithMapping, Mapping!Answer
<1>10. ASSUME NEW key, NEW type, Mapping!ValidateKey(key, type) PROVE call'.op = "key"
  BY <1>10 DEF Mapping!ValidateKey, Mapping!Answer
<1>11. CASE Mapping!Ask
  BY <1>3, <1>4, <1>5, <1>7, <1>8, <1>9, <1>10, <1>11 DEF Mapping!Ask
<1>12. CASE Mapping!Return
  BY <1>5, <1>6, <1>12
<1>13. CASE UNCHANGED mappingVars
  BY <1>13 DEF mappingVars, Mapping!MappingSound, Mapping!AggregationExact,
               Mapping!RangeCovers
<1> QED
  BY <1>11, <1>12, <1>13 DEF Mapping!Next

(* The upstream partitions of a period are the days, hours or months it is  *)
(* made of, each once, and the range resolved for a child job holds every   *)
(* day of the ends of the job's range (PartitionMapping::map_time_aggregation *)
(* and PartitionResolver::resolve_upstream_range).                          *)
THEOREM MappingsAreSound == Spec => []MappingSound
<1>1. Init => MappingSound
  <2>1. Mapping!Init => call.op = "none"
    BY DEF Mapping!Init, Mapping!Idle
  <2> QED
    BY <2>1 DEF Init, MappingSound, Mapping!MappingSound, Mapping!AggregationExact,
                Mapping!RangeCovers
<1>2. MappingSound /\ [Next]_vars => MappingSound'
  BY MappingAssumption, PlanningSteps, MappingStep
<1> QED
  BY <1>1, <1>2, PTL DEF Spec

-----------------------------------------------------------------------------
(* The local executor.                                                      *)

Places == {"idle", "get", "mark", "load", "check", "spawn", "stdout", "stderr",
           "record", "returned", "killed"}

LocalType ==
    /\ pc \in [Callers -> Places]
    /\ position \in [Callers -> Nat]
    /\ completed \in [Callers -> Nat]
    /\ late \in [Callers -> Nat]
    /\ result \in [Callers -> {"none", "ok", "error"}]
    /\ DOMAIN reply = Callers
    /\ DOMAIN row \subseteq Callers

\* A call that has a position has created its execution, no two executions
\* share the key, and whoever writes a row finds it there.
Created ==
    /\ \A c \in Callers :
          pc[c] \in Places \ {"idle", "get", "returned", "killed"} \/ position[c] # 0
             => c \in DOMAIN row
    /\ \A c, d \in Keyed \cap DOMAIN row : c = d
    /\ canceller # Local!Idle => canceller[2] \in DOMAIN row

\* While a call is in the loop, the assets before its position are completed.
Counted(c) ==
    /\ pc[c] \in {"idle", "get", "mark", "load"} => completed[c] = 0
    /\ pc[c] \in {"check", "spawn", "stdout", "stderr"} =>
          position[c] \in 1 .. NumAssets /\ completed[c] + 1 = position[c]
    /\ pc[c] = "record" /\ result[c] = "ok" => completed[c] = NumAssets

\* The run of x is over and all of its assets ended well.
AllDone(x) == x \in Callers /\ pc[x] = "returned" /\ completed[x] = NumAssets

Truthful(c) == reply[c] # Local!NoAnswer /\ reply[c][2] => AllDone(reply[c][1])

Justified ==
    /\ \A x \in DOMAIN row : row[x] = "succeeded" => AllDone(x)
    /\ \A c \in Callers : Truthful(c)

\* An asset started after the cancellation is the last of its run.
LastStart ==
    \A c \in Callers : /\ late[c] <= 1
                       /\ late[c] = 1 => Local!CancelSeen(c) /\ pc[c] # "spawn"

LInv ==
    LocalType /\ Created /\ (\A c \in Callers : Counted(c)) /\ Justified /\ LastStart
(* Before the first call there is no execution.                             *)
LEMMA InitLInv == NumAssets \in Nat /\ Local!Init => LInv
  BY DEF Local!Init, LInv, LocalType, Places, Created, Counted, Justified,
       LastStart, AllDone,
     Truthful, Local!Idle, Local!NoAnswer

(* Types, and what a call has created, survive every step.                  *)
LEMMA CreatedStep ==
  ASSUME NumAssets \in Nat, LInv, [Local!Next]_localVars
  PROVE  LocalType' /\ Created'
<1> DEFINE Goal == LocalType /\ Created
<1> USE DEF LInv, LocalType, Places, Created, Local!Goto, Local!Return,
            Local!EndsAs, Local!SetState, localVars,
            Local!cancelVars, Local!Reading, Local!Ended
<1>1. ASSUME NEW c \in Callers, Local!Create(c), UNCHANGED Local!cancelVars
      PROVE  Goal'
  BY <1>1 DEF Local!Create, Local!Existing
<1>2. ASSUME NEW c \in Callers, Local!GetExisting(c), UNCHANGED Local!cancelVars
      PROVE  Goal'
  BY <1>2 DEF Local!GetExisting
<1>3. ASSUME NEW c \in Callers, Local!MarkRunning(c), UNCHANGED Local!cancelVars
      PROVE  Goal'
  BY <1>3 DEF Local!MarkRunning
<1>4. ASSUME NEW c \in Callers, Local!Load(c), UNCHANGED Local!cancelVars
      PROVE  Goal'
  BY <1>4 DEF Local!Load
<1>5. ASSUME NEW c \in Callers, Local!CheckCancelled(c), UNCHANGED Local!cancelVars
      PROVE  Goal'
  BY <1>5 DEF Local!CheckCancelled
<1>6. ASSUME NEW c \in Callers, Local!Spawn(c), UNCHANGED Local!cancelVars
      PROVE  Goal'
  BY <1>6 DEF Local!Spawn
<1>7. ASSUME NEW c \in Callers, Local!Collect(c), UNCHANGED Local!cancelVars
      PROVE  Goal'
  BY <1>7 DEF Local!Collect
<1>8. ASSUME NEW c \in Callers, Local!Record(c), UNCHANGED Local!cancelVars
      PROVE  Goal'
  BY <1>8 DEF Local!Record
<1>9. ASSUME NEW c \in Callers, Local!DatabaseFails(c), UNCHANGED Local!cancelVars
      PROVE  Goal'
  BY <1>9 DEF Local!DatabaseFails
<1>10. ASSUME NEW c \in Callers, Local!Timer(c) PROVE Goal'
  BY <1>10 DEF Local!Timer, Local!Timeout
<1>11. ASSUME NEW c \in Callers, Local!Python(c) \/ Local!Kill(c) PROVE Goal'
  BY <1>11 DEF Local!Python, Local!Kill
<1>12. ASSUME NEW c \in Callers, Local!StdoutFull(c), UNCHANGED Local!cancelVars
       PROVE  Goal'
  BY <1>12 DEF Local!StdoutFull
<1>13. CASE Local!Cancel
  BY <1>13 DEF Local!Cancel, Local!CancelFlag, Local!CancelRead, Local!CancelWrite,
       Local!Idle
<1>14. CASE UNCHANGED localVars
  BY <1>14
<1> QED
  BY <1>1, <1>2, <1>3, <1>4, <1>5, <1>6, <1>7, <1>8, <1>9, <1>10, <1>11, <1>12, <1>13, <1>14
  DEF Local!Next, Local!Call

(* An answer is true if the execution it names is done when it says so.     *)
LEMMA TruthfulAnswer ==
  ASSUME NEW c, NEW x, NEW success \in BOOLEAN,
         reply'[c] = <<x, success>>, success => AllDone(x)'
  PROVE  Truthful(c)'
<1>1. reply'[c][1] = x /\ (reply'[c][2] <=> success)
  OBVIOUS
<1> QED
  BY <1>1, Zenon DEF Truthful

(* An answer that has been given stays true as long as finished runs stay.  *)
LEMMA TruthfulStays ==
  ASSUME NEW d, Truthful(d), reply'[d] = reply[d], \A x : AllDone(x) => AllDone(x)'
  PROVE  Truthful(d)'
<1>1. PICK x : x = reply[d][1]
  OBVIOUS
<1>2. reply[d] # Local!NoAnswer /\ reply[d][2] => AllDone(x)'
  BY <1>1, Zenon DEF Truthful
<1>3. x = reply'[d][1]
  BY <1>1
<1> QED
  BY <1>2, <1>3, Zenon DEF Truthful, Local!NoAnswer, AllDone

(* A call that finds the execution of its key reports it as it stands.      *)
LEMMA GetExistingJustified ==
  ASSUME LInv, NEW c \in Callers, Local!GetExisting(c)
  PROVE  (\A d \in Callers : Counted(d)') /\ Justified'
<1>1. PICK x \in Local!Existing(c) : Local!Return(c, x, row[x] = "succeeded")
  BY DEF Local!GetExisting
<1>2. /\ pc[c] = "get" /\ x \in DOMAIN row
      /\ UNCHANGED <<row, position, result, completed>>
  BY DEF Local!GetExisting, Local!Existing
<1>3. pc \in [Callers -> Places] /\ DOMAIN reply = Callers
  BY DEF LInv, LocalType
<1> DEFINE success == row[x] = "succeeded"
<1>4. /\ success \in BOOLEAN /\ reply'[c] = <<x, success>> /\ pc'[c] = "returned"
      /\ \A d \in Callers \ {c} : reply'[d] = reply[d] /\ pc'[d] = pc[d]
  BY <1>1, <1>3 DEF Local!Return, Local!Goto
<1>5. \A d \in Callers : Counted(d)'
  BY <1>2, <1>4 DEF LInv, Counted
<1>6. \A y : AllDone(y) => AllDone(y)'
  BY <1>2, <1>4 DEF AllDone
<1>7. success => AllDone(x)'
  BY <1>2, <1>6 DEF LInv, Justified
<1>8. \A y \in DOMAIN row' : row'[y] = "succeeded" => AllDone(y)'
  BY <1>2, <1>6 DEF LInv, Justified
<1> HIDE DEF success
<1>9. Truthful(c)'
  BY <1>4, <1>7, TruthfulAnswer
<1>10. ASSUME NEW d \in Callers \ {c} PROVE Truthful(d)'
  <2>1. Truthful(d) /\ reply'[d] = reply[d]
    BY <1>4 DEF LInv, Justified
  <2> QED
    BY <1>6, <2>1, TruthfulStays
<1> QED
  BY <1>5, <1>8, <1>9, <1>10 DEF Justified

(* A call that records its own run reports what it records.                 *)
LEMMA RecordJustified ==
  ASSUME LInv, NEW c \in Callers, Local!Record(c)
  PROVE  (\A d \in Callers : Counted(d)') /\ Justified'
<1>1. /\ pc[c] = "record" /\ UNCHANGED <<position, result, completed>>
      /\ Local!SetState(c, IF result[c] = "ok" THEN "succeeded" ELSE "failed")
      /\ Local!Return(c, c, result[c] = "ok")
  BY DEF Local!Record
<1>2. /\ pc \in [Callers -> Places] /\ DOMAIN reply = Callers
      /\ c \in DOMAIN row
  BY <1>1 DEF LInv, LocalType, Created, Places
<1> DEFINE success == result[c] = "ok"
<1>3. /\ success \in BOOLEAN /\ reply'[c] = <<c, success>> /\ pc'[c] = "returned"
      /\ \A d \in Callers \ {c} : reply'[d] = reply[d] /\ pc'[d] = pc[d]
  BY <1>1, <1>2 DEF Local!Return, Local!Goto
<1>4. /\ DOMAIN row' = DOMAIN row
      /\ row'[c] = "succeeded" => success
      /\ \A d \in DOMAIN row \ {c} : row'[d] = row[d]
  BY <1>1, <1>2 DEF Local!SetState
<1>5. \A d \in Callers : Counted(d)'
  BY <1>1, <1>3 DEF LInv, Counted
<1>6. \A x : AllDone(x) => AllDone(x)'
  BY <1>1, <1>3 DEF AllDone
<1>7. success => AllDone(c)'
  BY <1>1, <1>3 DEF LInv, Counted, AllDone
<1>8. \A x \in DOMAIN row' : row'[x] = "succeeded" => AllDone(x)'
  BY <1>4, <1>6, <1>7 DEF LInv, Justified
<1> HIDE DEF success
<1>9. Truthful(c)'
  BY <1>3, <1>7, TruthfulAnswer
<1>10. ASSUME NEW d \in Callers \ {c} PROVE Truthful(d)'
  <2>1. Truthful(d) /\ reply'[d] = reply[d]
    BY <1>3 DEF LInv, Justified
  <2> QED
    BY <1>6, <2>1, TruthfulStays
<1> QED
  BY <1>5, <1>8, <1>9, <1>10 DEF Justified

(* The count of completed assets follows the position of the call, and a    *)
(* success is recorded or reported only with all of them.                   *)
LEMMA JustifiedStep ==
  ASSUME NumAssets \in Nat, LInv, [Local!Next]_localVars
  PROVE  (\A c \in Callers : Counted(c)') /\ Justified'
<1> DEFINE Goal == (\A d \in Callers : Counted(d)) /\ Justified
<1> USE DEF LInv, LocalType, Places, Counted, Justified, AllDone, Truthful,
            Local!Goto, Local!Return,
            Local!EndsAs, Local!SetState, localVars, Local!cancelVars, Local!Reading,
            Local!Ended, Local!GetWorkflowAssets, Local!NoAnswer
<1>1. ASSUME NEW c \in Callers, Local!Create(c), UNCHANGED Local!cancelVars
      PROVE  Goal'
  BY <1>1 DEF Local!Create
<1>2. ASSUME NEW c \in Callers, Local!GetExisting(c), UNCHANGED Local!cancelVars
      PROVE  Goal'
  BY <1>2, GetExistingJustified DEF Justified
<1>3. ASSUME NEW c \in Callers, Local!MarkRunning(c), UNCHANGED Local!cancelVars
      PROVE  Goal'
  BY <1>3 DEF Local!MarkRunning
<1>4. ASSUME NEW c \in Callers, Local!Load(c), UNCHANGED Local!cancelVars
      PROVE  Goal'
  <2>1. UNCHANGED <<row, reply, completed>> /\ pc[c] = "load" /\ completed[c] = 0
    BY <1>4 DEF Local!Load
  <2>2. \A d \in Callers \ {c} : /\ pc'[d] = pc[d] /\ result'[d] = result[d]
                                /\ position'[d] = position[d]
    BY <1>4 DEF Local!Load
  <2>3. \/ pc'[c] = "record" /\ result'[c] = "error"
        \/ pc'[c] = "record" /\ result'[c] = "ok" /\ 1 .. NumAssets = {}
        \/ pc'[c] = "check" /\ position'[c] = 1 /\ 1 .. NumAssets # {}
    BY <1>4 DEF Local!Load
  <2>4. Counted(c)'
    <3>1. 1 .. NumAssets = {} => NumAssets = 0
      <4>1. 1 \notin 1 .. NumAssets => NumAssets = 0
        OBVIOUS
      <4> QED
        BY <4>1
    <3>2. CASE pc'[c] = "record" /\ result'[c] = "error"
      BY <2>1, <3>2
    <3>3. CASE pc'[c] = "record" /\ result'[c] = "ok" /\ 1 .. NumAssets = {}
      BY <2>1, <3>1, <3>3
    <3>4. CASE pc'[c] = "check" /\ position'[c] = 1 /\ 1 .. NumAssets # {}
      BY <2>1, <3>4
    <3> QED
      BY <2>3, <3>2, <3>3, <3>4
  <2>5. \A d \in Callers \ {c} : Counted(d)'
    BY <2>1, <2>2
  <2>6. Justified'
    BY <2>1, <2>2
  <2> QED
    BY <2>4, <2>5, <2>6
<1>5. ASSUME NEW c \in Callers, Local!CheckCancelled(c), UNCHANGED Local!cancelVars
      PROVE  Goal'
  <2>1. /\ UNCHANGED <<row, position, reply, completed>> /\ pc[c] = "check"
        /\ pc'[c] = "spawn" \/ (pc'[c] = "record" /\ result'[c] = "error")
    BY <1>5 DEF Local!CheckCancelled
  <2>2. \A d \in Callers \ {c} : pc'[d] = pc[d] /\ result'[d] = result[d]
    BY <1>5 DEF Local!CheckCancelled
  <2>3. Counted(c)'
    BY <2>1
  <2>4. \A d \in Callers \ {c} : Counted(d)'
    BY <2>1, <2>2
  <2>5. Justified'
    BY <2>1, <2>2
  <2> QED
    BY <2>3, <2>4, <2>5
<1>6. ASSUME NEW c \in Callers, Local!Spawn(c), UNCHANGED Local!cancelVars
      PROVE  Goal'
  BY <1>6 DEF Local!Spawn
<1>7. ASSUME NEW c \in Callers, Local!Collect(c), UNCHANGED Local!cancelVars
      PROVE  Goal'
  <2>1. /\ UNCHANGED <<row, reply>>
        /\ pc[c] \in Local!Reading /\ position[c] \in 1 .. NumAssets
        /\ completed[c] + 1 = position[c]
    BY <1>7 DEF Local!Collect
  <2>2. \A d \in Callers \ {c} : /\ pc'[d] = pc[d] /\ result'[d] = result[d]
                                /\ position'[d] = position[d]
                                /\ completed'[d] = completed[d]
    BY <1>7 DEF Local!Collect
  <2>3. \/ pc'[c] = "record" /\ result'[c] = "error"
        \/ /\ pc'[c] = "record" /\ completed'[c] = completed[c] + 1
           /\ position[c] + 1 \notin 1 .. NumAssets
        \/ /\ pc'[c] = "check" /\ completed'[c] = completed[c] + 1
           /\ position[c] + 1 \in 1 .. NumAssets /\ position'[c] = position[c] + 1
    BY <1>7 DEF Local!Collect
  <2>4. Counted(c)'
    BY <2>1, <2>3
  <2>5. \A d \in Callers \ {c} : Counted(d)'
    BY <2>2
  <2>6. \A x : AllDone(x) => AllDone(x)'
    BY <2>1, <2>2
  <2> QED
    BY <2>1, <2>4, <2>5, <2>6
<1>8. ASSUME NEW c \in Callers, Local!Record(c), UNCHANGED Local!cancelVars
      PROVE  Goal'
  BY <1>8, RecordJustified DEF Justified
<1>9. ASSUME NEW c \in Callers, Local!DatabaseFails(c), UNCHANGED Local!cancelVars
      PROVE  Goal'
  BY <1>9 DEF Local!DatabaseFails
<1>10. ASSUME NEW c \in Callers, Local!Timer(c) PROVE Goal'
  BY <1>10 DEF Local!Timer, Local!Timeout
<1>11. ASSUME NEW c \in Callers, Local!Python(c) \/ Local!Kill(c) PROVE Goal'
  BY <1>11 DEF Local!Python, Local!Kill
<1>12. ASSUME NEW c \in Callers, Local!StdoutFull(c), UNCHANGED Local!cancelVars
       PROVE  Goal'
  BY <1>12 DEF Local!StdoutFull
<1>13. CASE Local!Cancel
  BY <1>13 DEF Local!Cancel, Local!CancelFlag, Local!CancelRead, Local!CancelWrite,
       Local!Idle, Created
<1>14. CASE UNCHANGED localVars
  BY <1>14
<1> QED
  BY <1>1, <1>2, <1>3, <1>4, <1>5, <1>6, <1>7, <1>8, <1>9, <1>10, <1>11, <1>12, <1>13, <1>14
  DEF Local!Next, Local!Call

(* Flags are only ever set, and a call whose flag is set does not get past  *)
(* its next check.                                                          *)
LEMMA LastStartStep ==
  ASSUME LInv, [Local!Next]_localVars
  PROVE  LastStart'
<1> USE DEF LInv, LocalType, Places, LastStart, Local!CancelSeen, Local!Goto,
            Local!Return, Local!EndsAs, localVars,
            Local!cancelVars, Local!Reading, Local!Ended
<1>1. ASSUME NEW c \in Callers, UNCHANGED Local!cancelVars,
             \/ Local!Create(c) \/ Local!GetExisting(c)
             \/ Local!MarkRunning(c) \/ Local!Load(c)
      PROVE  LastStart'
  BY <1>1 DEF Local!Create, Local!GetExisting, Local!MarkRunning, Local!Load
<1>2. ASSUME NEW c \in Callers, Local!CheckCancelled(c), UNCHANGED Local!cancelVars
      PROVE  LastStart'
  BY <1>2 DEF Local!CheckCancelled
<1>3. ASSUME NEW c \in Callers, Local!Spawn(c), UNCHANGED Local!cancelVars
      PROVE  LastStart'
  <2>1. late[c] = 0 /\ pc'[c] # "spawn"
    BY <1>3 DEF Local!Spawn
  <2>2. late'[c] = 0 \/ (late'[c] = 1 /\ Local!CancelSeen(c))
    <3>1. \/ late' = late
          \/ late' = [late EXCEPT ![c] = IF Local!CancelSeen(c) THEN @ + 1 ELSE @]
      BY <1>3 DEF Local!Spawn
    <3> QED
      BY <2>1, <3>1
  <2>3. /\ \A d \in Callers \ {c} : late'[d] = late[d] /\ pc'[d] = pc[d]
        /\ flags' = flags
    BY <1>3 DEF Local!Spawn
  <2>4. late'[c] <= 1 /\ (late'[c] = 1 => Local!CancelSeen(c)' /\ pc'[c] # "spawn")
    BY <2>1, <2>2, <2>3
  <2>5. ASSUME NEW d \in Callers \ {c}
        PROVE  late'[d] <= 1 /\ (late'[d] = 1 => Local!CancelSeen(d)' /\ pc'[d] # "spawn")
    <3>1. late[d] <= 1 /\ (late[d] = 1 => Local!CancelSeen(d) /\ pc[d] # "spawn")
      OBVIOUS
    <3>2. /\ late'[d] = late[d] /\ pc'[d] = pc[d]
          /\ Local!CancelSeen(d) => Local!CancelSeen(d)'
      BY <2>3
    <3> QED
      BY <3>1, <3>2
  <2> QED
    BY <2>4, <2>5
<1>4. ASSUME NEW c \in Callers, UNCHANGED Local!cancelVars,
             \/ Local!Collect(c) \/ Local!Record(c) \/ Local!DatabaseFails(c)
             \/ Local!StdoutFull(c) \/ Local!Timer(c)
      PROVE  LastStart'
  BY <1>4 DEF Local!Collect, Local!Record, Local!DatabaseFails, Local!StdoutFull,
       Local!Timer, Local!Timeout
<1>5. ASSUME NEW c \in Callers, Local!Python(c) \/ Local!Kill(c) PROVE LastStart'
  BY <1>5 DEF Local!Python, Local!Kill
<1>6. CASE Local!Cancel
  BY <1>6 DEF Local!Cancel, Local!CancelFlag, Local!CancelRead, Local!CancelWrite
<1>7. CASE UNCHANGED localVars
  BY <1>7
<1> QED
  BY <1>1, <1>2, <1>3, <1>4, <1>5, <1>6, <1>7 DEF Local!Next, Local!Call,
       Local!Timer

(* Callers that share a key share one run, success is reported of an        *)
(* execution all of whose assets ended well, and a cancellation lets at     *)
(* most the asset whose check is past still start.                          *)
THEOREM LocalRunsAreSound == Spec => []RunsSound
<1>1. Init => LInv
  BY PlanningAssumption, InitLInv DEF Init
<1>2. LInv /\ [Next]_vars => LInv'
  BY PlanningAssumption, PlanningSteps, CreatedStep, JustifiedStep, LastStartStep DEF
       LInv
<1>3. ASSUME LInv PROVE RunsSound
  <2>1. \A c, d \in Keyed : c # d => position[c] = 0 \/ position[d] = 0
    BY <1>3, PlanningAssumption DEF LInv, LocalType, Created
  <2>2. \A c \in Callers :
           reply[c] # Local!NoAnswer /\ reply[c][2] => completed[reply[c][1]] = NumAssets
    BY <1>3 DEF LInv, Justified, Truthful, AllDone
  <2>3. Local!CancelStopsSoon
    BY <1>3 DEF LInv, LastStart, Local!CancelStopsSoon
  <2> QED
    BY <2>1, <2>2, <2>3 DEF RunsSound, Local!RunsSound, Local!OneRunPerKey
<1> QED
  BY <1>1, <1>2, <1>3, PTL DEF Spec
-----------------------------------------------------------------------------
(* The retry policy.                                                        *)

\* A call that goes on has an attempt left, and sleeps only within its time.
RetryInv ==
    /\ attempt \in Nat /\ elapsed \in Int /\ wake \in Int /\ started \in Int
    /\ attempt <= MaxAttempts
    /\ phase \in {"calling", "sleeping"} => attempt < MaxAttempts
    /\ phase = "sleeping" => wake < MaxElapsed + MaxDelay
    /\ started < MaxElapsed + MaxDelay

(* No delay is longer than the cap, whatever the strategy and the attempt.  *)
LEMMA DelayUnderCap ==
  ASSUME strategy \in Strategies, NEW n \in Nat, NEW delay \in Retry!Delays(n)
  PROVE  delay \in Int /\ delay <= MaxDelay
<1>1. InitialDelay * 2^n \in Int
  BY PlanningAssumption
<1>2. Retry!CappedDelay(n) \in Int /\ Retry!CappedDelay(n) <= MaxDelay
  BY <1>1, PlanningAssumption DEF Retry!CappedDelay, Retry!Least
<1>3. CASE strategy = "None"
  BY <1>3, PlanningAssumption DEF Retry!Delays
<1>4. CASE strategy = "Fixed"
  BY <1>4, PlanningAssumption DEF Retry!Delays
<1>5. CASE strategy = "Exponential"
  BY <1>2, <1>5 DEF Retry!Delays
<1>6. CASE strategy = "ExponentialWithJitter"
  <2>1. delay \in 0 .. Retry!CappedDelay(n)
    BY <1>6 DEF Retry!Delays
  <2> QED
    BY <1>2, <2>1, PlanningAssumption
<1> QED
  BY <1>3, <1>4, <1>5, <1>6 DEF Strategies

(* A sleep begins only while there is time, and ends at most a capped delay *)
(* later; every other step leaves the bounds alone or starts a new call.    *)
LEMMA RetryStep ==
  RetryInv /\ strategy \in Strategies /\ [Retry!Next]_retryVars
    => RetryInv' /\ (strategy \in Strategies)'
<1> SUFFICES ASSUME RetryInv, strategy \in Strategies, [Retry!Next]_retryVars
             PROVE  RetryInv' /\ (strategy \in Strategies)'
  OBVIOUS
<1> USE PlanningAssumption DEF RetryInv
<1>1. CASE Retry!Tick
  BY <1>1 DEF Retry!Tick
<1>2. CASE Retry!Succeed
  BY <1>2 DEF Retry!Succeed
<1>3. CASE Retry!FailForGood
  BY <1>3 DEF Retry!FailForGood
<1>4. CASE Retry!FailTransiently
  <2>1. UNCHANGED <<strategy, elapsed, started>> /\ attempt' = attempt + 1
        /\ attempt < MaxAttempts
    BY <1>4 DEF Retry!FailTransiently
  <2>2. CASE Retry!GivesUp(attempt + 1)
    BY <1>4, <2>1, <2>2 DEF Retry!FailTransiently
  <2>3. CASE ~Retry!GivesUp(attempt + 1)
    <3>1. PICK delay \in Retry!Delays(attempt) : wake' = elapsed + delay
      BY <1>4, <2>3 DEF Retry!FailTransiently
    <3>2. delay \in Int /\ delay <= MaxDelay
      BY <3>1, DelayUnderCap
    <3>3. elapsed < MaxElapsed /\ attempt + 1 < MaxAttempts
      BY <2>3 DEF Retry!GivesUp
    <3> QED
      BY <2>1, <3>1, <3>2, <3>3
  <2> QED
    BY <2>2, <2>3
<1>5. CASE Retry!Wake
  BY <1>5 DEF Retry!Wake
<1>6. CASE Retry!Again
  BY <1>6 DEF Retry!Again
<1>7. CASE UNCHANGED retryVars
  BY <1>7 DEF retryVars
<1> QED
  BY <1>1, <1>2, <1>3, <1>4, <1>5, <1>6, <1>7 DEF Retry!Next

(* However slow attempts and sleeps add up, no attempt begins later than a  *)
(* capped delay after the time of the policy, and there are not more of     *)
(* them than it allows, for every policy.                                   *)
THEOREM RetriesAreBounded == Spec => []RetryBounded
<1>1. Init => RetryInv /\ strategy \in Strategies
  BY PlanningAssumption DEF Init, Retry!Init, RetryInv
<1>2. RetryInv /\ strategy \in Strategies /\ [Next]_vars
        => RetryInv' /\ (strategy \in Strategies)'
  BY PlanningSteps, RetryStep
<1>3. RetryInv => RetryBounded
  BY DEF RetryInv, RetryBounded, Retry!RetryBounded
<1> QED
  BY <1>1, <1>2, <1>3, PTL DEF Spec
-----------------------------------------------------------------------------
(* The estimate.                                                            *)

Between(x, unit) ==
    /\ \E d \in observed : d * unit <= x
    /\ \E d \in observed : x <= d * unit

\* What is saved and what is averaged lie between two observed durations.
EtaInv ==
    /\ observed \subseteq Nat /\ remaining \in Nat
    /\ average \in Int /\ count \in Nat /\ saved \in Int
    /\ saved # -1 => Between(saved, 1)
    /\ count # 0 => Between(average, Fractions)

(* Rounding down keeps a lower bound and an upper bound.                    *)
LEMMA DivisionBounds ==
  ASSUME NEW x \in Int, NEW unit \in Nat \ {0}, NEW lo \in Int, NEW hi \in Int
  PROVE  /\ x \div unit \in Int
         /\ lo * unit <= x => lo <= x \div unit
         /\ x < (hi + 1) * unit => x \div unit <= hi
<1>1. x \div unit \in Int
  OBVIOUS
<1>2. lo * unit <= x => lo <= x \div unit
  OBVIOUS
<1>3. x < (hi + 1) * unit => x \div unit <= hi
  OBVIOUS
<1> QED
  BY <1>1, <1>2, <1>3

(* Rounding to milliseconds does not leave the bounds.                      *)
LEMMA RoundingBounds ==
  ASSUME NEW x \in Int, NEW lo \in Int, NEW hi \in Int,
         lo * Fractions <= x, x <= hi * Fractions
  PROVE  /\ Eta!InMilliseconds(x) \in Int
         /\ lo <= Eta!InMilliseconds(x) /\ Eta!InMilliseconds(x) <= hi
<1> DEFINE half == Fractions \div 2
<1>1. Fractions \in Nat \ {0} /\ half \in Nat /\ half < Fractions
  BY PlanningAssumption
<1> HIDE DEF half
<1>2. x + half \in Int /\ lo * Fractions <= x + half
  <2>1. lo * Fractions \in Int
    BY <1>1
  <2> QED
    BY <1>1, <2>1
<1>3. x + half < (hi + 1) * Fractions
  <2>1. (hi + 1) * Fractions = hi * Fractions + Fractions /\ hi * Fractions \in Int
    BY <1>1
  <2> QED
    BY <1>1, <2>1
<1>4. Eta!InMilliseconds(x) = (x + half) \div Fractions
  BY DEF Eta!InMilliseconds, half
<1> QED
  BY <1>1, <1>2, <1>3, <1>4, DivisionBounds

(* A product is monotonic in its first factor.                              *)
LEMMA ProductGrows ==
  ASSUME NEW a \in Int, NEW b \in Int, NEW r \in Nat, a <= b
  PROVE  a * r <= b * r
  OBVIOUS

(* A weighted mean of two values lies between bounds of both.               *)
LEMMA MeanBounds ==
  ASSUME NEW x \in Int, NEW y \in Int, NEW lo \in Int, NEW hi \in Int,
         lo <= x, lo <= y, x <= hi, y <= hi
  PROVE  LET mean == (3 * x + 7 * y) \div 10
         IN  mean \in Int /\ lo <= mean /\ mean <= hi
  OBVIOUS

(* A further observation does not narrow the bounds.                        *)
LEMMA BetweenKept ==
  ASSUME NEW x, NEW unit, Between(x, unit), observed \subseteq observed'
  PROVE  (\E d \in observed' : d * unit <= x) /\ (\E d \in observed' : x <= d * unit)
  BY DEF Between

(* What is saved of an average within the bounds is within the bounds.      *)
LEMMA SavedBetween ==
  ASSUME NEW seen, seen \subseteq Nat, NEW x \in Int,
         \E d \in seen : d * Fractions <= x, \E d \in seen : x <= d * Fractions
  PROVE  /\ Eta!InMilliseconds(x) \in Int
         /\ Eta!InMilliseconds(x) # -1
         /\ \E d \in seen : d * 1 <= Eta!InMilliseconds(x)
         /\ \E d \in seen : Eta!InMilliseconds(x) <= d * 1
<1>1. PICK lo \in seen : lo * Fractions <= x
  OBVIOUS
<1>2. PICK hi \in seen : x <= hi * Fractions
  OBVIOUS
<1>3. lo \in Nat /\ hi \in Nat /\ lo * 1 = lo /\ hi * 1 = hi
  OBVIOUS
<1>4. /\ Eta!InMilliseconds(x) \in Int
      /\ lo <= Eta!InMilliseconds(x) /\ Eta!InMilliseconds(x) <= hi
  BY <1>1, <1>2, <1>3, RoundingBounds
<1> QED
  BY <1>3, <1>4

(* The mean with a new observation lies between the observations.           *)
LEMMA ObserveAverage ==
  ASSUME EtaInv, NEW duration \in Durations, Eta!Observe(duration)
  PROVE  /\ average' \in Int
         /\ \E d \in observed' : d * Fractions <= average'
         /\ \E d \in observed' : average' <= d * Fractions
<1> DEFINE value == duration * Fractions
<1>1. duration \in Nat /\ Fractions \in Nat \ {0} /\ value \in Int
  BY PlanningAssumption
<1>2. observed' = observed \cup {duration}
  BY DEF Eta!Observe
<1>3. CASE count = 0
  <2>1. average' = value
    BY <1>3 DEF Eta!Observe, Eta!Smoothed
  <2> QED
    BY <1>1, <1>2, <2>1
<1>4. CASE count # 0
  <2>1. average' = (3 * duration * Fractions + 7 * average) \div 10
    BY <1>4 DEF Eta!Observe, Eta!Smoothed
  <2>2. 3 * duration * Fractions = 3 * value
    BY <1>1
  <2>3. average' = (3 * value + 7 * average) \div 10
    BY <2>1, <2>2
  <2>4. PICK lo \in observed, hi \in observed :
           lo * Fractions <= average /\ average <= hi * Fractions
    BY <1>4 DEF EtaInv, Between
  <2>5. /\ lo \in Nat /\ hi \in Nat /\ average \in Int
        /\ lo * Fractions \in Int /\ hi * Fractions \in Int
    BY <1>1 DEF EtaInv
  <2>6. PICK low \in observed' : low \in Nat /\ low * Fractions \in Int
                                 /\ low * Fractions <= value /\ low * Fractions <= average
    <3>1. CASE lo <= duration
      <4>1. lo * Fractions <= value
        BY <1>1, <2>5, <3>1, ProductGrows
      <4> QED
        BY <1>2, <2>4, <2>5, <4>1
    <3>2. CASE duration < lo
      <4>1. value <= lo * Fractions
        BY <1>1, <2>5, <3>2, ProductGrows
      <4> QED
        BY <1>1, <1>2, <2>4, <2>5, <4>1
    <3> QED
      BY <1>1, <2>5, <3>1, <3>2
  <2>7. PICK high \in observed' : high \in Nat /\ high * Fractions \in Int
                                  /\ value <= high * Fractions /\ average <= high * Fractions
    <3>1. CASE duration <= hi
      <4>1. value <= hi * Fractions
        BY <1>1, <2>5, <3>1, ProductGrows
      <4> QED
        BY <1>2, <2>4, <2>5, <4>1
    <3>2. CASE hi < duration
      <4>1. hi * Fractions <= value
        BY <1>1, <2>5, <3>2, ProductGrows
      <4> QED
        BY <1>1, <1>2, <2>4, <2>5, <4>1
    <3> QED
      BY <1>1, <2>5, <3>1, <3>2
  <2> HIDE DEF value
  <2>8. average' \in Int /\ low * Fractions <= average' /\ average' <= high * Fractions
    BY <1>1, <2>3, <2>5, <2>6, <2>7, MeanBounds
  <2> QED
    BY <2>6, <2>7, <2>8
<1> QED
  BY <1>3, <1>4

(* An observation and a resumption by another executor keep the bounds.     *)
LEMMA EtaStep == EtaInv /\ [Eta!Next]_etaVars => EtaInv'
<1> SUFFICES ASSUME EtaInv, [Eta!Next]_etaVars PROVE EtaInv'
  OBVIOUS
<1>1. ASSUME NEW duration \in Durations, Eta!Observe(duration) PROVE EtaInv'
  <2>1. /\ observed' = observed \cup {duration} /\ duration \in Nat
        /\ remaining > 0 /\ remaining' = remaining - 1 /\ count' = count + 1
        /\ saved' = Eta!InMilliseconds(average')
    BY <1>1, PlanningAssumption DEF Eta!Observe
  <2>2. observed' \subseteq Nat /\ remaining' \in Nat /\ count' \in Nat
    BY <2>1 DEF EtaInv
  <2>3. /\ average' \in Int
        /\ \E d \in observed' : d * Fractions <= average'
        /\ \E d \in observed' : average' <= d * Fractions
    BY <1>1, ObserveAverage
  <2>4. /\ saved' \in Int
        /\ \E d \in observed' : d * 1 <= saved'
        /\ \E d \in observed' : saved' <= d * 1
    BY <2>1, <2>2, <2>3, SavedBetween
  <2> QED
    BY <2>2, <2>3, <2>4 DEF EtaInv, Between
<1>2. CASE Eta!Resume
  <2>1. /\ UNCHANGED <<saved, observed, remaining>>
        /\ average' = IF saved = -1 THEN 0 ELSE saved * Fractions
        /\ count' = IF saved > 0 THEN 1 ELSE 0
    BY <1>2 DEF Eta!Resume
  <2>2. average' \in Int /\ count' \in Nat
    BY <2>1, PlanningAssumption DEF EtaInv
  <2>3. ASSUME count' # 0 PROVE Between(average, Fractions)'
    <3>1. saved > 0 /\ saved # -1 /\ saved \in Int
      BY <2>1, <2>3 DEF EtaInv
    <3>2. PICK lo \in observed, hi \in observed : lo * 1 <= saved /\ saved <= hi * 1
      BY <3>1 DEF EtaInv, Between
    <3>3. lo \in Nat /\ hi \in Nat /\ lo <= saved /\ saved <= hi
      BY <3>2 DEF EtaInv
    <3>4. lo * Fractions <= saved * Fractions /\ saved * Fractions <= hi * Fractions
      BY <3>1, <3>3, ProductGrows, PlanningAssumption
    <3> QED
      BY <2>1, <3>1, <3>4 DEF Between
  <2>4. (saved # -1 => Between(saved, 1))'
    BY <2>1 DEF EtaInv, Between
  <2> QED
    BY <2>1, <2>2, <2>3, <2>4 DEF EtaInv
<1>3. CASE UNCHANGED etaVars
  BY <1>3 DEF etaVars, EtaInv, Between
<1> QED
  BY <1>1, <1>2, <1>3 DEF Eta!Next

(* Whatever durations are observed, and however often another executor goes *)
(* on from the rounded average, the time announced lies between what the    *)
(* partitions left would take at the shortest and at the longest of them.   *)
THEOREM EstimateIsWithinObserved == Spec => []EstimateWithinObserved
<1>1. Init => EtaInv
  BY PlanningAssumption DEF Init, Eta!Init, EtaInv
<1>2. EtaInv /\ [Next]_vars => EtaInv'
  BY PlanningSteps, EtaStep
<1>3. ASSUME EtaInv PROVE EstimateWithinObserved
  <2> SUFFICES ASSUME count # 0
               PROVE  /\ \E d \in observed : d * remaining <= Eta!EstimateRemaining
                      /\ \E d \in observed : Eta!EstimateRemaining <= d * remaining
    BY DEF EstimateWithinObserved, Eta!EstimateWithinObserved, Eta!Estimates
  <2>1. PICK lo \in observed, hi \in observed :
           lo * Fractions <= average /\ average <= hi * Fractions
    BY <1>3 DEF EtaInv, Between
  <2>2. /\ lo \in Nat /\ hi \in Nat /\ average \in Int /\ remaining \in Nat
        /\ Fractions \in Nat \ {0}
    BY <1>3, PlanningAssumption DEF EtaInv
  <2>3. /\ (lo * Fractions) * remaining <= average * remaining
        /\ average * remaining <= (hi * Fractions) * remaining
    <3>1. lo * Fractions \in Int /\ hi * Fractions \in Int
      BY <2>2
    <3> QED
      BY <2>1, <2>2, <3>1, ProductGrows
  <2>4. /\ (lo * Fractions) * remaining = (lo * remaining) * Fractions
        /\ (hi * Fractions) * remaining = (hi * remaining) * Fractions
    BY <2>2
  <2>5. lo * remaining \in Int /\ hi * remaining \in Int /\ average * remaining \in Int
    BY <2>2
  <2>6. /\ lo * remaining <= Eta!EstimateRemaining
        /\ Eta!EstimateRemaining <= hi * remaining
    BY <2>3, <2>4, <2>5, RoundingBounds DEF Eta!EstimateRemaining
  <2> QED
    BY <2>6
<1> QED
  BY <1>1, <1>2, <1>3, PTL DEF Spec
=============================================================================
