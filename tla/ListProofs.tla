----------------------------- MODULE ListProofs -----------------------------
(***************************************************************************)
(* What list requests are told.  A product list, cached or not, never      *)
(* misses a write whose invalidation was part of the version its request   *)
(* read, for any number of readers and administrators; a client that walks *)
(* the pages of its orders or of the inventory is given every row that it  *)
(* was promised, for any table, page size and sort order.                  *)
(***************************************************************************)
EXTENDS ProductCache, Listing, FiniteSetTheorems, TLAPS

LEMMA VersionsKnown ==
  Cardinality(Writers) \in Nat /\ (\A v : v \in Versions <=> v \in Nat /\ v <= Cardinality(Writers))
<1>1. Cardinality(Writers) \in Nat
  BY FS_CardinalityType, ProductAssumption
<1> QED
  BY <1>1 DEF Versions

LEMMA WaitingCounted ==
  ASSUME NEW S \in SUBSET Writers, NEW T \in SUBSET S
  PROVE  /\ IsFiniteSet(S) /\ Cardinality(S) \in Nat
         /\ Cardinality(T) \in Nat /\ Cardinality(T) <= Cardinality(S)
<1>1. IsFiniteSet(S)
  BY FS_Subset, ProductAssumption
<1>2. IsFiniteSet(T) /\ Cardinality(T) <= Cardinality(S)
  BY <1>1, FS_Subset
<1> QED
  BY <1>1, <1>2, FS_CardinalityType

\* Every version that exists has a place in the tables.
LEMMA VersionInRange ==
  ASSUME CacheTypeOK
  PROVE  /\ Cardinality(waiting) \in Nat /\ version \in Versions
         /\ \A v \in Nat : v <= version => v \in Versions
         /\ \A w \in Writers : stage[w] # "done" => version + 1 \in Versions
<1>1. waiting \in SUBSET Writers
  BY DEF waiting
<1>2. IsFiniteSet(waiting) /\ Cardinality(waiting) \in Nat
  BY <1>1, WaitingCounted
<1>3. /\ version \in Nat /\ Cardinality(Writers) \in Nat
      /\ version + Cardinality(waiting) <= Cardinality(Writers)
  BY VersionsKnown DEF CacheTypeOK
<1>4. version <= Cardinality(Writers)
  BY <1>2, <1>3
<1>5. \A v \in Nat : v <= version => v \in Versions
  BY <1>3, <1>4, VersionsKnown
<1>6. ASSUME NEW w \in Writers, stage[w] # "done" PROVE version + 1 \in Versions
  <2>1. waiting # {}
    BY <1>6 DEF waiting
  <2>2. Cardinality(waiting) # 0
    BY <1>2, <2>1, FS_EmptySet
  <2>3. version + 1 <= Cardinality(Writers)
    BY <1>2, <1>3, <2>2
  <2> QED
    BY <1>3, <2>3, VersionsKnown
<1> QED
  BY <1>2, <1>3, <1>5, <1>6

\* Where one handler's step leaves the handlers.
LEMMA GotoFrame ==
  ASSUME CacheTypeOK, NEW h \in Handlers, stage[h] # "done",
         NEW step \in {"version", "get", "load", "store", "save", "remove", "bump", "done"},
         Proceed(h, step)
  PROVE  /\ stage' \in [Handlers -> {"version", "get", "load", "store", "save", "remove", "bump", "done"}]
         /\ stage'[h] = step
         /\ \A g \in Handlers : g # h => stage'[g] = stage[g]
         /\ Cardinality(waiting') \in Nat /\ Cardinality(waiting') <= Cardinality(waiting)
         /\ h \in Writers /\ step = "done" => Cardinality(waiting') = Cardinality(waiting) - 1
<1>1. /\ stage' \in [Handlers -> {"version", "get", "load", "store", "save", "remove", "bump", "done"}]
      /\ stage'[h] = step
      /\ \A g \in Handlers : g # h => stage'[g] = stage[g]
  BY DEF Proceed, CacheTypeOK
<1>2. waiting \in SUBSET Writers /\ waiting' \in SUBSET waiting
  BY <1>1 DEF waiting, Handlers
<1>3. h \in Writers /\ step = "done" => waiting' = waiting \ {h} /\ h \in waiting
  BY <1>1 DEF waiting, Handlers
<1>4. IsFiniteSet(waiting) /\ Cardinality(waiting') \in Nat /\ Cardinality(waiting') <= Cardinality(waiting)
  BY <1>2, WaitingCounted
<1>5. h \in waiting => Cardinality(waiting \ {h}) = Cardinality(waiting) - 1
  BY <1>4, FS_RemoveElement
<1> QED
  BY <1>1, <1>3, <1>4, <1>5

\* What the handlers' classes allow.
LEMMA Classes ==
  ASSUME CacheTypeOK, NEW h \in Handlers
  PROVE  /\ stage[h] = "version" => h \in ListReaders
         /\ stage[h] \in {"get", "load", "store"} => h \in Readers
         /\ stage[h] \in {"save", "remove", "bump"} => h \in Writers
         /\ h \in Writers => h \notin Readers
         /\ h \in DetailReaders => h \notin ListReaders
BY ProductAssumption DEF CacheTypeOK, Handlers, Readers

PlacesTyped ==
  /\ stage \in [Handlers -> {"version", "get", "load", "store", "save", "remove", "bump", "done"}]
  /\ \A r \in DetailReaders : stage[r] \in {"get", "load", "store", "done"}
  /\ \A r \in ListReaders : stage[r] \in {"version", "get", "load", "store", "done"}
  /\ \A w \in Writers : stage[w] \in {"save", "remove", "bump", "done"}

\* A handler goes on within its own code.
LEMMA PlacesStep ==
  ASSUME CacheTypeOK, NEW h \in Handlers, stage[h] # "done",
         NEW step \in {"get", "load", "store", "remove", "bump", "done"}, Proceed(h, step),
         step \in {"get", "load", "store"} => h \in Readers,
         step \in {"remove", "bump"} => h \in Writers
  PROVE  /\ PlacesTyped'
         /\ version + Cardinality(waiting') <= Cardinality(Writers)
         /\ h \in Writers /\ step = "done" =>
              (version + 1) + Cardinality(waiting') <= Cardinality(Writers)
<1>1. /\ stage' \in [Handlers -> {"version", "get", "load", "store", "save", "remove", "bump", "done"}]
      /\ stage'[h] = step
      /\ \A g \in Handlers : g # h => stage'[g] = stage[g]
      /\ Cardinality(waiting') \in Nat /\ Cardinality(waiting') <= Cardinality(waiting)
      /\ h \in Writers /\ step = "done" => Cardinality(waiting') = Cardinality(waiting) - 1
  BY GotoFrame
<1>2. PlacesTyped'
  <2>1. /\ \A r \in DetailReaders : stage'[r] \in {"get", "load", "store", "done"}
        /\ \A r \in ListReaders : stage'[r] \in {"version", "get", "load", "store", "done"}
    BY <1>1, ProductAssumption DEF CacheTypeOK, Handlers, Readers
  <2>2. \A w \in Writers : stage'[w] \in {"save", "remove", "bump", "done"}
    BY <1>1, ProductAssumption DEF CacheTypeOK, Handlers
  <2> QED
    BY <1>1, <2>1, <2>2 DEF PlacesTyped
<1>3. /\ version \in Nat /\ Cardinality(waiting) \in Nat /\ Cardinality(Writers) \in Nat
  BY VersionInRange, VersionsKnown DEF CacheTypeOK
<1>4. version + Cardinality(waiting) <= Cardinality(Writers)
  BY DEF CacheTypeOK
<1>5. \A a, b, c, d \in Nat : a + b <= d /\ c <= b => a + c <= d
  OBVIOUS
<1>6. \A a, b, d \in Nat : a + b <= d => (a + 1) + (b - 1) <= d
  OBVIOUS
<1>7. version + Cardinality(waiting') <= Cardinality(Writers)
  BY <1>1, <1>3, <1>4, <1>5
<1>8. ASSUME h \in Writers, step = "done"
      PROVE  (version + 1) + Cardinality(waiting') <= Cardinality(Writers)
  <2>1. (version + 1) + (Cardinality(waiting) - 1) <= Cardinality(Writers)
    BY <1>3, <1>4, <1>6
  <2> QED
    BY <1>1, <1>8, <2>1
<1> QED
  BY <1>2, <1>7, <1>8

LEMMA TypeStep == CacheTypeOK /\ WritesCounted /\ [CacheNext]_cacheVars => CacheTypeOK'
<1> SUFFICES ASSUME CacheTypeOK, WritesCounted, [CacheNext]_cacheVars PROVE CacheTypeOK'
  OBVIOUS
<1> USE DEF redis
<1>a. /\ writes \in Nat /\ detail \in Nat \cup {Missing} /\ version \in Nat
      /\ lists \in [Versions -> Nat \cup {Missing}] /\ copy \in [Handlers -> Nat \cup {Missing}]
      /\ keyed \in [ListReaders -> Nat] /\ told \in [Readers -> Nat \cup {Missing}]
      /\ bumped \in [Versions -> Nat] /\ \A r \in ListReaders : keyed[r] <= version
  BY DEF CacheTypeOK
<1>b. \A r \in ListReaders : keyed[r] \in Versions
  BY <1>a, VersionInRange
<1>1. CASE UNCHANGED cacheVars
  <2>1. UNCHANGED waiting
    BY <1>1 DEF waiting, cacheVars
  <2> QED
    BY <1>1, <2>1 DEF CacheTypeOK, cacheVars
<1>2. ASSUME NEW r \in Handlers, GetDetail(r) \/ GetList(r) PROVE CacheTypeOK'
  <2>1. /\ stage[r] = "get" /\ UNCHANGED <<writes, detail, version, lists, copy, keyed, bumped>>
        /\ Proceed(r, "done") \/ Proceed(r, "load")
    BY <1>2 DEF GetDetail, GetList
  <2>2. r \in Readers
    BY <2>1, Classes
  <2>3. PlacesTyped' /\ version + Cardinality(waiting') <= Cardinality(Writers)
    BY <2>1, <2>2, PlacesStep
  <2>4. PICK x \in Nat \cup {Missing} : told' = told \/ told' = [told EXCEPT ![r] = x]
    BY <1>2, <1>a, <1>b DEF GetDetail, GetList, Respond
  <2>5. told' \in [Readers -> Nat \cup {Missing}]
    BY <1>a, <2>4
  <2> QED
    BY <1>a, <2>1, <2>3, <2>5 DEF CacheTypeOK, PlacesTyped
<1>3. ASSUME NEW r \in Handlers, ReadVersion(r) PROVE CacheTypeOK'
  <2>1. /\ stage[r] = "version" /\ UNCHANGED <<writes, detail, version, lists, copy, told, bumped>>
        /\ Proceed(r, "get")
    BY <1>3 DEF ReadVersion
  <2>2. r \in ListReaders /\ r \in Readers
    BY <2>1, Classes DEF Readers
  <2>3. PlacesTyped' /\ version + Cardinality(waiting') <= Cardinality(Writers)
    BY <2>1, <2>2, PlacesStep
  <2>4. PICK v \in {version, 0} : keyed' = [keyed EXCEPT ![r] = v]
    BY <1>3 DEF ReadVersion
  <2>5. v \in Nat /\ v <= version
    BY <1>a, <2>4
  <2>6. keyed' \in [ListReaders -> Nat] /\ \A q \in ListReaders : keyed'[q] <= version
    BY <1>a, <2>4, <2>5
  <2> QED
    BY <1>a, <2>1, <2>3, <2>6 DEF CacheTypeOK, PlacesTyped
<1>4. ASSUME NEW r \in Handlers, Load(r) PROVE CacheTypeOK'
  <2>1. /\ stage[r] = "load" /\ UNCHANGED <<writes, detail, version, lists, keyed, bumped>>
        /\ Proceed(r, "store")
    BY <1>4 DEF Load
  <2>2. r \in Readers
    BY <2>1, Classes
  <2>3. PlacesTyped' /\ version + Cardinality(waiting') <= Cardinality(Writers)
    BY <2>1, <2>2, PlacesStep
  <2>4. copy' \in [Handlers -> Nat \cup {Missing}] /\ told' \in [Readers -> Nat \cup {Missing}]
    BY <1>4, <1>a DEF Load, Respond
  <2> QED
    BY <1>a, <2>1, <2>3, <2>4 DEF CacheTypeOK, PlacesTyped
<1>5. ASSUME NEW r \in Handlers, Store(r) PROVE CacheTypeOK'
  <2>1. /\ stage[r] = "store" /\ UNCHANGED <<writes, version, copy, keyed, told, bumped>>
        /\ Proceed(r, "done")
    BY <1>5 DEF Store
  <2>2. r \in Readers
    BY <2>1, Classes
  <2>3. PlacesTyped' /\ version + Cardinality(waiting') <= Cardinality(Writers)
    BY <2>1, <2>2, PlacesStep
  <2>4. copy[r] \in Nat \cup {Missing}
    BY <1>a
  <2>5. detail' \in Nat \cup {Missing}
    BY <1>5, <1>a, <2>4 DEF Store, Maybe
  <2>6. lists' \in [Versions -> Nat \cup {Missing}]
    BY <1>5, <1>a, <2>4 DEF Store, Maybe
  <2> QED
    BY <1>a, <2>1, <2>3, <2>5, <2>6 DEF CacheTypeOK, PlacesTyped
<1>6. ASSUME NEW w \in Handlers, Save(w) PROVE CacheTypeOK'
  <2>1. /\ stage[w] = "save" /\ UNCHANGED <<detail, version, lists, keyed, told, bumped>>
        /\ Proceed(w, "remove") \/ Proceed(w, "bump") \/ Proceed(w, "done")
    BY <1>6 DEF Save
  <2>2. w \in Writers
    BY <2>1, Classes
  <2>3. PlacesTyped' /\ version + Cardinality(waiting') <= Cardinality(Writers)
    BY <2>1, <2>2, PlacesStep
  <2>4. writes' \in Nat /\ copy' \in [Handlers -> Nat \cup {Missing}]
    BY <1>6, <1>a DEF Save
  <2> QED
    BY <1>a, <2>1, <2>3, <2>4 DEF CacheTypeOK, PlacesTyped
<1>7. ASSUME NEW w \in Handlers, Remove(w) PROVE CacheTypeOK'
  <2>1. /\ stage[w] = "remove" /\ UNCHANGED <<writes, version, lists, copy, keyed, told, bumped>>
        /\ Proceed(w, "bump")
    BY <1>7 DEF Remove
  <2>2. w \in Writers
    BY <2>1, Classes
  <2>3. PlacesTyped' /\ version + Cardinality(waiting') <= Cardinality(Writers)
    BY <2>1, <2>2, PlacesStep
  <2>4. detail' \in Nat \cup {Missing}
    BY <1>7, <1>a DEF Remove, Maybe
  <2> QED
    BY <1>a, <2>1, <2>3, <2>4 DEF CacheTypeOK, PlacesTyped
<1>8. ASSUME NEW w \in Handlers, invalidateProductLists(w) PROVE CacheTypeOK'
  <2>1. /\ stage[w] = "bump" /\ UNCHANGED <<writes, detail, lists, copy, keyed, told>>
        /\ Proceed(w, "done")
    BY <1>8 DEF invalidateProductLists
  <2>2. w \in Writers
    BY <2>1, Classes
  <2>3. /\ PlacesTyped' /\ version + Cardinality(waiting') <= Cardinality(Writers)
        /\ (version + 1) + Cardinality(waiting') <= Cardinality(Writers)
    BY <2>1, <2>2, PlacesStep
  <2>4. CASE UNCHANGED <<version, bumped>>
    BY <1>a, <2>1, <2>3, <2>4 DEF CacheTypeOK, PlacesTyped
  <2>5. CASE /\ version' = version + 1
             /\ bumped' = [bumped EXCEPT ![version + 1] =
                             IF copy[w] > bumped[version] THEN copy[w] ELSE bumped[version]]
    <3>1. copy[w] \in Nat /\ bumped[version] \in Nat
      BY <1>a, <2>1, <2>2, VersionInRange DEF WritesCounted
    <3>2. bumped' \in [Versions -> Nat]
      BY <1>a, <2>5, <3>1
    <3>3. version' \in Nat /\ \A r \in ListReaders : keyed[r] <= version'
      BY <1>a, <2>5
    <3>4. version' + Cardinality(waiting') <= Cardinality(Writers)
      BY <2>3, <2>5
    <3> QED
      BY <1>a, <2>1, <2>3, <3>2, <3>3, <3>4 DEF CacheTypeOK, PlacesTyped
  <2> QED
    BY <1>8, <2>4, <2>5 DEF invalidateProductLists
<1>9. ASSUME NEW h \in Handlers, Crash(h) PROVE CacheTypeOK'
  <2>1. /\ stage[h] # "done" /\ Proceed(h, "done")
        /\ UNCHANGED <<writes, detail, version, lists, copy, keyed, told, bumped>>
    BY <1>9 DEF Crash
  <2>2. PlacesTyped' /\ version + Cardinality(waiting') <= Cardinality(Writers)
    BY <2>1, PlacesStep
  <2> QED
    BY <1>a, <2>1, <2>2 DEF CacheTypeOK, PlacesTyped
<1>10. ASSUME ExpireDetail \/ \E v \in Versions : ExpireList(v) PROVE CacheTypeOK'
  <2>1. UNCHANGED <<writes, version, stage, copy, keyed, told, bumped>>
    BY <1>10 DEF ExpireDetail, ExpireList
  <2>2. detail' \in Nat \cup {Missing} /\ lists' \in [Versions -> Nat \cup {Missing}]
    BY <1>10, <1>a DEF ExpireDetail, ExpireList
  <2>3. UNCHANGED waiting
    BY <2>1 DEF waiting
  <2> QED
    BY <2>1, <2>2, <2>3 DEF CacheTypeOK
<1> QED
  BY <1>1, <1>2, <1>3, <1>4, <1>5, <1>6, <1>7, <1>8, <1>9, <1>10 DEF CacheNext, Serve

----------------------------------------------------------------------------
(* Freshness *)

\* A step that leaves the catalogue, the versions and the lists alone, and moves
\* one handler that neither answers nor stores, keeps everything.
LEMMA QuietStep ==
  ASSUME CacheInv, UNCHANGED <<writes, version, bumped, copy, keyed, told>>,
         \A v \in Versions : lists'[v] = Missing \/ lists'[v] = lists[v],
         \A r \in ListReaders :
           /\ stage'[r] = "version" => stage[r] = "version"
           /\ stage'[r] = "store" => stage[r] = "store",
         \A w \in Writers : stage'[w] \in {"remove", "bump"} => stage[w] \in {"remove", "bump"}
  PROVE  WritesCounted' /\ StoredFresh' /\ ListAnswerFresh'
<1>1. WritesCounted'
  BY DEF CacheInv, WritesCounted
<1>2. StoredFresh'
  BY DEF CacheInv, StoredFresh
<1>3. ListAnswerFresh'
  BY DEF CacheInv, ListAnswerFresh
<1> QED
  BY <1>1, <1>2, <1>3

LEMMA FreshStep == CacheInv /\ [CacheNext]_cacheVars => WritesCounted' /\ StoredFresh' /\ ListAnswerFresh'
<1> SUFFICES ASSUME CacheInv, [CacheNext]_cacheVars PROVE WritesCounted' /\ StoredFresh' /\ ListAnswerFresh'
  OBVIOUS
<1> DEFINE Fresh == WritesCounted' /\ StoredFresh' /\ ListAnswerFresh'
<1> USE DEF redis
<1>0. CacheTypeOK /\ WritesCounted /\ StoredFresh /\ ListAnswerFresh
  BY DEF CacheInv
<1>a. /\ writes \in Nat /\ version \in Nat
      /\ lists \in [Versions -> Nat \cup {Missing}] /\ copy \in [Handlers -> Nat \cup {Missing}]
      /\ keyed \in [ListReaders -> Nat] /\ told \in [Readers -> Nat \cup {Missing}]
      /\ bumped \in [Versions -> Nat] /\ \A r \in ListReaders : keyed[r] <= version
  BY <1>0 DEF CacheTypeOK
<1>b. \A r \in ListReaders : keyed[r] \in Versions
  BY <1>0, <1>a, VersionInRange
<1>c. ListReaders \subseteq Handlers /\ Writers \subseteq Handlers
      /\ ListReaders \subseteq Readers /\ Readers \subseteq Handlers
  BY DEF Handlers, Readers
<1>p. ASSUME NEW h \in Handlers, NEW step, Proceed(h, step)
      PROVE  stage'[h] = step /\ \A g \in Handlers : g # h => stage'[g] = stage[g]
  BY <1>0, <1>p DEF Proceed, CacheTypeOK
<1>q. ASSUME NEW h \in Handlers, NEW step, Proceed(h, step), step \notin {"version", "store"},
             step \in {"remove", "bump"} => stage[h] \in {"remove", "bump"},
             UNCHANGED <<writes, version, bumped, copy, keyed, told>>,
             \A v \in Versions : lists'[v] = Missing \/ lists'[v] = lists[v]
      PROVE  Fresh
  <2>1. stage'[h] = step /\ \A g \in Handlers : g # h => stage'[g] = stage[g]
    BY <1>p, <1>q
  <2>2. /\ \A r \in ListReaders : /\ stage'[r] = "version" => stage[r] = "version"
                                  /\ stage'[r] = "store" => stage[r] = "store"
        /\ \A w \in Writers : stage'[w] \in {"remove", "bump"} => stage[w] \in {"remove", "bump"}
    BY <1>c, <1>q, <2>1
  <2> QED
    BY <1>q, <2>2, QuietStep
<1> HIDE DEF Fresh
<1>1. ASSUME UNCHANGED cacheVars \/ ExpireDetail \/ \E v \in Versions : ExpireList(v) PROVE Fresh
  <2>1. /\ UNCHANGED <<writes, version, bumped, copy, keyed, told, stage>>
        /\ \A v \in Versions : lists'[v] = Missing \/ lists'[v] = lists[v]
    BY <1>1, <1>a DEF cacheVars, ExpireDetail, ExpireList
  <2> QED
    BY <2>1, QuietStep DEF Fresh
<1>2. ASSUME NEW r \in Handlers, GetDetail(r) PROVE Fresh
  <2>1. /\ stage[r] = "get" /\ r \in DetailReaders
        /\ UNCHANGED <<writes, version, lists, copy, keyed, bumped>>
        /\ Proceed(r, "done") \/ Proceed(r, "load")
    BY <1>2 DEF GetDetail
  <2>2. \A g \in Handlers : g # r => stage'[g] = stage[g]
    BY <1>p, <2>1
  <2>3. \A q \in ListReaders : q # r
    BY <2>1, ProductAssumption
  <2>4. \A q \in ListReaders : told'[q] = told[q] /\ stage'[q] = stage[q]
    BY <1>2, <1>a, <1>c, <2>2, <2>3 DEF GetDetail, Respond
  <2>5. \A w \in Writers : stage'[w] = stage[w]
    BY <1>0, <1>c, <2>1, <2>2, Classes
  <2>6. WritesCounted'
    BY <1>0, <2>1, <2>5 DEF WritesCounted
  <2>7. StoredFresh'
    BY <1>0, <2>1, <2>4 DEF StoredFresh
  <2>8. ListAnswerFresh'
    BY <1>0, <2>1, <2>4 DEF ListAnswerFresh
  <2> QED
    BY <2>6, <2>7, <2>8 DEF Fresh
<1>3. ASSUME NEW r \in Handlers, ReadVersion(r) PROVE Fresh
  <2>1. /\ stage[r] = "version" /\ UNCHANGED <<writes, version, lists, copy, told, bumped>>
        /\ Proceed(r, "get")
    BY <1>3 DEF ReadVersion
  <2>2. r \in ListReaders /\ r \notin Writers
    BY <1>0, <2>1, Classes DEF Readers
  <2>3. stage'[r] = "get" /\ \A g \in Handlers : g # r => stage'[g] = stage[g]
    BY <1>p, <2>1
  <2>4. \A q \in ListReaders : q # r => keyed'[q] = keyed[q]
    BY <1>3, <1>a DEF ReadVersion
  <2>5. told'[r] = Missing
    BY <1>0, <2>1, <2>2 DEF StoredFresh
  <2>6. WritesCounted'
    BY <1>0, <1>c, <2>1, <2>2, <2>3 DEF WritesCounted
  <2>7. StoredFresh'
    BY <1>0, <1>c, <2>1, <2>3, <2>4, <2>5 DEF StoredFresh
  <2>8. ListAnswerFresh'
    BY <1>0, <2>1, <2>4, <2>5 DEF ListAnswerFresh
  <2> QED
    BY <2>6, <2>7, <2>8 DEF Fresh
<1>4. ASSUME NEW r \in Handlers, GetList(r) PROVE Fresh
  <2>1. /\ stage[r] = "get" /\ r \in ListReaders
        /\ UNCHANGED <<writes, version, lists, copy, keyed, bumped>>
    BY <1>4 DEF GetList
  <2>2. CASE UNCHANGED told /\ Proceed(r, "load")
    BY <2>1, <2>2, <1>q
  <2>3. CASE lists[keyed[r]] # Missing /\ Respond(r, lists[keyed[r]]) /\ Proceed(r, "done")
    <3>1. stage'[r] = "done" /\ \A g \in Handlers : g # r => stage'[g] = stage[g]
      BY <1>p, <2>3
    <3>2. /\ told'[r] = lists[keyed[r]]
          /\ \A q \in ListReaders : q # r => told'[q] = told[q]
      BY <1>a, <1>c, <2>1, <2>3 DEF Respond
    <3>3. lists[keyed[r]] >= bumped[keyed[r]]
      BY <1>0, <1>b, <2>1, <2>3 DEF StoredFresh
    <3>4. r \notin Writers
      BY <1>0, <2>1, Classes DEF Readers
    <3>5. WritesCounted'
      BY <1>0, <1>c, <2>1, <3>1, <3>4 DEF WritesCounted
    <3>6. StoredFresh'
      BY <1>0, <1>c, <2>1, <3>1, <3>2 DEF StoredFresh
    <3>7. ListAnswerFresh'
      BY <1>0, <2>1, <3>2, <3>3 DEF ListAnswerFresh
    <3> QED
      BY <3>5, <3>6, <3>7 DEF Fresh
  <2> QED
    BY <1>4, <2>2, <2>3 DEF GetList
<1>5. ASSUME NEW r \in Handlers, Load(r) PROVE Fresh
  <2>1. /\ stage[r] = "load" /\ UNCHANGED <<writes, version, lists, keyed, bumped>>
        /\ Proceed(r, "store")
    BY <1>5 DEF Load
  <2>2. r \in Readers /\ r \notin Writers
    BY <1>0, <2>1, Classes
  <2>3. stage'[r] = "store" /\ \A g \in Handlers : g # r => stage'[g] = stage[g]
    BY <1>p, <2>1
  <2>4. /\ copy'[r] = writes /\ told'[r] = writes
        /\ \A g \in Handlers : g # r => copy'[g] = copy[g]
        /\ \A q \in Readers : q # r => told'[q] = told[q]
    BY <1>5, <1>a, <2>2 DEF Load, Respond
  <2>5. \A q \in ListReaders : writes >= bumped[keyed[q]] /\ writes # Missing
    BY <1>0, <1>a, <1>b, ProductAssumption DEF WritesCounted
  <2>6. WritesCounted'
    BY <1>0, <1>c, <2>1, <2>2, <2>3, <2>4 DEF WritesCounted
  <2>7. StoredFresh'
    BY <1>0, <1>c, <2>1, <2>3, <2>4, <2>5 DEF StoredFresh
  <2>8. ListAnswerFresh'
    BY <1>0, <1>c, <2>1, <2>4, <2>5 DEF ListAnswerFresh
  <2> QED
    BY <2>6, <2>7, <2>8 DEF Fresh
<1>6. ASSUME NEW r \in Handlers, Store(r) PROVE Fresh
  <2>1. /\ stage[r] = "store" /\ UNCHANGED <<writes, version, copy, keyed, told, bumped>>
        /\ Proceed(r, "done")
    BY <1>6 DEF Store
  <2>2. CASE UNCHANGED lists
    BY <2>1, <2>2, <1>q
  <2>3. CASE r \in ListReaders /\ lists' = [lists EXCEPT ![keyed[r]] = copy[r]]
    <3>1. stage'[r] = "done" /\ \A g \in Handlers : g # r => stage'[g] = stage[g]
      BY <1>p, <2>1
    <3>2. /\ lists'[keyed[r]] = copy[r]
          /\ \A v \in Versions : v # keyed[r] => lists'[v] = lists[v]
      BY <1>a, <1>b, <2>3
    <3>3. copy[r] >= bumped[keyed[r]] /\ keyed[r] <= version
      BY <1>0, <1>a, <2>1, <2>3 DEF StoredFresh
    <3>4. r \notin Writers
      BY <1>0, <2>1, Classes
    <3>5. WritesCounted'
      BY <1>0, <1>c, <2>1, <3>1, <3>4 DEF WritesCounted
    <3>6. StoredFresh'
      BY <1>0, <1>c, <2>1, <3>1, <3>2, <3>3 DEF StoredFresh
    <3>7. ListAnswerFresh'
      BY <1>0, <2>1 DEF ListAnswerFresh
    <3> QED
      BY <3>5, <3>6, <3>7 DEF Fresh
  <2> QED
    BY <1>6, <2>2, <2>3 DEF Store, Maybe
<1>7. ASSUME NEW w \in Handlers, Save(w) PROVE Fresh
  <2>1. stage[w] = "save" /\ UNCHANGED <<version, lists, keyed, told, bumped>>
    BY <1>7 DEF Save
  <2>2. w \in Writers /\ w \notin Readers
    BY <1>0, <2>1, Classes
  <2>3. CASE Proceed(w, "done") /\ UNCHANGED <<writes, copy>>
    BY <2>1, <2>3, <1>q
  <2>4. CASE /\ writes' = writes + 1
             /\ copy' = [copy EXCEPT ![w] = writes + 1]
             /\ Proceed(w, "remove") \/ Proceed(w, "bump")
    <3>1. stage'[w] \in {"remove", "bump"} /\ \A g \in Handlers : g # w => stage'[g] = stage[g]
      BY <1>p, <2>4
    <3>2. copy'[w] = writes' /\ \A g \in Handlers : g # w => copy'[g] = copy[g]
      BY <1>a, <2>4
    <3>3. \A x \in Nat : x <= writes => x <= writes'
      BY <1>a, <2>4
    <3>4. writes' \in Nat /\ writes' # Missing
      BY <1>a, <2>4, ProductAssumption
    <3>5. \A v \in Versions : bumped'[v] <= writes'
      BY <1>0, <1>a, <2>1, <3>3 DEF WritesCounted
    <3>6. ASSUME NEW x \in Writers, stage'[x] \in {"remove", "bump"}
          PROVE  copy'[x] # Missing /\ copy'[x] <= writes'
      <4>1. CASE x = w
        BY <3>2, <3>4, <4>1
      <4>2. CASE x # w
        <5>1. stage[x] \in {"remove", "bump"} /\ copy'[x] = copy[x]
          BY <1>c, <3>1, <3>2, <3>6, <4>2
        <5>2. copy[x] \in Nat /\ copy[x] # Missing /\ copy[x] <= writes
          BY <1>0, <1>a, <1>c, <5>1 DEF WritesCounted
        <5> QED
          BY <3>3, <5>1, <5>2
      <4> QED
        BY <4>1, <4>2
    <3>7. WritesCounted'
      BY <3>5, <3>6 DEF WritesCounted
    <3>8. \A r \in ListReaders : r # w
      BY <1>c, <2>2
    <3>9. StoredFresh'
      BY <1>0, <1>c, <2>1, <3>1, <3>2, <3>8 DEF StoredFresh
    <3>10. ListAnswerFresh'
      BY <1>0, <2>1 DEF ListAnswerFresh
    <3> QED
      BY <3>7, <3>9, <3>10 DEF Fresh
  <2> QED
    BY <1>7, <2>3, <2>4 DEF Save
<1>8. ASSUME NEW w \in Handlers, Remove(w) PROVE Fresh
  BY <1>8, <1>q DEF Remove
<1>9. ASSUME NEW w \in Handlers, invalidateProductLists(w) PROVE Fresh
  <2>1. /\ stage[w] = "bump" /\ UNCHANGED <<writes, lists, copy, keyed, told>>
        /\ Proceed(w, "done")
    BY <1>9 DEF invalidateProductLists
  <2>2. w \in Writers
    BY <1>0, <2>1, Classes
  <2>3. CASE UNCHANGED <<version, bumped>>
    BY <2>1, <2>3, <1>q
  <2>4. CASE /\ version' = version + 1
             /\ bumped' = [bumped EXCEPT ![version + 1] =
                             IF copy[w] > bumped[version] THEN copy[w] ELSE bumped[version]]
    <3>1. stage'[w] = "done" /\ \A g \in Handlers : g # w => stage'[g] = stage[g]
      BY <1>p, <2>1
    <3>2. version \in Versions /\ version + 1 \in Versions
      BY <1>0, <2>1, <2>2, VersionInRange
    <3>3. \A v \in Versions : v # version + 1 => bumped'[v] = bumped[v]
      BY <1>a, <2>4
    <3>4. copy[w] <= writes /\ bumped[version] <= writes
      BY <1>0, <2>1, <2>2, <3>2 DEF WritesCounted
    <3>5. bumped'[version + 1] \in {copy[w], bumped[version]}
      BY <1>a, <2>4, <3>2
    <3>6. \A v \in Versions : bumped'[v] <= writes
      BY <1>0, <3>3, <3>4, <3>5 DEF WritesCounted
    <3>7. WritesCounted'
      BY <1>0, <1>c, <2>1, <3>1, <3>6 DEF WritesCounted
    <3>8. \A r \in ListReaders : keyed[r] # version + 1 /\ bumped'[keyed[r]] = bumped[keyed[r]]
      BY <1>a, <1>b, <3>3
    <3>9. lists[version + 1] = Missing
      BY <1>0, <1>a, <3>2 DEF StoredFresh
    <3>10. \A v \in Versions : v <= version => v <= version'
      BY <1>a, <2>4, VersionsKnown
    <3>11. \A v \in Versions : lists'[v] # Missing => v <= version' /\ lists'[v] >= bumped'[v]
      BY <1>0, <2>1, <3>3, <3>9, <3>10 DEF StoredFresh
    <3>12. StoredFresh'
      BY <1>0, <1>c, <2>1, <3>1, <3>8, <3>11 DEF StoredFresh
    <3>13. ListAnswerFresh'
      BY <1>0, <2>1, <3>8 DEF ListAnswerFresh
    <3> QED
      BY <3>7, <3>12, <3>13 DEF Fresh
  <2> QED
    BY <1>9, <2>3, <2>4 DEF invalidateProductLists
<1>10. ASSUME NEW h \in Handlers, Crash(h) PROVE Fresh
  BY <1>10, <1>q DEF Crash
<1>11. Fresh
  BY <1>1, <1>2, <1>3, <1>4, <1>5, <1>6, <1>7, <1>8, <1>9, <1>10 DEF CacheNext, Serve
<1> QED
  BY <1>11 DEF Fresh

LEMMA InitInv == CacheInit => CacheInv
<1> SUFFICES ASSUME CacheInit PROVE CacheInv
  OBVIOUS
<1>1. waiting = Writers
  BY ProductAssumption DEF CacheInit, waiting, Handlers, Readers
<1>2. 0 + Cardinality(waiting) <= Cardinality(Writers)
  BY <1>1, VersionsKnown
<1>3. stage \in [Handlers -> {"version", "get", "load", "store", "save", "remove", "bump", "done"}]
  BY DEF CacheInit
<1>4. /\ \A r \in DetailReaders : stage[r] = "get"
      /\ \A r \in ListReaders : stage[r] = "version"
      /\ \A w \in Writers : stage[w] = "save"
  BY ProductAssumption DEF CacheInit, Handlers, Readers
<1>5. CacheTypeOK
  BY <1>2, <1>3, <1>4 DEF CacheInit, CacheTypeOK
<1>6. WritesCounted /\ StoredFresh /\ ListAnswerFresh
  BY <1>4 DEF CacheInit, WritesCounted, StoredFresh, ListAnswerFresh, Readers
<1> QED
  BY <1>5, <1>6 DEF CacheInv

\* Every conjunct of the inductive invariant holds in every state of the product
\* handlers and their cache.
THEOREM CacheInvariance == CacheSpec => []CacheInv
<1>1. CacheInv /\ [CacheNext]_cacheVars => CacheInv'
  BY TypeStep, FreshStep DEF CacheInv
<1> QED
  BY InitInv, <1>1, PTL DEF CacheSpec

\* ListProducts never answers with a list that misses a write which was
\* invalidated in the version the request read, for any number of requests.
THEOREM ListAnswersFresh == CacheSpec => []ListAnswerFresh
<1>1. CacheInv => ListAnswerFresh
  BY DEF CacheInv
<1> QED
  BY CacheInvariance, <1>1, PTL

----------------------------------------------------------------------------
(* The paged lists (module Listing) *)

\* Every lemma of this section rests on the assumption on the constants.
USE ListingAssumption

\* Rows are finite, and fewer than the largest int64.
LEMMA RowsCounted ==
  ASSUME NEW S \in SUBSET Rows
  PROVE  /\ IsFiniteSet(S)
         /\ Cardinality(S) \in Nat
         /\ Cardinality(S) <= Cardinality(Rows)
         /\ Cardinality(S) < Word \div 2
<1>1. /\ IsFiniteSet(Rows) /\ Cardinality(Rows) < Word \div 2 /\ Word \in Nat
  BY DEF ListingAssumption
<1>2. IsFiniteSet(S) /\ Cardinality(S) <= Cardinality(Rows)
  BY <1>1, FS_Subset
<1>3. Cardinality(S) \in Nat /\ Cardinality(Rows) \in Nat
  BY <1>1, <1>2, FS_CardinalityType
<1>4. Word \div 2 \in Nat
  BY <1>1
<1> QED
  BY <1>1, <1>2, <1>3, <1>4

LEMMA SmallerCounted ==
  ASSUME NEW S, IsFiniteSet(S), NEW T \in SUBSET S, NEW x \in S, x \notin T
  PROVE  Cardinality(T) < Cardinality(S)
<1>1. IsFiniteSet(T) /\ Cardinality(T) <= Cardinality(S) /\ (Cardinality(S) = Cardinality(T) => S = T)
  BY FS_Subset
<1>2. Cardinality(S) \in Nat /\ Cardinality(T) \in Nat
  BY <1>1, FS_CardinalityType
<1> QED
  BY <1>1, <1>2

LEMMA DisjointCounted ==
  ASSUME NEW S, IsFiniteSet(S), NEW T, IsFiniteSet(T), S \cap T = {}
  PROVE  Cardinality(S \cup T) = Cardinality(S) + Cardinality(T)
<1>1. Cardinality(S \cup T) = Cardinality(S) + Cardinality(T) - Cardinality(S \cap T)
  BY FS_Union
<1>2. Cardinality(S \cap T) = 0
  BY FS_EmptySet
<1>3. Cardinality(S) \in Nat /\ Cardinality(T) \in Nat
  BY FS_CardinalityType
<1> QED
  BY <1>1, <1>2, <1>3

\* An offset that fits is the offset that is used.
LEMMA WrapFits ==
  ASSUME NEW n \in Nat, n < Word \div 2
  PROVE  Wrap(n) = n
<1> DEFINE h == Word \div 2
<1>1. Word \in Nat /\ h \in Nat /\ h + h <= Word
  BY DEF ListingAssumption
<1>2. n + h \in Nat /\ n + h < Word
  BY <1>1
<1>3. (n + h) % Word = n + h
  BY <1>1, <1>2
<1> QED
  BY <1>1, <1>3 DEF Wrap

LEMMA LimitType ==
  ASSUME NEW n \in Int
  PROVE  Limit(n) \in Nat /\ Limit(n) >= 1 /\ Limit(n) <= DefaultPageSize
BY DEF ListingAssumption, Limit

\* math.Ceil of the quotient: the pages hold all rows, and there is none only
\* for no row.
LEMMA PagesHold ==
  ASSUME NEW size \in Int, NEW n \in Nat
  PROVE  /\ TotalPage(size, n) \in Nat
         /\ n <= TotalPage(size, n) * Limit(size)
         /\ TotalPage(size, n) = 0 <=> n = 0
<1> DEFINE L == Limit(size)
           a == n + L - 1
           q == a \div L
<1>1. L \in Nat /\ L >= 1
  BY LimitType
<1>2. a \in Nat
  BY <1>1
<1> HIDE DEF L
<1>3. q \in Int /\ a = L * q + (a % L) /\ (a % L) \in 0..(L - 1)
  BY <1>1, <1>2
<1>4. q \in Nat
  BY <1>1, <1>2, <1>3
<1>5. n <= q * L
  BY <1>1, <1>2, <1>3, <1>4
<1>6. q = 0 <=> n = 0
  BY <1>1, <1>2, <1>3, <1>4
<1>7. TotalPage(size, n) = q
  BY DEF TotalPage, L
<1> QED
  BY <1>4, <1>5, <1>6, <1>7 DEF L

----------------------------------------------------------------------------
(* One page *)

\* A SELECT skips as many rows as it can and returns the ones that follow.
LEMMA FindPage ==
  ASSUME table \subseteq Rows,
         NEW order, NEW offset \in Int, NEW limit \in Nat, NEW p \in Find(order, offset, limit)
  PROVE  /\ p \subseteq table /\ IsFiniteSet(p) /\ Cardinality(p) \in Nat /\ Cardinality(p) <= limit
         /\ \E skipped \in SUBSET (table \ p) :
              /\ Cardinality(skipped) =
                   IF offset > 0
                     THEN IF offset < Cardinality(table) THEN offset ELSE Cardinality(table)
                     ELSE 0
              /\ Cardinality(p) = limit \/ table = skipped \cup p
              /\ \A x \in skipped, y \in table \ skipped : ~Before(y, x, order)
              /\ \A x \in p, y \in table \ (skipped \cup p) : ~Before(y, x, order)
<1> DEFINE n == Cardinality(table)
<1>1. n \in Nat /\ IsFiniteSet(table)
  BY RowsCounted
<1>2. p \subseteq table
  BY DEF Find
<1>3. PICK skipped \in SUBSET (table \ p) :
        /\ Cardinality(skipped) = IF offset > 0 THEN IF offset < n THEN offset ELSE n ELSE 0
        /\ Cardinality(p) = IF limit < n - Cardinality(skipped) THEN limit ELSE n - Cardinality(skipped)
        /\ \A x \in skipped, y \in table \ skipped : ~Before(y, x, order)
        /\ \A x \in p, y \in table \ (skipped \cup p) : ~Before(y, x, order)
  BY DEF Find
<1>4. /\ IsFiniteSet(p) /\ IsFiniteSet(skipped)
      /\ Cardinality(p) \in Nat /\ Cardinality(skipped) \in Nat
  BY <1>2, RowsCounted
<1>5. Cardinality(skipped \cup p) = Cardinality(skipped) + Cardinality(p)
  BY <1>4, DisjointCounted
<1>6. Cardinality(p) # limit => table = skipped \cup p
  <2>1. Cardinality(p) # limit => Cardinality(skipped \cup p) = n
    BY <1>1, <1>3, <1>4, <1>5
  <2>2. skipped \cup p \in SUBSET table
    BY <1>2
  <2> QED
    BY <1>1, <2>1, <2>2, FS_Subset
<1>7. Cardinality(p) <= limit
  BY <1>1, <1>3, <1>4
<1> QED
  BY <1>2, <1>3, <1>4, <1>6, <1>7

\* Where a row's rank lies tells which page it is on.
LEMMA PageRanks ==
  ASSUME ListingTypeOK, NEW r \in table,
         NEW p \in SUBSET table, NEW skipped \in SUBSET (table \ p),
         \A x \in skipped, y \in table \ skipped : ~Before(y, x, req.order),
         \A x \in p, y \in table \ (skipped \cup p) : ~Before(y, x, req.order)
  PROVE  /\ Rank(r) \in Nat
         /\ r \in skipped => Rank(r) < Cardinality(skipped)
         /\ r \in skipped \cup p => Rank(r) < Cardinality(skipped) + Cardinality(p)
         /\ Unshared(r) /\ r \notin skipped => Cardinality(skipped) <= Rank(r)
         /\ Unshared(r) /\ r \notin skipped \cup p =>
              Cardinality(skipped) + Cardinality(p) <= Rank(r)
<1> DEFINE B == {q \in table : Before(q, r, req.order)}
<1>0. table \subseteq Rows /\ B \subseteq table /\ r \notin B
  <2>1. table \subseteq Rows /\ value \in [Rows -> Values] /\ Values \subseteq Int
    BY DEF ListingTypeOK, ListingAssumption
  <2>2. value[r] \in Int
    BY <2>1
  <2>3. ~Before(r, r, req.order)
    BY <2>2 DEF Before
  <2> QED
    BY <2>1, <2>3
<1>1. Rank(r) = Cardinality(B)
  BY DEF Rank
<1>2. /\ IsFiniteSet(B) /\ Cardinality(B) \in Nat
      /\ IsFiniteSet(p) /\ Cardinality(p) \in Nat
      /\ IsFiniteSet(skipped) /\ Cardinality(skipped) \in Nat
      /\ IsFiniteSet(skipped \cup p)
  BY <1>0, RowsCounted
<1>3. Cardinality(skipped \cup p) = Cardinality(skipped) + Cardinality(p)
  BY <1>2, DisjointCounted
<1>4. r \in skipped => B \subseteq skipped
  OBVIOUS
<1>5. r \in skipped \cup p => B \subseteq skipped \cup p
  OBVIOUS
<1>6. \A q \in table \ {r} : Unshared(r) /\ ~Before(r, q, req.order) => q \in B
  <2> SUFFICES ASSUME NEW q \in table \ {r}, Unshared(r), ~Before(r, q, req.order)
               PROVE  q \in B
    OBVIOUS
  <2>1. value[q] \in Int /\ value[r] \in Int /\ value[q] # value[r]
    BY DEF ListingTypeOK, ListingAssumption, Unshared
  <2> QED
    BY <2>1 DEF Before
<1>7. Unshared(r) /\ r \notin skipped => skipped \subseteq B
  BY <1>6
<1>8. Unshared(r) /\ r \notin skipped \cup p => skipped \cup p \subseteq B
  BY <1>6
<1> HIDE DEF B
<1>9. r \in skipped => Cardinality(B) < Cardinality(skipped)
  BY <1>0, <1>2, <1>4, SmallerCounted
<1>10. r \in skipped \cup p => Cardinality(B) < Cardinality(skipped \cup p)
  BY <1>0, <1>2, <1>5, SmallerCounted
<1>11. skipped \subseteq B => Cardinality(skipped) <= Cardinality(B)
  BY <1>2, FS_Subset
<1>12. skipped \cup p \subseteq B => Cardinality(skipped \cup p) <= Cardinality(B)
  BY <1>2, FS_Subset
<1> QED
  BY <1>1, <1>2, <1>3, <1>7, <1>8, <1>9, <1>10, <1>11, <1>12

----------------------------------------------------------------------------
(* Types *)

ListRequest ==
  [list : {"orders", "inventory"}, page : Int, from : Int, limit : Int,
   order : [column : orderListOrderColumns \cup inventoryListOrderColumns,
            desc : BOOLEAN]]

LEMMA SkipType ==
  ASSUME ListingTypeOK
  PROVE  /\ req.page \in Int /\ req.limit \in Int /\ req.from \in Int /\ total \in Nat
         /\ CurrentPage(req.page, req.limit, total) \in Int
         /\ Skip(req.page, req.limit, total) \in Int
         /\ Limit(req.limit) \in Nat /\ Limit(req.limit) >= 1
         /\ Limit(req.limit) <= DefaultPageSize
<1>1. /\ req.page \in Int /\ req.limit \in Int /\ req.from \in Int
      /\ total \in 0..Cardinality(Rows)
  BY DEF ListingTypeOK
<1>2. total \in Nat
  <2>1. Cardinality(Rows) \in Nat
    BY RowsCounted
  <2> QED
    BY <1>1, <2>1
<1>3. CurrentPage(req.page, req.limit, total) \in Int
  BY <1>1 DEF CurrentPage
<1>4. Limit(req.limit) \in Nat /\ Limit(req.limit) >= 1
      /\ Limit(req.limit) <= DefaultPageSize
  BY <1>1, LimitType
<1>5. Word \in Nat /\ Word > 0
  <2>1. 0 < Word \div 2 /\ Word \in Nat
    <3>1. Cardinality(Rows) \in Nat /\ Cardinality(Rows) < Word \div 2
      BY RowsCounted
    <3>2. Word \in Nat
      BY DEF ListingAssumption
    <3>3. Word \div 2 \in Nat
      BY <3>2
    <3> QED
      BY <3>1, <3>2, <3>3
  <2> QED
    BY <2>1
<1>6. ASSUME NEW n \in Int PROVE Wrap(n) \in Int
  <2>1. (n + Word \div 2) \in Int /\ (n + Word \div 2) % Word \in Int /\ Word \div 2 \in Int
    BY <1>5
  <2> QED
    BY <2>1 DEF Wrap
<1>7. (CurrentPage(req.page, req.limit, total) - 1) * Limit(req.limit) \in Int
  BY <1>3, <1>4
<1>8. Skip(req.page, req.limit, total) \in Int
  BY <1>6, <1>7 DEF Skip
<1> QED
  BY <1>1, <1>2, <1>3, <1>4, <1>8

\* A new request.
LEMMA BeginFrame ==
  ASSUME ListingTypeOK, GetOrders \/ List
  PROVE  /\ place = "idle" /\ place' = "count"
         /\ req' \in ListRequest /\ req'.page = req'.from
         /\ start' = table /\ seen' = {} /\ repeated' = {} /\ grew' = FALSE /\ moves' = 0
         /\ UNCHANGED <<table, value, total, given, changed>>
<1> DEFINE Columns == orderListOrderColumns \cup inventoryListOrderColumns
<1>1. ASSUME NEW list \in {"orders", "inventory"}, NEW columns \in SUBSET Columns,
             "created_at" \in columns, Begin(list, columns)
      PROVE  req' \in ListRequest /\ req'.page = req'.from
  <2>1. PICK p \in Pages, limit \in Limits, by \in OrderBys, desc \in BOOLEAN :
          req' = [list |-> list, page |-> p, from |-> p, limit |-> limit,
                  order |-> SafeOrderByColumn(by, desc, columns)]
    BY <1>1 DEF Begin
  <2>2. p \in Int /\ limit \in Int
    BY DEF ListingAssumption
  <2>3. SafeOrderByColumn(by, desc, columns) \in [column : Columns, desc : BOOLEAN]
    BY <1>1 DEF SafeOrderByColumn, defaultColumn
  <2> QED
    BY <2>1, <2>2, <2>3 DEF ListRequest
<1>2. "created_at" \in orderListOrderColumns /\ "created_at" \in inventoryListOrderColumns
  BY DEF orderListOrderColumns, inventoryListOrderColumns, defaultColumn
<1>3. req' \in ListRequest /\ req'.page = req'.from
  BY <1>1, <1>2 DEF GetOrders, List
<1> QED
  BY <1>3 DEF GetOrders, List, Begin

\* What SELECT returns is a page.
LEMMA GetPageFrame ==
  ASSUME ListingTypeOK, GetPage
  PROVE  /\ given' \in Find(req.order, Skip(req.page, req.limit, total), Limit(req.limit))
         /\ given' \subseteq table /\ Cardinality(given') \in Nat
         /\ Cardinality(given') <= Limit(req.limit)
         /\ place = "find" /\ place' = "answered"
         /\ seen' = seen \cup given' /\ repeated' = repeated \cup (seen \cap given')
         /\ UNCHANGED <<table, value, req, total, start, grew, moves, changed>>
<1>1. /\ given' \in Find(req.order, Skip(req.page, req.limit, total), Limit(req.limit))
      /\ place = "find" /\ place' = "answered"
      /\ seen' = seen \cup given' /\ repeated' = repeated \cup (seen \cap given')
      /\ UNCHANGED <<table, value, req, total, start, grew, moves, changed>>
  BY DEF GetPage
<1>2. table \subseteq Rows
  BY DEF ListingTypeOK
<1>3. /\ given' \subseteq table /\ Cardinality(given') \in Nat
      /\ Cardinality(given') <= Limit(req.limit)
  BY <1>1, <1>2, SkipType, FindPage
<1> QED
  BY <1>1, <1>3

\* What the client does with it.
LEMMA NextPageFrame ==
  ASSUME ListingTypeOK, NextPage
  PROVE  /\ place = "answered"
         /\ UNCHANGED <<table, value, total, given, seen, repeated, start, grew, moves, changed>>
         /\ \/ /\ Cardinality(given) = Limit(req.limit) /\ place' = "count"
               /\ req' = [req EXCEPT !.page = CurrentPage(req.page, req.limit, total) + 1]
            \/ /\ Cardinality(given) # Limit(req.limit) /\ place' = "done"
               /\ UNCHANGED req
BY DEF NextPage, walk

LEMMA PagedTypeStep == ListingTypeOK /\ [ListingNext]_listingVars => ListingTypeOK'
<1> SUFFICES ASSUME ListingTypeOK, [ListingNext]_listingVars PROVE ListingTypeOK'
  OBVIOUS
<1> USE DEF ListRequest
<1>1. CASE UNCHANGED listingVars
  BY <1>1 DEF ListingTypeOK, listingVars, walk
<1>2. CASE GetOrders \/ List
  <2>1. /\ place' = "count" /\ req' \in ListRequest
        /\ start' = table /\ seen' = {} /\ repeated' = {} /\ grew' = FALSE /\ moves' = 0
        /\ UNCHANGED <<table, value, total, given, changed>>
    BY <1>2, BeginFrame
  <2>2. 0 \in 0..MaxMoves
    BY DEF ListingAssumption
  <2> QED
    BY <2>1, <2>2 DEF ListingTypeOK
<1>3. CASE Count
  <2>1. total' = Cardinality(table) /\ place' = "find" /\ changed' = FALSE
        /\ UNCHANGED <<table, value, req, given, seen, repeated, start, grew, moves>>
    BY <1>3 DEF Count, walk
  <2>2. table \in SUBSET Rows
    BY DEF ListingTypeOK
  <2>3. Cardinality(table) \in Nat /\ Cardinality(table) <= Cardinality(Rows)
        /\ Cardinality(Rows) \in Nat
    BY <2>2, RowsCounted
  <2>4. total' \in 0..Cardinality(Rows)
    BY <2>1, <2>3
  <2> QED
    BY <2>1, <2>4 DEF ListingTypeOK
<1>4. CASE GetPage
  <2>1. /\ given' \subseteq table /\ Cardinality(given') \in Nat
        /\ Cardinality(given') <= Limit(req.limit)
        /\ place' = "answered"
        /\ seen' = seen \cup given' /\ repeated' = repeated \cup (seen \cap given')
        /\ UNCHANGED <<table, value, req, total, start, grew, moves, changed>>
    BY <1>4, GetPageFrame
  <2>2. Cardinality(given') <= DefaultPageSize
    <3>1. Limit(req.limit) \in Nat /\ Limit(req.limit) <= DefaultPageSize
      BY SkipType
    <3>2. DefaultPageSize \in Nat
      BY DEF ListingAssumption
    <3> QED
      BY <2>1, <3>1, <3>2
  <2> QED
    BY <2>1, <2>2 DEF ListingTypeOK
<1>5. CASE NextPage
  <2>1. /\ place' \in {"count", "done"}
        /\ UNCHANGED <<table, value, total, given, seen, repeated, start, grew, moves, changed>>
        /\ \/ UNCHANGED req
           \/ req' = [req EXCEPT !.page = CurrentPage(req.page, req.limit, total) + 1]
    BY <1>5, NextPageFrame
  <2>2. CurrentPage(req.page, req.limit, total) + 1 \in Int
    BY SkipType
  <2>3. req' \in ListRequest
    BY <2>1, <2>2 DEF ListingTypeOK
  <2> QED
    BY <2>1, <2>3 DEF ListingTypeOK
<1>6. CASE Fail
  BY <1>6 DEF Fail, ListingTypeOK, walk
<1>7. ASSUME NEW r \in Rows, Insert(r) PROVE ListingTypeOK'
  BY <1>7 DEF Insert, ListingTypeOK, walk
<1>8. ASSUME NEW r \in Rows, Leave(r) PROVE ListingTypeOK'
  BY <1>8 DEF Leave, ListingTypeOK, walk, ListingAssumption
<1>9. ASSUME NEW r \in Rows, NEW v \in Values, Resort(r, v) PROVE ListingTypeOK'
  BY <1>9 DEF Resort, ListingTypeOK, walk, ListingAssumption
<1> QED
  BY <1>1, <1>2, <1>3, <1>4, <1>5, <1>6, <1>7, <1>8, <1>9 DEF ListingNext

----------------------------------------------------------------------------
(* Walks *)

\* As long as a walk's pages lie inside the table, the offset that is computed
\* is the one that is meant.
LEMMA SkipExact ==
  ASSUME ListingTypeOK, req.page > 1 => total > 0
  PROVE  /\ Offset \in Nat
         /\ Offset < Word \div 2 => Skip(req.page, req.limit, total) = Offset
         /\ CurrentPage(req.page, req.limit, total) >= 1
         /\ CurrentPage(req.page, req.limit, total) * Limit(req.limit)
              = Offset + Limit(req.limit)
         /\ req.page > 1 => Offset >= 1
<1> DEFINE L == Limit(req.limit)
           c == CurrentPage(req.page, req.limit, total)
<1>1. req.page \in Int /\ req.limit \in Int /\ total \in Nat /\ L \in Nat /\ L >= 1
  BY SkipType
<1>2. TotalPage(req.limit, total) = 0 <=> total = 0
  BY <1>1, PagesHold
<1>3. c = IF req.page < 1 THEN 1 ELSE req.page
  BY <1>1, <1>2 DEF CurrentPage
<1>4. Offset = IF req.page < 1 THEN 0 ELSE (req.page - 1) * L
  BY DEF Offset
<1>5. Skip(req.page, req.limit, total) = Wrap((c - 1) * L)
  BY DEF Skip
<1> HIDE DEF L, c
<1>6. c \in Nat /\ c >= 1 /\ c - 1 \in Nat
  BY <1>1, <1>3
<1>7. Offset = (c - 1) * L
  BY <1>1, <1>3, <1>4
<1>8. (c - 1) * L \in Nat /\ c * L = (c - 1) * L + L
  BY <1>1, <1>6
<1>9. Offset \in Nat /\ c * L = Offset + L
  BY <1>7, <1>8
<1>10. Offset < Word \div 2 => Skip(req.page, req.limit, total) = Offset
  BY <1>5, <1>7, <1>9, WrapFits
<1>11. req.page > 1 => Offset >= 1
  BY <1>1, <1>4, <1>9
<1> QED
  BY <1>6, <1>9, <1>10, <1>11 DEF L, c

LEMMA RankType ==
  ASSUME ListingTypeOK
  PROVE  \A r : Rank(r) \in Nat
<1>1. \A r : {q \in table : Before(q, r, req.order)} \in SUBSET Rows
  BY DEF ListingTypeOK
<1> QED
  BY <1>1, RowsCounted DEF Rank

LEMMA RankKept ==
  ASSUME UNCHANGED <<table, value>>, req'.order = req.order, NEW r
  PROVE  Rank(r)' = Rank(r) /\ (Unshared(r)' <=> Unshared(r))
BY DEF Rank, Before, Unshared

\* A new row puts other rows further back, never nearer.
LEMMA RankGrows ==
  ASSUME ListingTypeOK, ListingTypeOK', table \subseteq table',
         UNCHANGED <<value, req>>, NEW r
  PROVE  /\ Rank(r) <= Rank(r)'
         /\ Unshared(r)' <=> Unshared(r)
<1> DEFINE B == {q \in table : Before(q, r, req.order)}
           C == {q \in table' : Before(q, r, req.order)}
<1>1. Rank(r) = Cardinality(B)
  BY DEF Rank
<1>2. Rank(r)' = Cardinality(C)
  BY DEF Rank, Before
<1>3. B \subseteq C /\ C \in SUBSET Rows
  BY DEF ListingTypeOK
<1>4. IsFiniteSet(C)
  BY <1>3, RowsCounted
<1>5. Cardinality(B) <= Cardinality(C)
  BY <1>3, <1>4, FS_Subset
<1>6. Unshared(r)' <=> Unshared(r)
  BY DEF Unshared
<1> QED
  BY <1>1, <1>2, <1>5, <1>6

\* GetPage, in a walk from the first page on.
LEMMA GetPageWalks ==
  ASSUME ListingTypeOK, WalkCovers, GetPage,
         req.from <= 1, moves = 0
  PROVE  /\ WalkCovers'
         /\ WalkInOrder => WalkInOrder'
<1> DEFINE L == Limit(req.limit)
           o == Offset
           n == Cardinality(table)
<1>1. /\ given' \in Find(req.order, Skip(req.page, req.limit, total), L)
      /\ given' \subseteq table /\ Cardinality(given') \in Nat /\ Cardinality(given') <= L
      /\ place = "find" /\ place' = "answered"
      /\ seen' = seen \cup given' /\ repeated' = repeated \cup (seen \cap given')
      /\ UNCHANGED <<table, value, req, total, start, grew, moves, changed>>
  BY GetPageFrame
<1>2. /\ start \subseteq table /\ Reached <= Cardinality(table)
      /\ req.page > 1 => total > 0
      /\ \A r \in start : Unshared(r) /\ (Ended \/ Rank(r) < Reached) => r \in seen
  BY <1>1 DEF WalkCovers
<1>3. Reached = o + 0
  BY <1>1 DEF Reached
<1>4. n \in Nat /\ n < Word \div 2 /\ IsFiniteSet(table) /\ table \subseteq Rows
  BY RowsCounted DEF ListingTypeOK
<1>5. o \in Nat /\ L \in Nat
  BY <1>2, SkipExact, SkipType
<1>6. o <= n /\ Reached = o
  BY <1>2, <1>3, <1>5
<1>7. Skip(req.page, req.limit, total) = o
  <2>1. o < Word \div 2
    <3>1. Word \div 2 \in Int
      BY DEF ListingAssumption
    <3> QED
      BY <1>4, <1>5, <1>6, <3>1
  <2> QED
    BY <1>2, <2>1, SkipExact
<1>8. PICK skipped \in SUBSET (table \ given') :
        /\ Cardinality(skipped) = IF o > 0 THEN IF o < n THEN o ELSE n ELSE 0
        /\ Cardinality(given') = L \/ table = skipped \cup given'
        /\ \A x \in skipped, y \in table \ skipped : ~Before(y, x, req.order)
        /\ \A x \in given', y \in table \ (skipped \cup given') : ~Before(y, x, req.order)
  BY <1>1, <1>4, <1>5, <1>7, FindPage
<1> HIDE DEF L, o, n
<1>9. Cardinality(skipped) = o
  BY <1>4, <1>5, <1>6, <1>8
<1>10. ASSUME NEW r \in table
       PROVE  /\ Rank(r) \in Nat
              /\ r \in skipped => Rank(r) < o
              /\ r \in skipped \cup given' => Rank(r) < o + Cardinality(given')
              /\ Unshared(r) /\ r \notin skipped => o <= Rank(r)
              /\ Unshared(r) /\ r \notin skipped \cup given' =>
                   o + Cardinality(given') <= Rank(r)
  BY <1>1, <1>8, <1>9, PageRanks
<1>11. Reached' = o + Cardinality(given')
  <2>1. Offset' = o
    BY <1>1 DEF Offset, Limit, o
  <2> QED
    BY <1>1, <2>1 DEF Reached
<1>12. Ended' <=> Cardinality(given') < L
  BY <1>1 DEF Ended, Limit, L
<1>13. o + Cardinality(given') <= n
  <2>1. /\ IsFiniteSet(skipped) /\ IsFiniteSet(given') /\ skipped \cup given' \in SUBSET table
    BY <1>1, <1>4, RowsCounted
  <2>2. Cardinality(skipped \cup given') = o + Cardinality(given')
    BY <1>9, <2>1, DisjointCounted
  <2> QED
    BY <1>4, <2>1, <2>2, FS_Subset DEF n
<1>14. \A r : Rank(r)' = Rank(r) /\ (Unshared(r)' <=> Unshared(r))
  BY <1>1, RankKept
<1>15. WalkCovers'
  <2>1. ASSUME NEW r \in start, Unshared(r),
               Cardinality(given') < L \/ Rank(r) < o + Cardinality(given')
        PROVE  r \in seen'
    <3>1. r \in table
      BY <1>2
    <3>2. CASE r \in skipped
      BY <1>1, <1>2, <1>6, <1>10, <2>1, <3>1, <3>2
    <3>3. CASE r \notin skipped \cup given'
      <4>1. o + Cardinality(given') <= Rank(r) /\ Rank(r) \in Nat
        BY <1>10, <2>1, <3>1, <3>3
      <4>2. Cardinality(given') = L
        BY <1>8, <3>1, <3>3
      <4> QED
        BY <1>1, <1>5, <2>1, <4>1, <4>2
    <3> QED
      BY <1>1, <3>2, <3>3
  <2>2. start' \subseteq table' /\ Reached' <= Cardinality(table')
    BY <1>1, <1>2, <1>11, <1>13 DEF n
  <2>3. req'.page > 1 => total' > 0
    BY <1>1, <1>2
  <2>4. Cardinality(given') <= Limit(req'.limit)
    BY <1>1 DEF L
  <2>5. \A r \in start' : Unshared(r)' /\ (Ended' \/ Rank(r)' < Reached') => r \in seen'
    BY <1>1, <1>11, <1>12, <1>14, <2>1
  <2> QED
    BY <1>1, <2>2, <2>3, <2>4, <2>5 DEF WalkCovers
<1>16. ASSUME WalkInOrder PROVE WalkInOrder'
  <2> SUFFICES ASSUME ~grew'
               PROVE  /\ table' = start' /\ seen' \subseteq start'
                      /\ \A r \in seen' : Unshared(r)' => Rank(r)' < Reached'
                      /\ \A r \in repeated' : ~Unshared(r)'
    BY DEF WalkInOrder
  <2>1. /\ table = start /\ seen \subseteq start
        /\ \A r \in seen : Unshared(r) => Rank(r) < o
        /\ \A r \in repeated : ~Unshared(r)
    BY <1>1, <1>6, <1>16 DEF WalkInOrder
  <2>2. table' = start' /\ seen' \subseteq start'
    BY <1>1, <2>1
  <2>3. ASSUME NEW r \in seen', Unshared(r) PROVE Rank(r) < o + Cardinality(given')
    <3>1. r \in table
      BY <1>1, <2>1
    <3>2. CASE r \in given'
      BY <1>10, <3>1, <3>2
    <3>3. CASE r \in seen
      BY <1>1, <1>5, <1>10, <2>1, <2>3, <3>1, <3>3
    <3> QED
      BY <1>1, <3>2, <3>3
  <2>4. ASSUME NEW r \in seen \cap given', Unshared(r) PROVE FALSE
    <3>1. r \in table /\ r \notin skipped
      BY <1>1, <1>8
    <3>2. o <= Rank(r) /\ Rank(r) < o /\ Rank(r) \in Nat
      BY <1>10, <2>1, <2>4, <3>1
    <3> QED
      BY <1>5, <3>2
  <2> QED
    BY <1>1, <1>11, <1>14, <2>1, <2>2, <2>3, <2>4
<1> QED
  BY <1>15, <1>16

LEMMA OffsetType ==
  ASSUME ListingTypeOK
  PROVE  Offset \in Nat /\ (req.page <= 1 => Offset = 0) /\ (req.page > 1 => Offset >= 1)
<1> DEFINE L == Limit(req.limit)
<1>1. req.page \in Int /\ L \in Nat /\ L >= 1
  BY SkipType
<1>2. Offset = IF req.page < 1 THEN 0 ELSE (req.page - 1) * L
  BY DEF Offset
<1> HIDE DEF L
<1>3. CASE req.page <= 1
  BY <1>1, <1>2, <1>3
<1>4. CASE req.page > 1
  <2>1. (req.page - 1) * L \in Nat /\ (req.page - 1) * L >= 1
    BY <1>1, <1>4
  <2> QED
    BY <1>1, <1>2, <1>4, <2>1
<1> QED
  BY <1>1, <1>3, <1>4

\* NextPage: the next page begins where the full one ended.
LEMMA NextPageWalks ==
  ASSUME ListingTypeOK, WalkCovers, NextPage,
         req.from <= 1, moves = 0
  PROVE  /\ WalkCovers'
         /\ WalkInOrder => WalkInOrder'
<1> DEFINE L == Limit(req.limit)
           c == CurrentPage(req.page, req.limit, total)
<1>1. /\ place = "answered"
      /\ UNCHANGED <<table, value, total, given, seen, repeated, start, grew, moves, changed>>
      /\ \/ /\ Cardinality(given) = L /\ place' = "count"
            /\ req' = [req EXCEPT !.page = c + 1]
         \/ /\ Cardinality(given) # L /\ place' = "done"
            /\ UNCHANGED req
  BY NextPageFrame
<1>2. /\ start \subseteq table /\ Reached <= Cardinality(table)
      /\ req.page > 1 => total > 0
      /\ Cardinality(given) <= L
      /\ \A r \in start : Unshared(r) /\ (Ended \/ Rank(r) < Reached) => r \in seen
  BY <1>1 DEF WalkCovers
<1>3. L \in Nat /\ L >= 1 /\ c \in Int /\ c >= 1 /\ c * L = Offset + L /\ Offset \in Nat
  BY <1>2, SkipExact, SkipType
<1>4. Cardinality(given) \in Nat /\ Cardinality(given) <= L
  BY <1>2, RowsCounted DEF ListingTypeOK
<1>5. Reached = Offset + Cardinality(given)
  BY <1>1 DEF Reached
<1>6. req'.order = req.order /\ req'.limit = req.limit /\ req'.from = req.from
  BY <1>1 DEF ListingTypeOK
<1>7. \A r : Rank(r)' = Rank(r) /\ (Unshared(r)' <=> Unshared(r))
  BY <1>1, <1>6, RankKept
<1>8. Limit(req.limit)' = L
  BY <1>6 DEF Limit
<1> HIDE DEF L, c
<1>9. CASE place' = "count"
  <2>1. Cardinality(given) = L /\ req'.page = c + 1
    BY <1>1, <1>9 DEF ListingTypeOK
  <2>2. Offset' = (IF req'.page < 1 THEN 0 ELSE (req'.page - 1) * L)
    BY <1>8 DEF Offset
  <2>3. Offset' = c * L
    <3>1. (c + 1) - 1 = c /\ ~(c + 1 < 1)
      BY <1>3
    <3>2. Offset' = ((c + 1) - 1) * L
      BY <2>1, <2>2, <3>1, Zenon
    <3> QED
      BY <3>1, <3>2, Zenon
  <2>4. Reached' = Offset' + 0
    BY <1>9 DEF Reached
  <2>5. Reached' = Reached
    BY <1>3, <1>5, <2>1, <2>3, <2>4
  <2>6. ~Ended'
    BY <1>9 DEF Ended
  <2>7. WalkCovers'
    BY <1>1, <1>2, <1>7, <1>9, <2>5, <2>6 DEF WalkCovers
  <2>8. ASSUME WalkInOrder PROVE WalkInOrder'
    BY <1>1, <1>7, <1>9, <2>5, <2>8 DEF WalkInOrder
  <2> QED
    BY <2>7, <2>8
<1>10. CASE place' = "done"
  <2>1. Cardinality(given) < L /\ req' = req
    BY <1>1, <1>3, <1>4, <1>10
  <2>2. Reached' = Reached
    <3>1. Offset' = Offset
      BY <2>1 DEF Offset, Limit
    <3> QED
      BY <1>1, <1>10, <3>1 DEF Reached
  <2>3. Ended /\ Ended'
    BY <1>1, <1>8, <1>10, <2>1 DEF Ended, L
  <2>4. WalkCovers'
    BY <1>1, <1>2, <1>7, <1>10, <2>1, <2>2, <2>3 DEF WalkCovers
  <2>5. ASSUME WalkInOrder PROVE WalkInOrder'
    BY <1>1, <1>7, <1>10, <2>1, <2>2, <2>5 DEF WalkInOrder
  <2> QED
    BY <2>4, <2>5
<1> QED
  BY <1>1, <1>9, <1>10

\* Begin: nothing has been given, and nothing is due.
LEMMA BeginWalks ==
  ASSUME ListingTypeOK, ListingTypeOK', GetOrders \/ List
  PROVE  WalkCovers' /\ WalkInOrder'
<1>1. /\ place' = "count" /\ req'.page = req'.from
      /\ start' = table /\ seen' = {} /\ repeated' = {} /\ table' = table
  BY BeginFrame
<1>2. SUFFICES ASSUME req'.from <= 1 PROVE WalkCovers' /\ WalkInOrder'
  BY DEF WalkCovers, WalkInOrder
<1>3. Offset' = 0
  <2>1. (req.page <= 1 => Offset = 0)'
    BY OffsetType, PTL
  <2> QED
    BY <1>1, <1>2, <2>1
<1>4. Reached' = 0 /\ ~Ended'
  BY <1>1, <1>3 DEF Reached, Ended
<1>5. \A r : Rank(r)' \in Nat
  <2>1. (\A r : Rank(r) \in Nat)'
    BY RankType, PTL
  <2> QED
    BY <2>1
<1>6. Cardinality(table') \in Nat
  BY <1>1, RowsCounted DEF ListingTypeOK
<1>7. WalkCovers'
  <2>1. \A r : ~(Rank(r)' < Reached')
    BY <1>4, <1>5
  <2>2. Reached' <= Cardinality(table')
    BY <1>4, <1>6
  <2>3. ~(req'.page > 1)
    BY <1>1, <1>2 DEF ListingTypeOK
  <2> QED
    BY <1>1, <1>4, <2>1, <2>2, <2>3 DEF WalkCovers
<1>8. WalkInOrder'
  BY <1>1 DEF WalkInOrder
<1> QED
  BY <1>7, <1>8

\* COUNT: a page behind the first one has rows in front of it.
LEMMA CountWalks ==
  ASSUME ListingTypeOK, WalkCovers, Count,
         req.from <= 1, moves = 0
  PROVE  /\ WalkCovers'
         /\ WalkInOrder => WalkInOrder'
<1>1. /\ place = "count" /\ place' = "find" /\ total' = Cardinality(table)
      /\ UNCHANGED <<table, value, req, given, seen, repeated, start, grew, moves>>
  BY DEF Count, walk
<1>2. /\ start \subseteq table /\ Reached <= Cardinality(table)
      /\ \A r \in start : Unshared(r) /\ (Ended \/ Rank(r) < Reached) => r \in seen
  BY <1>1 DEF WalkCovers
<1>3. Offset' = Offset
  BY <1>1 DEF Offset, Limit
<1>4. /\ Reached = Offset + 0 /\ Reached' = Offset + 0
      /\ ~Ended /\ ~Ended'
  BY <1>1, <1>3 DEF Reached, Ended
<1>5. Reached' = Reached
  BY <1>4
<1>6. req.page > 1 => total' > 0
  <2>1. Cardinality(table) \in Nat
    BY RowsCounted DEF ListingTypeOK
  <2> QED
    BY <1>1, <1>2, <1>4, <2>1, OffsetType
<1>7. \A r : Rank(r)' = Rank(r) /\ (Unshared(r)' <=> Unshared(r))
  BY <1>1, RankKept
<1>8. WalkCovers'
  BY <1>1, <1>2, <1>4, <1>5, <1>6, <1>7 DEF WalkCovers
<1>9. ASSUME WalkInOrder PROVE WalkInOrder'
  BY <1>1, <1>5, <1>7, <1>9 DEF WalkInOrder
<1> QED
  BY <1>8, <1>9

\* Insert: no row comes nearer, so none that is due has been passed over.
LEMMA InsertWalks ==
  ASSUME ListingTypeOK, ListingTypeOK', WalkCovers,
         NEW x \in Rows, Insert(x), req.from <= 1, moves = 0
  PROVE  WalkCovers' /\ WalkInOrder'
<1>1. /\ place # "idle" /\ table' = table \cup {x} /\ grew' = TRUE
      /\ UNCHANGED <<value, place, req, total, given, seen, repeated, start, moves>>
  BY DEF Insert, Busy, walk
<1>2. /\ start \subseteq table /\ Reached <= Cardinality(table)
      /\ place # "count" /\ req.page > 1 => total > 0
      /\ place = "answered" => Cardinality(given) <= Limit(req.limit)
      /\ place = "done" => Ended
      /\ \A r \in start : Unshared(r) /\ (Ended \/ Rank(r) < Reached) => r \in seen
  BY <1>1 DEF WalkCovers
<1>3. Limit(req.limit)' = Limit(req.limit)
  BY <1>1 DEF Limit
<1>4. Reached' = Reached /\ (Ended' <=> Ended)
  BY <1>1, <1>3 DEF Reached, Offset, Ended
<1>5. \A r : Rank(r) <= Rank(r)' /\ (Unshared(r)' <=> Unshared(r))
  BY <1>1, RankGrows
<1>6. \A r : Rank(r) \in Nat /\ Rank(r)' \in Nat
  <2>1. \A r : Rank(r) \in Nat
    BY RankType
  <2>2. (\A r : Rank(r) \in Nat)'
    BY RankType, PTL
  <2> QED
    BY <2>1, <2>2
<1>7. Reached \in Int
  <2>1. Cardinality(given) \in Nat
    BY RowsCounted DEF ListingTypeOK
  <2> QED
    BY <2>1, OffsetType DEF Reached
<1>8. Reached' <= Cardinality(table')
  <2>1. table \subseteq table' /\ table' \in SUBSET Rows /\ table \in SUBSET Rows
    BY <1>1 DEF ListingTypeOK
  <2>2. IsFiniteSet(table') /\ Cardinality(table') \in Nat /\ Cardinality(table) \in Nat
    BY <2>1, RowsCounted
  <2>3. Cardinality(table) <= Cardinality(table')
    BY <2>1, <2>2, FS_Subset
  <2> QED
    BY <1>2, <1>4, <1>7, <2>2, <2>3
<1>9. \A r \in start' : Unshared(r)' /\ (Ended' \/ Rank(r)' < Reached') => r \in seen'
  <2>1. \A r : Rank(r)' < Reached => Rank(r) < Reached
    BY <1>5, <1>6, <1>7
  <2> QED
    BY <1>1, <1>2, <1>4, <1>5, <2>1
<1>10. WalkCovers'
  BY <1>1, <1>2, <1>3, <1>4, <1>8, <1>9 DEF WalkCovers
<1>11. WalkInOrder'
  BY <1>1 DEF WalkInOrder
<1> QED
  BY <1>10, <1>11

LEMMA WalkStep ==
  ListingInv /\ ListingTypeOK' /\ [ListingNext]_listingVars
           => WalkCovers' /\ WalkInOrder'
<1> SUFFICES ASSUME ListingInv, ListingTypeOK', [ListingNext]_listingVars
             PROVE  WalkCovers' /\ WalkInOrder'
  OBVIOUS
<1>0. ListingTypeOK /\ WalkCovers /\ WalkInOrder
  BY DEF ListingInv
<1>1. ASSUME UNCHANGED <<table, value, req, given, seen, repeated, start, grew, moves, total>>,
             place' = place \/ (place = "find" /\ place' = "count")
      PROVE  WalkCovers' /\ WalkInOrder'
  <2>1. \A r : Rank(r)' = Rank(r) /\ (Unshared(r)' <=> Unshared(r))
    BY <1>1, RankKept
  <2>2. Limit(req.limit)' = Limit(req.limit)
    BY <1>1 DEF Limit
  <2>3. Reached' = Reached /\ (Ended' <=> Ended)
    BY <1>1, <2>2 DEF Reached, Offset, Ended
  <2>4. WalkCovers'
    BY <1>0, <1>1, <2>1, <2>2, <2>3 DEF WalkCovers
  <2>5. WalkInOrder'
    BY <1>0, <1>1, <2>1, <2>3 DEF WalkInOrder
  <2> QED
    BY <2>4, <2>5
<1>2. CASE UNCHANGED listingVars
  BY <1>1, <1>2 DEF listingVars, walk
<1>3. CASE GetOrders \/ List
  BY <1>0, <1>3, BeginWalks
<1>4. CASE Count
  <2>1. UNCHANGED <<req, moves>>
    BY <1>4 DEF Count
  <2>2. CASE req.from <= 1 /\ moves = 0
    BY <1>0, <1>4, <2>2, CountWalks
  <2> QED
    BY <2>1, <2>2 DEF WalkCovers, WalkInOrder
<1>5. CASE GetPage
  <2>1. UNCHANGED <<req, moves>>
    BY <1>5 DEF GetPage
  <2>2. CASE req.from <= 1 /\ moves = 0
    BY <1>0, <1>5, <2>2, GetPageWalks
  <2> QED
    BY <2>1, <2>2 DEF WalkCovers, WalkInOrder
<1>6. CASE NextPage
  <2>1. req'.from = req.from /\ moves' = moves
    BY <1>0, <1>6, NextPageFrame DEF ListingTypeOK
  <2>2. CASE req.from <= 1 /\ moves = 0
    BY <1>0, <1>6, <2>2, NextPageWalks
  <2> QED
    BY <2>1, <2>2 DEF WalkCovers, WalkInOrder
<1>7. CASE Fail
  BY <1>1, <1>7 DEF Fail, walk
<1>8. ASSUME NEW x \in Rows, Insert(x) PROVE WalkCovers' /\ WalkInOrder'
  <2>1. UNCHANGED <<req, moves>>
    BY <1>8 DEF Insert
  <2>2. CASE req.from <= 1 /\ moves = 0
    BY <1>0, <1>8, <2>2, InsertWalks
  <2> QED
    BY <2>1, <2>2 DEF WalkCovers, WalkInOrder
<1>9. ASSUME moves' = moves + 1 PROVE WalkCovers' /\ WalkInOrder'
  <2>1. moves \in Nat
    BY <1>0 DEF ListingTypeOK, ListingAssumption
  <2>2. moves' # 0
    BY <1>9, <2>1
  <2> QED
    BY <2>2 DEF WalkCovers, WalkInOrder
<1>10. ASSUME NEW x \in Rows, Leave(x) PROVE WalkCovers' /\ WalkInOrder'
  BY <1>9, <1>10 DEF Leave
<1>11. ASSUME NEW x \in Rows, NEW v \in Values, Resort(x, v)
       PROVE  WalkCovers' /\ WalkInOrder'
  BY <1>9, <1>11 DEF Resort
<1> QED
  BY <1>2, <1>3, <1>4, <1>5, <1>6, <1>7, <1>8, <1>10, <1>11 DEF ListingNext

----------------------------------------------------------------------------
(* Pages past the last one *)

LEMMA CountStep == CountCurrent /\ [ListingNext]_listingVars => CountCurrent'
<1> SUFFICES ASSUME CountCurrent, [ListingNext]_listingVars PROVE CountCurrent'
  OBVIOUS
<1> USE DEF CountCurrent, walk
<1>1. CASE UNCHANGED listingVars
  BY <1>1 DEF listingVars
<1>2. CASE GetOrders \/ List
  BY <1>2 DEF GetOrders, List, Begin
<1>3. CASE Count
  BY <1>3 DEF Count
<1>4. CASE GetPage
  BY <1>4 DEF GetPage
<1>5. CASE NextPage
  BY <1>5 DEF NextPage
<1>6. CASE Fail
  BY <1>6 DEF Fail
<1>7. ASSUME NEW r \in Rows, Insert(r) \/ Leave(r) PROVE CountCurrent'
  BY <1>7 DEF Insert, Leave
<1>8. ASSUME NEW r \in Rows, NEW v \in Values, Resort(r, v) PROVE CountCurrent'
  BY <1>8 DEF Resort
<1> QED
  BY <1>1, <1>2, <1>3, <1>4, <1>5, <1>6, <1>7, <1>8 DEF ListingNext

\* A SELECT whose offset fits and that goes with its COUNT skips every row.
LEMMA PastTheLast ==
  ASSUME ListingTypeOK, CountCurrent, GetPage, ~changed,
         req.page > TotalPage(req.limit, total),
         (req.page - 1) * Limit(req.limit) < Word \div 2
  PROVE  given' = {}
<1> DEFINE L == Limit(req.limit)
           t == TotalPage(req.limit, total)
           n == Cardinality(table)
           o == (req.page - 1) * L
<1>1. /\ given' \in Find(req.order, Skip(req.page, req.limit, total), L)
      /\ given' \subseteq table /\ place = "find"
  BY GetPageFrame
<1>2. total = n /\ n \in Nat /\ table \subseteq Rows /\ IsFiniteSet(table)
  BY <1>1, RowsCounted DEF CountCurrent, ListingTypeOK
<1>3. /\ req.page \in Int /\ req.limit \in Int /\ L \in Nat /\ L >= 1
      /\ Skip(req.page, req.limit, total) \in Int
  BY SkipType
<1>4. t \in Nat /\ n <= t * L /\ (t = 0 <=> n = 0)
  BY <1>2, <1>3, PagesHold
<1>5. CASE n = 0
  BY <1>1, <1>2, <1>5, FS_EmptySet
<1>6. CASE n # 0
  <2>1. CurrentPage(req.page, req.limit, total) = req.page /\ req.page - 1 \in Nat /\ t <= req.page - 1
    BY <1>3, <1>4, <1>6 DEF CurrentPage
  <2>2. Skip(req.page, req.limit, total) = Wrap(o)
    BY <2>1 DEF Skip
  <2> HIDE DEF L, t, n
  <2>3. o \in Nat /\ t * L <= o /\ t * L \in Nat
    BY <1>3, <1>4, <2>1
  <2>4. o < Word \div 2
    BY DEF L
  <2>5. Skip(req.page, req.limit, total) = o
    BY <2>2, <2>3, <2>4, WrapFits
  <2>6. o >= n /\ o > 0
    BY <1>2, <1>4, <1>6, <2>3
  <2>7. PICK skipped \in SUBSET (table \ given') :
          Cardinality(skipped) = IF o > 0 THEN IF o < n THEN o ELSE n ELSE 0
    BY <1>1, <1>2, <1>3, <2>3, <2>5, FindPage DEF n
  <2>8. Cardinality(skipped) = n
    BY <1>2, <2>3, <2>6, <2>7
  <2>9. skipped = table
    BY <1>2, <2>7, <2>8, FS_Subset DEF n
  <2> QED
    BY <1>1, <2>7, <2>9
<1> QED
  BY <1>5, <1>6

LEMMA PastTheEndStep == ListingInv /\ [ListingNext]_listingVars => PastTheEndEmpty'
<1> SUFFICES ASSUME ListingInv, [ListingNext]_listingVars, place' = "answered", ~changed',
                    (req.page > TotalPage(req.limit, total))',
                    ~(((req.page - 1) * Limit(req.limit) >= Word \div 2)')
             PROVE  given' = {}
  BY DEF PastTheEndEmpty
<1>0. ListingTypeOK /\ CountCurrent /\ PastTheEndEmpty
  BY DEF ListingInv
<1>1. ASSUME UNCHANGED <<place, req, total, given>>, ~changed PROVE given' = {}
  BY <1>0, <1>1 DEF PastTheEndEmpty, TotalPage, Limit
<1>2. CASE UNCHANGED listingVars
  BY <1>1, <1>2 DEF listingVars
<1>3. CASE GetPage
  <2>1. UNCHANGED <<req, total, changed>>
    BY <1>3 DEF GetPage
  <2>2. /\ req.page > TotalPage(req.limit, total)
        /\ ~((req.page - 1) * Limit(req.limit) >= Word \div 2)
    BY <2>1 DEF TotalPage, Limit
  <2>3. (req.page - 1) * Limit(req.limit) \in Int /\ Word \div 2 \in Int
    BY <1>0, SkipType DEF ListingAssumption
  <2>4. (req.page - 1) * Limit(req.limit) < Word \div 2
    BY <2>2, <2>3
  <2> QED
    BY <1>0, <1>3, <2>1, <2>2, <2>4, PastTheLast
<1>4. CASE GetOrders \/ List
  BY <1>4 DEF GetOrders, List, Begin
<1>5. CASE Count \/ NextPage \/ Fail
  BY <1>5 DEF Count, NextPage, Fail
<1>6. ASSUME NEW r \in Rows, Insert(r) \/ Leave(r) PROVE given' = {}
  BY <1>6 DEF Insert, Leave
<1>7. ASSUME NEW r \in Rows, NEW v \in Values, Resort(r, v) PROVE given' = {}
  BY <1>1, <1>7 DEF Resort
<1> QED
  BY <1>2, <1>3, <1>4, <1>5, <1>6, <1>7 DEF ListingNext

----------------------------------------------------------------------------
(* The theorems about the paged lists *)

LEMMA ListingStart ==
  ASSUME ListingInit
  PROVE  ListingInv
<1> USE DEF ListingInit
<1>1. Cardinality({}) = 0
  BY FS_EmptySet
<1>2. 0 \in 0..Cardinality(Rows)
  <2>1. Cardinality(Rows) \in Nat
    BY RowsCounted
  <2> QED
    BY <2>1
<1>3. req \in ListRequest
  BY DEF ListRequest, SafeOrderByColumn, orderListOrderColumns, defaultColumn
<1>4. Cardinality(given) <= DefaultPageSize /\ 0 \in 0..MaxMoves
  BY <1>1 DEF ListingAssumption
<1>5. ListingTypeOK
  BY <1>2, <1>3, <1>4 DEF ListingTypeOK, ListRequest
<1> QED
  BY <1>5 DEF ListingInv, WalkCovers, WalkInOrder, CountCurrent, PastTheEndEmpty

LEMMA ListingStep == ListingInv /\ [ListingNext]_listingVars => ListingInv'
BY PagedTypeStep, WalkStep, CountStep, PastTheEndStep DEF ListingInv

\* The inductive invariant of the paged lists holds in every reachable state,
\* for every finite set of rows that an int64 can count, whatever pages, limits
\* and orders clients ask for.
THEOREM ListingInvariance == ListingSpec => []ListingInv
<1>1. ListingInit => ListingInv
  BY ListingStart
<1>2. ListingInv /\ [ListingNext]_listingVars => ListingInv'
  BY ListingStep
<1> QED
  BY <1>1, <1>2, PTL DEF ListingSpec

\* Every variable keeps its type, and no page is longer than DefaultPageSize:
\* the limit that paging.New computes is the one the SELECT obeys.
THEOREM ListingTypeCorrect == ListingSpec => []ListingTypeOK
<1>1. ListingInv => ListingTypeOK
  BY DEF ListingInv
<1> QED
  BY <1>1, ListingInvariance, PTL

\* A finished walk over GetOrders or List from the first page on has been given
\* every row that was there when it began and whose sort value no other row
\* shares, although rows were inserted between its statements, unless a row
\* left the filter or changed its place.
THEOREM WalksComplete == ListingSpec => []WalkComplete
<1>1. ListingInv => WalkComplete
  BY DEF ListingInv, WalkCovers, WalkComplete
<1> QED
  BY <1>1, ListingInvariance, PTL

\* When no row is inserted either, such a walk is given no other row, and no
\* such row twice.
THEOREM WalksExact == ListingSpec => []WalkExact
<1>1. ListingInv => WalkExact
  BY DEF ListingInv, WalkInOrder, WalkExact
<1> QED
  BY <1>1, ListingInvariance, PTL

\* A page past the last one is empty, unless the table changed between its COUNT
\* and its SELECT or the offset that paging.New computes does not fit an int64.
THEOREM PagesPastTheEndEmpty == ListingSpec => []PastTheEndEmpty
<1>1. ListingInv => PastTheEndEmpty
  BY DEF ListingInv
<1> QED
  BY <1>1, ListingInvariance, PTL
=============================================================================
