---------------------------- MODULE ProductCache ----------------------------
(***************************************************************************)
(* The product handlers and their Redis cache: cache-aside reads of one    *)
(* product (exact key) and of a product list (key with a version number),  *)
(* and administrators whose writes delete the one and bump the other.      *)
(*                                                                         *)
(* The catalogue is abstracted to the number of writes committed so far:   *)
(* what a read sees is that number.  Each handler runs once.  A Redis call *)
(* may fail, with or without having taken effect, and then the handler     *)
(* goes on; a handler may die between any two steps.                       *)
(*                                                                         *)
(* Names that every module has (Init, Spec, pc) differ here, so that one   *)
(* module can extend this one and Cart, or this one and Listing.           *)
(***************************************************************************)
EXTENDS Integers, FiniteSets

CONSTANTS
  DetailReaders,  \* GET /products/{id}
  ListReaders,    \* GET /products
  Creators,       \* POST /products
  Updaters,       \* PUT /products/{id}
  Missing         \* no entry, no answer

Readers == DetailReaders \cup ListReaders
Writers == Creators \cup Updaters
Handlers == Readers \cup Writers

ASSUME ProductAssumption ==
  /\ IsFiniteSet(Writers)
  /\ Readers \cap Writers = {}
  /\ DetailReaders \cap ListReaders = {}
  /\ Creators \cap Updaters = {}
  /\ Missing \notin Int

\* A version is bumped at most once per writer.
Versions == 0 .. Cardinality(Writers)
Catalogues == 0 .. Cardinality(Writers)

VARIABLES
  writes,   \* the committed catalogue
  detail,   \* Redis: the product's entry, or Missing
  version,  \* Redis: cache:products:version (0 if missing)
  lists,    \* Redis: the list entry of each version, or Missing
  stage,    \* how far each handler has come
  copy,     \* what a handler has read or written
  keyed,    \* the version in a list reader's key
  told,     \* what a reader was told
  bumped    \* history: the latest write invalidated when version v began

redis == <<detail, version, lists>>
cacheVars == <<writes, redis, stage, copy, keyed, told, bumped>>

Proceed(h, step) == stage' = [stage EXCEPT ![h] = step]

\* A Redis write of `new' over `old' that reports an error or not.
Maybe(new, old) == {new, old}

Respond(r, catalogue) == told' = [told EXCEPT ![r] = catalogue]

----------------------------------------------------------------------------
(* GetProductByID *)

GetDetail(r) ==
  /\ stage[r] = "get"
  /\ r \in DetailReaders
  /\ \/ detail # Missing /\ Respond(r, detail) /\ Proceed(r, "done")
     \/ UNCHANGED told /\ Proceed(r, "load")
  /\ UNCHANGED <<writes, redis, copy, keyed, bumped>>

(* ListProducts *)

\* productListCacheVersion: an error is read as version 0.
ReadVersion(r) ==
  /\ stage[r] = "version"
  /\ \E v \in {version, 0} : keyed' = [keyed EXCEPT ![r] = v]
  /\ Proceed(r, "get")
  /\ UNCHANGED <<writes, redis, copy, told, bumped>>

GetList(r) ==
  /\ stage[r] = "get"
  /\ r \in ListReaders
  /\ \/ lists[keyed[r]] # Missing /\ Respond(r, lists[keyed[r]]) /\ Proceed(r, "done")
     \/ UNCHANGED told /\ Proceed(r, "load")
  /\ UNCHANGED <<writes, redis, copy, keyed, bumped>>

\* A miss: read the database, answer, then fill the cache.
Load(r) ==
  /\ stage[r] = "load"
  /\ copy' = [copy EXCEPT ![r] = writes]
  /\ Respond(r, writes)
  /\ Proceed(r, "store")
  /\ UNCHANGED <<writes, redis, keyed, bumped>>

\* The list is stored under the version read before the database was.
StoreUnderCurrent(r) ==
  /\ stage[r] = "store"
  /\ lists' = [lists EXCEPT ![version] = copy[r]]
  /\ Proceed(r, "done")
  /\ UNCHANGED <<writes, detail, version, copy, keyed, told, bumped>>

Store(r) ==
  /\ stage[r] = "store"
  /\ \/ /\ r \in DetailReaders
        /\ detail' \in Maybe(copy[r], detail)
        /\ UNCHANGED lists
     \/ /\ r \in ListReaders
        /\ lists' \in Maybe([lists EXCEPT ![keyed[r]] = copy[r]], lists)
        /\ UNCHANGED detail
  /\ Proceed(r, "done")
  /\ UNCHANGED <<writes, version, copy, keyed, told, bumped>>

----------------------------------------------------------------------------
(* CreateProduct and UpdateProduct *)

\* The service validates and saves; an error returns at once.
Save(w) ==
  /\ stage[w] = "save"
  /\ \/ /\ writes' = writes + 1
        /\ copy' = [copy EXCEPT ![w] = writes + 1]
        /\ Proceed(w, IF w \in Updaters THEN "remove" ELSE "bump")
     \/ /\ Proceed(w, "done")
        /\ UNCHANGED <<writes, copy>>
  /\ UNCHANGED <<redis, keyed, told, bumped>>

\* invalidateProduct: delete the detail key ...
Remove(w) ==
  /\ stage[w] = "remove"
  /\ detail' \in Maybe(Missing, detail)
  /\ Proceed(w, "bump")
  /\ UNCHANGED <<writes, version, lists, copy, keyed, told, bumped>>

\* ... invalidateProductLists: increment the version.
invalidateProductLists(w) ==
  /\ stage[w] = "bump"
  /\ \/ /\ version' = version + 1
        /\ bumped' = [bumped EXCEPT ![version + 1] =
                        IF copy[w] > bumped[version] THEN copy[w] ELSE bumped[version]]
     \/ UNCHANGED <<version, bumped>>
  /\ Proceed(w, "done")
  /\ UNCHANGED <<writes, detail, lists, copy, keyed, told>>

----------------------------------------------------------------------------
\* The handler dies, or returns on a database error; a save may have taken
\* effect then.
Crash(h) ==
  /\ stage[h] # "done"
  /\ Proceed(h, "done")
  /\ UNCHANGED <<writes, redis, copy, keyed, told, bumped>>

\* ProductCachingTime is over.
NeverExpire == FALSE

ExpireDetail ==
  /\ detail # Missing
  /\ detail' = Missing
  /\ UNCHANGED <<writes, version, lists, stage, copy, keyed, told, bumped>>

ExpireList(v) ==
  /\ lists[v] # Missing
  /\ lists' = [lists EXCEPT ![v] = Missing]
  /\ UNCHANGED <<writes, detail, version, stage, copy, keyed, told, bumped>>

CacheInit ==
  /\ writes = 0
  /\ detail = Missing
  /\ version = 0
  /\ lists = [v \in Versions |-> Missing]
  /\ stage = [h \in Handlers |-> IF h \in DetailReaders THEN "get"
                                 ELSE IF h \in ListReaders THEN "version" ELSE "save"]
  /\ copy = [h \in Handlers |-> Missing]
  /\ keyed = [r \in ListReaders |-> 0]
  /\ told = [r \in Readers |-> Missing]
  /\ bumped = [v \in Versions |-> 0]

Serve(h) ==
  \/ GetDetail(h) \/ ReadVersion(h) \/ GetList(h) \/ Load(h) \/ Store(h)
  \/ Save(h) \/ Remove(h) \/ invalidateProductLists(h)

CacheNext ==
  \/ \E h \in Handlers : Serve(h) \/ Crash(h)
  \/ ExpireDetail
  \/ \E v \in Versions : ExpireList(v)

\* Requests that have begun are served or die, and TTLs run out.
CacheFairness ==
  /\ \A h \in Handlers : WF_cacheVars(Serve(h))
  /\ WF_cacheVars(ExpireDetail)
  /\ \A v \in Versions : WF_cacheVars(ExpireList(v))

CacheSpec == CacheInit /\ [][CacheNext]_cacheVars
CacheFairSpec == CacheSpec /\ CacheFairness

----------------------------------------------------------------------------
(* Properties *)

\* A client never gets a list, cached or not, that misses a write whose
\* invalidation was part of the version its request read, however slow the
\* reader that stored the entry.
ListAnswerFresh ==
  \A r \in ListReaders : told[r] # Missing => told[r] >= bumped[keyed[r]]

\* Why lists are fresh.  The types, by kind of handler; a version is left for
\* every writer that has not bumped it yet.
waiting == {w \in Writers : stage[w] # "done"}

CacheTypeOK ==
  /\ writes \in Nat
  /\ detail \in Nat \cup {Missing}
  /\ version \in Nat
  /\ version + Cardinality(waiting) <= Cardinality(Writers)
  /\ lists \in [Versions -> Nat \cup {Missing}]
  /\ stage \in [Handlers -> {"version", "get", "load", "store", "save", "remove", "bump", "done"}]
  /\ \A r \in DetailReaders : stage[r] \in {"get", "load", "store", "done"}
  /\ \A r \in ListReaders : stage[r] \in {"version", "get", "load", "store", "done"}
  /\ \A w \in Writers : stage[w] \in {"save", "remove", "bump", "done"}
  /\ copy \in [Handlers -> Nat \cup {Missing}]
  /\ keyed \in [ListReaders -> Nat]
  /\ \A r \in ListReaders : keyed[r] <= version
  /\ told \in [Readers -> Nat \cup {Missing}]
  /\ bumped \in [Versions -> Nat]

\* The catalogue has seen every write that a version or a writer knows of.
WritesCounted ==
  /\ \A v \in Versions : bumped[v] <= writes
  /\ \A w \in Writers : stage[w] \in {"remove", "bump"} => copy[w] # Missing /\ copy[w] <= writes

\* A list is stored, or about to be, under a version that had begun when the
\* database was read.
StoredFresh ==
  /\ \A v \in Versions : lists[v] # Missing => v <= version /\ lists[v] >= bumped[v]
  /\ \A r \in ListReaders :
       /\ stage[r] = "version" => told[r] = Missing
       /\ stage[r] = "store" => copy[r] # Missing /\ copy[r] >= bumped[keyed[r]]

\* The inductive invariant.
CacheInv == CacheTypeOK /\ WritesCounted /\ StoredFresh /\ ListAnswerFresh

\* Staleness ends: after the last write every entry is eventually current or
\* gone for good, although a slow reader may put an old product back after its
\* key was deleted and an invalidation may fail.
EventuallyFresh ==
  <>[]/\ detail \in {Missing, writes}
      /\ \A v \in Versions : lists[v] \in {Missing, writes}
=============================================================================
