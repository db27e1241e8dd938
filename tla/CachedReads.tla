---------------------------- MODULE CachedReads ----------------------------
(***************************************************************************)
(* The cache of util/queryCache.ts on its own, between readers that call   *)
(* get() and writers that change the database and then call invalidate(),  *)
(* as in the usage example of its header comment. The content of the       *)
(* database is abstracted to how many writes it holds: a value is older    *)
(* than another exactly when it was read after fewer writes.               *)
(***************************************************************************)
EXTENDS Integers

CONSTANTS
  Readers,   \* concurrent callers of get()
  NoFetch, NoValue,
  MaxWrites  \* bound: writes in a behaviour

ASSUME ReadersAssumption == NoFetch \notin Readers
ASSUME ValueAssumption == NoValue \notin Nat
ASSUME MaxWritesAssumption == MaxWrites \in Nat

VARIABLES
  entry, inFlight, fetch,  \* the cache, see QueryCache
  store,                   \* writes the database holds
  floor,                   \* store at the last invalidate()
  waiting,                 \* waiting[r]: the fetch r awaits, or NoFetch
  asked,                   \* floor when r last called get()
  got                      \* what r's last get() returned

cacheVars == <<entry, inFlight, fetch>>
readerVars == <<waiting, asked, got>>
vars == <<entry, inFlight, fetch, store, floor, waiting, asked, got>>

Cache == INSTANCE QueryCache WITH Fetches <- Readers

TypeOK ==
  /\ entry \in Nat \union {NoValue}
  /\ inFlight \in Readers \union {NoFetch}
  /\ fetch \in [Readers -> Cache!FetchState(Nat)]
  /\ store \in 0..MaxWrites
  /\ floor \in 0..MaxWrites
  /\ waiting \in [Readers -> Readers \union {NoFetch}]
  /\ asked \in [Readers -> Nat]
  /\ got \in [Readers -> Nat]

Init ==
  /\ Cache!CacheInit
  /\ store = 0
  /\ floor = 0
  /\ waiting = [r \in Readers |-> NoFetch]
  /\ asked = [r \in Readers |-> 0]
  /\ got = [r \in Readers |-> 0]

----------------------------------------------------------------------------
\* get() when the entry is valid: the promise is already resolved.
GetCached(r) ==
  /\ waiting[r] = NoFetch
  /\ Cache!Hit
  /\ asked' = [asked EXCEPT ![r] = floor]
  /\ got' = [got EXCEPT ![r] = entry]
  /\ UNCHANGED <<cacheVars, store, floor, waiting>>

\* get() while a fetch is in flight.
GetShared(r) ==
  /\ waiting[r] = NoFetch
  /\ Cache!Shares(inFlight)
  /\ asked' = [asked EXCEPT ![r] = floor]
  /\ waiting' = [waiting EXCEPT ![r] = inFlight]
  /\ UNCHANGED <<cacheVars, store, floor, got>>

\* get() that has to query the database.
GetCold(r) ==
  /\ waiting[r] = NoFetch
  /\ Cache!Start(r)
  /\ asked' = [asked EXCEPT ![r] = floor]
  /\ waiting' = [waiting EXCEPT ![r] = r]
  /\ UNCHANGED <<store, floor, got>>

QueryRuns(f) ==
  /\ Cache!QueryRuns(f, store)
  /\ UNCHANGED <<store, floor, readerVars>>

\* The query's answer reaches everyone who awaits it in the same turn.
QueryAnswers(f) ==
  /\ Cache!Resolve(f)
  /\ got' = [r \in Readers |->
               IF waiting[r] = f THEN fetch[f].value ELSE got[r]]
  /\ waiting' = [r \in Readers |->
                   IF waiting[r] = f THEN NoFetch ELSE waiting[r]]
  /\ UNCHANGED <<store, floor, asked>>

\* The query fails: every caller that shares it gets the error.
QueryFails(f) ==
  /\ Cache!Reject(f)
  /\ waiting' = [r \in Readers |->
                   IF waiting[r] = f THEN NoFetch ELSE waiting[r]]
  /\ asked' = [r \in Readers |-> IF waiting[r] = f THEN 0 ELSE asked[r]]
  /\ UNCHANGED <<store, floor, got>>

EntryExpires ==
  /\ Cache!Expire
  /\ UNCHANGED <<store, floor, readerVars>>

\* A writer's update reaches the database; its invalidate() comes later,
\* when the acknowledgement is back.
Write ==
  /\ store < MaxWrites
  /\ store' = store + 1
  /\ UNCHANGED <<cacheVars, floor, readerVars>>

WriterInvalidates ==
  /\ Cache!Invalidate
  /\ floor' = store
  /\ UNCHANGED <<store, readerVars>>

Next ==
  \/ \E r \in Readers : GetCached(r) \/ GetShared(r) \/ GetCold(r)
  \/ \E f \in Readers : QueryRuns(f) \/ QueryAnswers(f) \/ QueryFails(f)
  \/ EntryExpires
  \/ Write
  \/ WriterInvalidates

\* The driver runs every query it was given and answers it or fails it.
Fairness ==
  \A f \in Readers : WF_vars(QueryRuns(f))
                     /\ WF_vars(QueryAnswers(f) \/ QueryFails(f))

Spec == Init /\ [][Next]_vars
FairSpec == Spec /\ Fairness

----------------------------------------------------------------------------
(***************************************************************************)
(* "next read is guaranteed fresh" (queryCache.ts:30): a get() called      *)
(* after an invalidate() returns a value that holds every write made       *)
(* before that invalidate(), whatever fetches were running meanwhile and   *)
(* in whatever order their answers came back.                              *)
(***************************************************************************)
FreshAfterInvalidate ==
  \A r \in Readers : waiting[r] = NoFetch => got[r] >= asked[r]

(***************************************************************************)
(* "Concurrent calls while the cache is cold/expired share one in-flight   *)
(* fetch" (queryCache.ts:14-15): of the running fetches at most one may    *)
(* fill the cache, it is the one a get() would share, and none runs while  *)
(* the entry is valid.                                                     *)
(***************************************************************************)
OneSharedFetch ==
  \A f \in Readers :
    Cache!Running(f) /\ fetch[f].current => inFlight = f /\ ~Cache!Hit

\* Every get() is answered: a shared fetch never leaves a caller behind,
\* not even when invalidate() or a failure replaces it.
GetAnswered == \A r \in Readers : waiting[r] # NoFetch ~> waiting[r] = NoFetch
============================================================================
