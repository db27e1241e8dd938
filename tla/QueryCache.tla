---------------------------- MODULE QueryCache ----------------------------
(***************************************************************************)
(* util/queryCache.ts: createCachedFetcher, an in-process cache over one   *)
(* asynchronous query. This module is a component: it has no Init/Next of  *)
(* a whole system; the modules that use the cache instantiate it and       *)
(* conjoin its fragments with what the rest of the process does.           *)
(*                                                                         *)
(* A fetch is named by the reader whose get() started it. That reader      *)
(* awaits the fetch, so it has at most one running. The source compares    *)
(* `startedAt === generation` when the query comes back; here every fetch  *)
(* carries the truth value of that comparison, which invalidate() makes    *)
(* false for all the fetches that are running.                             *)
(*                                                                         *)
(* JavaScript runs promise callbacks to completion before it takes the     *)
(* next I/O event, so the callbacks of one settled query (caching the      *)
(* value, clearing inFlight) are one step, and so are invalidate() and a   *)
(* get() up to its return.                                                 *)
(***************************************************************************)
CONSTANTS
  Fetches,   \* names of the possible fetches, one per reader
  NoFetch,   \* inFlight === null
  NoValue    \* entry === null, or a fetch whose query has not run yet

VARIABLES
  entry,     \* the cached value, or NoValue (null or past expiresAt)
  inFlight,  \* the fetch that a get() would share, or NoFetch
  fetch      \* fetch[f]: its progress, value and validity

IdleFetch == [status |-> "idle", current |-> FALSE, value |-> NoValue]

\* Type of the cache's state when the query returns members of Value.
FetchState(Value) ==
  [status : {"idle", "sent"}, current : BOOLEAN, value : {NoValue}]
    \union [status : {"read"}, current : BOOLEAN, value : Value]

CacheInit ==
  /\ entry = NoValue
  /\ inFlight = NoFetch
  /\ fetch = [f \in Fetches |-> IdleFetch]

\* A fetch whose startedAt no longer equals the generation.
Superseded(f) ==
  [status |-> fetch[f].status, current |-> FALSE, value |-> fetch[f].value]

Running(f) == fetch[f].status # "idle"

\* get() finds an entry that has not expired.
Hit == entry # NoValue

\* get() finds no usable entry but a fetch to share.
Shares(f) == ~Hit /\ inFlight = f /\ f # NoFetch

\* get() finds neither and starts the query.
Start(f) ==
  /\ ~Hit
  /\ inFlight = NoFetch
  /\ fetch' = [fetch EXCEPT ![f] =
                 [status |-> "sent", current |-> TRUE, value |-> NoValue]]
  /\ inFlight' = f
  /\ UNCHANGED entry

\* The database evaluates the query; its answer is on the way back.
QueryRuns(f, v) ==
  /\ fetch[f].status = "sent"
  /\ fetch' = [fetch EXCEPT ![f] =
                 [status |-> "read", current |-> fetch[f].current, value |-> v]]
  /\ UNCHANGED <<entry, inFlight>>

\* Mutant of Resolve: the result is taken before the query has run.
ResolveUnread(f) ==
  /\ Running(f)
  /\ entry' = IF fetch[f].current THEN fetch[f].value ELSE entry
  /\ inFlight' = IF inFlight = f THEN NoFetch ELSE inFlight
  /\ fetch' = [fetch EXCEPT ![f] = IdleFetch]

\* Mutant of Resolve: without the comparison of generations.
ResolveAnyGeneration(f) ==
  /\ fetch[f].status = "read"
  /\ entry' = fetch[f].value
  /\ inFlight' = IF inFlight = f THEN NoFetch ELSE inFlight
  /\ fetch' = [fetch EXCEPT ![f] = IdleFetch]

\* The then() and finally() of a query that answered.
Resolve(f) ==
  /\ fetch[f].status = "read"
  /\ entry' = IF fetch[f].current THEN fetch[f].value ELSE entry
  /\ inFlight' = IF inFlight = f THEN NoFetch ELSE inFlight
  /\ fetch' = [fetch EXCEPT ![f] = IdleFetch]

\* Resolve, followed in the same turn by an awaiting handler's invalidate().
ResolveAndInvalidate(f) ==
  /\ fetch[f].status = "read"
  /\ entry' = NoValue
  /\ inFlight' = NoFetch
  /\ fetch' = [g \in Fetches |->
                 IF g = f THEN IdleFetch ELSE Superseded(g)]

\* Mutant of Reject: finally() clears inFlight without comparing it.
RejectAnyInFlight(f) ==
  /\ Running(f)
  /\ inFlight' = NoFetch
  /\ fetch' = [fetch EXCEPT ![f] = IdleFetch]
  /\ UNCHANGED entry

\* The finally() of a query that failed: nothing is cached.
Reject(f) ==
  /\ Running(f)
  /\ inFlight' = IF inFlight = f THEN NoFetch ELSE inFlight
  /\ fetch' = [fetch EXCEPT ![f] = IdleFetch]
  /\ UNCHANGED entry

\* Mutant of Invalidate: running queries are aborted, their callers forgotten.
InvalidateAborts ==
  /\ entry' = NoValue
  /\ inFlight' = NoFetch
  /\ fetch' = [f \in Fetches |-> IdleFetch]

\* itemsCache.invalidate() after a write.
Invalidate ==
  /\ entry' = NoValue
  /\ inFlight' = NoFetch
  /\ fetch' = [f \in Fetches |-> Superseded(f)]

\* Date.now() reaches entry.expiresAt.
Expire ==
  /\ Hit
  /\ entry' = NoValue
  /\ UNCHANGED <<inFlight, fetch>>

\* The process dies and its memory with it.
CacheLost ==
  /\ entry' = NoValue
  /\ inFlight' = NoFetch
  /\ fetch' = [f \in Fetches |-> IdleFetch]
===========================================================================
