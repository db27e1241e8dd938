------------------------- MODULE CachedReadsProofs -------------------------
(***************************************************************************)
(* Proofs about CachedReads for any number of readers and writes.          *)
(***************************************************************************)
EXTENDS CachedReads, TLAPS

(***************************************************************************)
(* What keeps a stale query from being handed out after an invalidate():   *)
(* the entry and every fetch that may still fill it hold at least the      *)
(* `floor` writes, and a fetch someone awaits holds what each of them was  *)
(* promised when they asked.                                               *)
(***************************************************************************)
FetchesFresh ==
  \A f \in Readers :
    fetch[f].status = "read" =>
      /\ fetch[f].current => fetch[f].value >= floor
      /\ \A r \in Readers : waiting[r] = f => fetch[f].value >= asked[r]

SharedFetchUsable ==
  inFlight # NoFetch => Cache!Running(inFlight) /\ fetch[inFlight].current

WaitersServed ==
  \A r \in Readers : waiting[r] # NoFetch => Cache!Running(waiting[r])

Promises ==
  /\ floor <= store
  /\ \A r \in Readers : asked[r] <= floor
  /\ entry # NoValue => entry >= floor

IInv ==
  /\ TypeOK
  /\ FetchesFresh
  /\ SharedFetchUsable
  /\ WaitersServed
  /\ Promises
  /\ FreshAfterInvalidate
  /\ OneSharedFetch

USE DEF Cache!Hit, Cache!Running, Cache!IdleFetch, Cache!FetchState

\* The initial cache is empty and nobody waits.
LEMMA InitIInv == Init => IInv
BY ReadersAssumption, MaxWritesAssumption, ValueAssumption
DEF Init, IInv, TypeOK, FetchesFresh, SharedFetchUsable, WaitersServed,
    Promises, FreshAfterInvalidate, OneSharedFetch, Cache!CacheInit

\* One step per action: each keeps the inductive invariant.
LEMMA NextIInv == IInv /\ [Next]_vars => IInv'
<1> SUFFICES ASSUME IInv, [Next]_vars PROVE IInv'
  OBVIOUS
<1> USE ReadersAssumption, MaxWritesAssumption, ValueAssumption
    DEF IInv, TypeOK, FetchesFresh, SharedFetchUsable, WaitersServed,
        Promises, FreshAfterInvalidate, OneSharedFetch
<1>1. ASSUME NEW r \in Readers, GetCached(r) PROVE IInv'
  BY <1>1 DEF GetCached, cacheVars
<1>2. ASSUME NEW r \in Readers, GetShared(r) PROVE IInv'
  <2> USE <1>2 DEF GetShared, cacheVars, Cache!Shares
  <2>1. inFlight \in Readers /\ Cache!Running(inFlight)
    OBVIOUS
  <2>2. TypeOK'
    BY <2>1
  <2>3. FetchesFresh'
    BY <2>1
  <2>4. WaitersServed'
    BY <2>1
  <2>5. FreshAfterInvalidate' /\ Promises'
    BY <2>1
  <2>6. SharedFetchUsable' /\ OneSharedFetch'
    OBVIOUS
  <2> QED
    BY <2>2, <2>3, <2>4, <2>5, <2>6
<1>3. ASSUME NEW r \in Readers, GetCold(r) PROVE IInv'
  BY <1>3 DEF GetCold, Cache!Start
<1>4. ASSUME NEW f \in Readers, QueryRuns(f) PROVE IInv'
  <2> USE <1>4 DEF QueryRuns, Cache!QueryRuns, readerVars
  <2>1. /\ fetch'[f].status = "read"
        /\ fetch'[f].value = store
        /\ fetch'[f].current = fetch[f].current
        /\ \A g \in Readers \ {f} : fetch'[g] = fetch[g]
    OBVIOUS
  <2>2. TypeOK'
    OBVIOUS
  <2>3. FetchesFresh'
    BY <2>1
  <2>4. SharedFetchUsable' /\ WaitersServed'
    BY <2>1
  <2>5. Promises' /\ FreshAfterInvalidate' /\ OneSharedFetch'
    BY <2>1
  <2> QED
    BY <2>2, <2>3, <2>4, <2>5
<1>5. ASSUME NEW f \in Readers, QueryAnswers(f) PROVE IInv'
  BY <1>5 DEF QueryAnswers, Cache!Resolve
<1>6. ASSUME NEW f \in Readers, QueryFails(f) PROVE IInv'
  BY <1>6 DEF QueryFails, Cache!Reject
<1>7. CASE EntryExpires
  BY <1>7 DEF EntryExpires, Cache!Expire, readerVars
<1>8. CASE Write
  BY <1>8 DEF Write, cacheVars, readerVars
<1>9. CASE WriterInvalidates
  <2> USE <1>9 DEF WriterInvalidates, Cache!Invalidate, Cache!Superseded,
             readerVars
  <2>1. \A f \in Readers : /\ fetch'[f].status = fetch[f].status
                          /\ fetch'[f].value = fetch[f].value
                          /\ fetch'[f].current = FALSE
                          /\ fetch'[f] \in Cache!FetchState(Nat)
    OBVIOUS
  <2>2. TypeOK'
    BY <2>1
  <2>3. FetchesFresh' /\ WaitersServed'
    BY <2>1
  <2>4. SharedFetchUsable' /\ Promises' /\ OneSharedFetch'
    BY <2>1
  <2>5. FreshAfterInvalidate'
    OBVIOUS
  <2> QED
    BY <2>2, <2>3, <2>4, <2>5
<1>10. CASE UNCHANGED vars
  BY <1>10 DEF vars
<1> QED
  BY <1>1, <1>2, <1>3, <1>4, <1>5, <1>6, <1>7, <1>8, <1>9, <1>10 DEF Next

LEMMA IInvAlways == Spec => []IInv
BY InitIInv, NextIInv, PTL DEF Spec

(***************************************************************************)
(* Every state the cache reaches is well typed, however many readers share *)
(* it (queryCache.ts:34-81).                                               *)
(***************************************************************************)
THEOREM TypeCorrect == Spec => []TypeOK
<1>1. IInv => TypeOK
  BY DEF IInv
<1> QED
  BY <1>1, IInvAlways, PTL

(***************************************************************************)
(* The next read after an invalidate() is fresh (queryCache.ts:30), for    *)
(* any number of readers and writes and any order of answers.              *)
(***************************************************************************)
THEOREM NextReadIsFresh == Spec => []FreshAfterInvalidate
<1>1. IInv => FreshAfterInvalidate
  BY DEF IInv
<1> QED
  BY <1>1, IInvAlways, PTL

(***************************************************************************)
(* Cold callers share one fetch (queryCache.ts:14-15).                     *)
(***************************************************************************)
THEOREM ColdReadsShare == Spec => []OneSharedFetch
<1>1. IInv => OneSharedFetch
  BY DEF IInv
<1> QED
  BY <1>1, IInvAlways, PTL
============================================================================
