--------------------------- MODULE ItemSyncProofs ---------------------------
(***************************************************************************)
(* Proofs about ItemSync for any admins, clients, items and contents, any  *)
(* number of versions and any interleaving.                                *)
(***************************************************************************)
EXTENDS ItemSync, TLAPS

USE DEF Cache!Hit, Cache!Running, Cache!IdleFetch, Cache!FetchState

----------------------------------------------------------------------------
(* The counter. *)

LEMMA CounterKeeps ==
  ASSUME CounterInv,
         \/ \E a \in Admins : Enqueue(a)
         \/ StartWrite \/ WriteEnds \/ SaveCounter \/ SaveFails \/ Commit
         \/ Die \/ \E v \in 0..MaxVersion : Recover(v)
  PROVE  CounterInv'
<1> USE MaxVersionAssumption
    DEF CounterInv, CounterTypeOK, QueueBudget, NextVersion, Larger, Up
<1>1. ASSUME NEW a \in Admins, Enqueue(a) PROVE CounterInv'
  BY <1>1 DEF Enqueue
<1>2. CASE StartWrite \/ WriteEnds \/ SaveCounter
  BY <1>2 DEF StartWrite, WriteEnds, SaveCounter
<1>3. ASSUME writeQueue # <<>>
      PROVE  /\ Tail(writeQueue) \in Seq(Admins)
             /\ Len(Tail(writeQueue)) = Len(writeQueue) - 1
             /\ Len(writeQueue) \in Nat \ {0}
  BY <1>3
<1>4. CASE SaveFails
  BY <1>3, <1>4 DEF SaveFails
<1>5. CASE Commit
  BY <1>3, <1>5 DEF Commit
<1>6. CASE Die
  BY <1>6 DEF Die
<1>7. ASSUME NEW v \in 0..MaxVersion, Recover(v) PROVE CounterInv'
  <2>1. committedVersion' \in 0..MaxVersion /\ appVersion' \in 0..MaxVersion
    BY <1>7 DEF Recover
  <2> QED
    BY <1>7, <2>1 DEF Recover
<1> QED
  BY <1>1, <1>2, <1>4, <1>5, <1>6, <1>7

----------------------------------------------------------------------------
(* Types, with what bounds the counter. *)

\* Rows change only while a write runs, and a write that changes rows
\* invalidates the cache when it returns.
JobSound ==
  /\ phase # "write" => job = NoJob
  /\ ~job.invalidates => job.todo = {} /\ job.written = {}

TypeInv == TypeOK /\ QueueBudget /\ JobSound

LEMMA InitTypeInv == Init => TypeInv
BY MaxVersionAssumption
DEF Init, CounterInit, Cache!CacheInit, TypeInv, TypeOK, CounterTypeOK,
    QueueBudget, JobSound, NoJob, Job, Row, NoRequest, Request, EmptyList,
    Lists, NoVersion

\* The cache's own variables.
CacheTypeOK ==
  /\ entry \in Lists \union {NoValue}
  /\ inFlight \in Clients \union {NoFetch}
  /\ fetch \in [Clients -> Cache!FetchState(Lists)]

LEMMA SupersededType ==
  ASSUME CacheTypeOK, NEW f \in Clients
  PROVE  Cache!Superseded(f) \in Cache!FetchState(Lists)
<1>1. fetch[f] \in Cache!FetchState(Lists)
  BY DEF CacheTypeOK
<1> QED
  BY <1>1 DEF Cache!Superseded

LEMMA InvalidateTypes ==
  ASSUME CacheTypeOK, Cache!Invalidate PROVE CacheTypeOK'
BY SupersededType DEF CacheTypeOK, Cache!Invalidate

LEMMA SettleTypes ==
  ASSUME CacheTypeOK, NEW f \in Clients,
         Cache!Resolve(f) \/ Cache!ResolveAndInvalidate(f) \/ Cache!Reject(f)
  PROVE  CacheTypeOK'
<1>1. Cache!IdleFetch \in Cache!FetchState(Lists)
  OBVIOUS
<1>2. ASSUME fetch[f].status = "read" PROVE fetch[f].value \in Lists
  BY <1>2 DEF CacheTypeOK
<1>3. CASE Cache!Resolve(f)
  BY <1>1, <1>2, <1>3 DEF CacheTypeOK, Cache!Resolve
<1>4. CASE Cache!ResolveAndInvalidate(f)
  BY <1>1, <1>4, SupersededType DEF CacheTypeOK, Cache!ResolveAndInvalidate
<1>5. CASE Cache!Reject(f)
  BY <1>1, <1>5 DEF CacheTypeOK, Cache!Reject
<1> QED
  BY <1>3, <1>4, <1>5

LEMMA NoJobSound == NoJob \in Job /\ (job' = NoJob => JobSound')
BY DEF NoJob, Job, JobSound

\* Every step keeps the types.
LEMMA NextTypeInv == TypeInv /\ [Next]_vars => TypeInv'
<1> SUFFICES ASSUME TypeInv, [Next]_vars PROVE TypeInv'
  OBVIOUS
<1> USE DEF TypeInv, TypeOK
<1>0. CounterInv
  BY DEF CounterInv
<1>00. CacheTypeOK
  BY DEF CacheTypeOK
<1>1. ASSUME NEW a \in Admins, AdminCalls(a) PROVE TypeInv'
  <2>1. CounterInv'
    BY <1>0, <1>1, CounterKeeps DEF AdminCalls
  <2> QED
    BY <1>1, <2>1 DEF AdminCalls, Enqueue, CounterInv, JobSound, cacheVars,
                      clientVars
<1>2. ASSUME NEW todo \in SUBSET Items, NEW inv \in BOOLEAN,
             NEW value \in Values \union {Absent, Deleted},
             StartJob(todo, value, inv), ~inv => todo = {}
      PROVE  TypeInv'
  <2>1. CounterInv'
    BY <1>0, <1>2, CounterKeeps DEF StartJob
  <2>2. job' \in Job /\ JobSound'
    BY <1>2 DEF StartJob, Job, JobSound, StartWrite
  <2> QED
    BY <1>2, <2>1, <2>2 DEF StartJob, CounterInv, cacheVars, clientVars
<1>3. CASE WriteStarts
  <2>1. CASE CreateItem
    BY <1>2, <2>1 DEF CreateItem
  <2>2. CASE UpdateItem
    BY <1>2, <2>2 DEF UpdateItem
  <2>3. CASE BulkUpdateItems
    BY <1>2, <2>3 DEF BulkUpdateItems
  <2>4. CASE DeleteItem
    BY <1>2, <2>4 DEF DeleteItem
  <2>5. CASE BulkDeleteItems
    <3>1. PICK ids \in SUBSET Items \ {{}} :
            StartJob({i \in ids : Live(i)}, Deleted,
                     {i \in ids : Live(i)} # {})
      BY <2>5 DEF BulkDeleteItems
    <3> QED
      BY <1>2, <3>1
  <2>6. CASE SetSiteSettings
    BY <1>2, <2>6 DEF SetSiteSettings
  <2> QED
    BY <1>3, <2>1, <2>2, <2>3, <2>4, <2>5, <2>6 DEF WriteStarts
<1>4. ASSUME NEW i \in Items, WriteRow(i) PROVE TypeInv'
  <2>1. NextVersion \in 0..MaxVersion
    BY <1>4, MaxVersionAssumption DEF WriteRow, NextVersion, QueueBudget,
                                      CounterTypeOK
  <2>2. rows' \in [Items -> Row]
    BY <1>4, <2>1 DEF WriteRow, Row, Job
  <2>3. job' \in Job /\ JobSound'
    BY <1>4 DEF WriteRow, Job, JobSound, counterVars
  <2> QED
    BY <1>4, <2>2, <2>3 DEF WriteRow, counterVars, cacheVars, clientVars,
                            CounterTypeOK, QueueBudget
<1>5. ASSUME WriteReturns \/ WriteThrows PROVE TypeInv'
  <2>1. CounterInv'
    BY <1>0, <1>5, CounterKeeps DEF WriteReturns, WriteThrows
  <2>2. job' \in Job /\ JobSound'
    BY <1>5, NoJobSound DEF WriteReturns, WriteThrows
  <2>3. CacheTypeOK'
    <3>1. CASE UNCHANGED cacheVars
      BY <3>1 DEF CacheTypeOK, cacheVars
    <3> QED
      BY <1>5, <3>1, <1>00, InvalidateTypes DEF WriteReturns, WriteThrows
  <2> QED
    BY <1>5, <2>1, <2>2, <2>3 DEF WriteReturns, WriteThrows, CounterInv,
                                  CacheTypeOK, clientVars
<1>6. CASE CounterStep
  <2>1. CounterInv'
    BY <1>0, <1>6, CounterKeeps DEF CounterStep
  <2>2. JobSound'
    BY <1>6 DEF CounterStep, SaveCounter, SaveFails, Commit, JobSound
  <2> QED
    BY <1>6, <2>1, <2>2 DEF CounterStep, CounterInv, cacheVars, clientVars
<1>7. ASSUME NEW c \in Clients, ListItems(c) \/ ListItemChanges(c)
      PROVE  TypeInv'
  <2>1. UNCHANGED <<counterVars, rows, job>>
    BY <1>7 DEF ListItems, ListItemChanges
  <2>2. committedVersion \in 0..MaxVersion
    BY DEF CounterTypeOK
  <2>3. CASE ListFromEntry(c)
    <3>1. CacheTypeOK'
      <4>1. CASE UNCHANGED cacheVars
        BY <1>00, <4>1 DEF CacheTypeOK, cacheVars
      <4> QED
        BY <1>00, <2>3, <4>1, InvalidateTypes DEF ListFromEntry
    <3>2. entry \in Lists
      BY <2>3 DEF ListFromEntry
    <3> QED
      BY <2>1, <2>2, <2>3, <3>1, <3>2
      DEF ListFromEntry, CacheTypeOK, counterVars, CounterTypeOK,
          QueueBudget, JobSound
  <2>4. CASE ListFromSharedFetch(c)
    BY <2>1, <2>2, <2>4
    DEF ListFromSharedFetch, AwaitFetch, Request, cacheVars, counterVars,
        CounterTypeOK, QueueBudget, JobSound
  <2>5. CASE ListFromDatabase(c)
    BY <2>1, <2>2, <2>5
    DEF ListFromDatabase, AwaitFetch, Request, Cache!Start, counterVars,
        CounterTypeOK, QueueBudget, JobSound
  <2>6. CASE SendDelta(c)
    BY <2>1, <2>2, <2>6
    DEF SendDelta, Request, cacheVars, counterVars, CounterTypeOK,
        QueueBudget, JobSound
  <2> QED
    BY <1>7, <2>3, <2>4, <2>5, <2>6 DEF ListItems, ListItemChanges, FullList
<1>8. ASSUME NEW c \in Clients, ChangesRead(c) \/ ChangesFail(c)
      PROVE  TypeInv'
  <2>1. UNCHANGED <<counterVars, rows, job, cacheVars>>
    BY <1>8 DEF ChangesRead, ChangesFail
  <2>2. label' \in [Clients -> {NoVersion} \union 0..MaxVersion]
    BY <1>8 DEF ChangesRead, ChangesFail, Request
  <2>3. request' \in [Clients -> Request]
    BY <1>8 DEF ChangesRead, ChangesFail, Request, NoRequest
  <2>4. replica' \in [Clients -> Lists]
    <3> DEFINE merged == [i \in Items |-> IF rows[i].version > label[c]
                                           THEN Content(rows[i])
                                           ELSE replica[c][i]]
    <3>1. merged \in Lists
      BY DEF Lists, Content, Row
    <3>2. replica' = replica \/ replica' = [replica EXCEPT ![c] = merged]
      BY <1>8 DEF ChangesRead, ChangesFail
    <3> HIDE DEF merged
    <3> QED
      BY <3>1, <3>2
  <2> QED
    BY <2>1, <2>2, <2>3, <2>4 DEF counterVars, cacheVars, CounterTypeOK,
                                  QueueBudget, JobSound
<1>9. ASSUME NEW f \in Clients, ListQueryRuns(f) PROVE TypeInv'
  <2>1. CurrentList \in Lists
    BY DEF CurrentList, Lists, Content, Row
  <2>2. fetch' \in [Clients -> Cache!FetchState(Lists)]
    BY <1>9, <2>1 DEF ListQueryRuns, Cache!QueryRuns
  <2> QED
    BY <1>9, <2>2 DEF ListQueryRuns, Cache!QueryRuns, counterVars,
                      clientVars, CounterTypeOK, QueueBudget, JobSound
<1>10. ASSUME NEW f \in Clients, ListQueryAnswers(f) \/ ListQueryFails(f)
       PROVE  TypeInv'
  <2>1. UNCHANGED <<counterVars, rows, job>>
    BY <1>10 DEF ListQueryAnswers, ListQueryFails
  <2>2. request' \in [Clients -> Request]
    BY <1>10 DEF ListQueryAnswers, ListQueryFails, RequestsAfter, Request,
                 NoRequest
  <2>3. label' \in [Clients -> {NoVersion} \union 0..MaxVersion]
    BY <1>10 DEF ListQueryAnswers, ListQueryFails, Awaits, Request
  <2>4. CacheTypeOK'
    BY <1>00, <1>10, SettleTypes DEF ListQueryAnswers, ListQueryFails
  <2>5. replica' \in [Clients -> Lists]
    <3>1. CASE ListQueryFails(f)
      BY <3>1 DEF ListQueryFails
    <3>2. CASE ListQueryAnswers(f)
      <4>1. fetch[f].status = "read"
        BY <3>2 DEF ListQueryAnswers, Cache!Resolve,
                    Cache!ResolveAndInvalidate
      <4>2. fetch[f].value \in Lists
        BY <4>1
      <4> QED
        BY <3>2, <4>2 DEF ListQueryAnswers
    <3> QED
      BY <1>10, <3>1, <3>2
  <2> QED
    BY <2>1, <2>2, <2>3, <2>4, <2>5
    DEF CacheTypeOK, counterVars, CounterTypeOK, QueueBudget, JobSound
<1>11. CASE EntryExpires
  BY <1>11 DEF EntryExpires, Cache!Expire, counterVars, clientVars,
               CounterTypeOK, QueueBudget, JobSound
<1>12. CASE Crash
  <2>1. CounterInv'
    BY <1>0, <1>12, CounterKeeps DEF Crash
  <2> QED
    BY <1>12, <2>1 DEF Crash, Cache!CacheLost, CounterInv, JobSound, Job,
                       NoJob, Request, NoRequest, Die
<1>13. CASE Boot
  <2>1. CounterInv'
    BY <1>0, <1>13, CounterKeeps DEF Boot
  <2> QED
    BY <1>13, <2>1 DEF Boot, CounterInv, JobSound, Recover, cacheVars,
                       clientVars
<1>14. CASE UNCHANGED vars
  BY <1>14 DEF vars, CounterTypeOK, QueueBudget, JobSound
<1> QED
  BY <1>1, <1>3, <1>4, <1>5, <1>6, <1>7, <1>8, <1>9, <1>10, <1>11, <1>12,
     <1>13, <1>14
  DEF Next, WriteStep, ClientStep

LEMMA TypeInvAlways == Spec => []TypeInv
BY InitTypeInv, NextTypeInv, PTL DEF Spec

(***************************************************************************)
(* Types, for every value of the constants and whatever fails.             *)
(***************************************************************************)
THEOREM TypeCorrect == Spec => []TypeOK
<1>1. TypeInv => TypeOK
  BY DEF TypeInv
<1> QED
  BY <1>1, TypeInvAlways, PTL

----------------------------------------------------------------------------
(* How versions, stamps and labels are ordered. *)

\* No row is stamped beyond the version being written, and the rows the
\* running write has changed carry exactly that version.
StampBound ==
  Up => /\ \A i \in Items : rows[i].version <= NextVersion
        /\ \A i \in job.written : rows[i].version = NextVersion

\* What the counter in memory has reached, the database has saved.
CounterSaved ==
  /\ Up => committedVersion <= appVersion
  /\ phase = "commit" => NextVersion <= appVersion

\* No client holds a version that was not committed and saved.
LabelBound ==
  \A c \in Clients :
    /\ label[c] <= appVersion
    /\ Up => label[c] <= committedVersion

\* A request under way was labelled between the client's version and now.
RequestBound ==
  \A c \in Clients :
    request[c].kind # "none" =>
      Up /\ label[c] <= request[c].version
         /\ request[c].version <= committedVersion

\* A boot restores at most the version that was being written.
RecoveryBound ==
  /\ Up => appVersion <= NextVersion
  /\ \A i \in Items : rows[i].version <= appVersion + 1

OrderInv ==
  StampBound /\ CounterSaved /\ LabelBound /\ RequestBound /\ RecoveryBound

LEMMA InitOrderInv == Init => OrderInv
BY DEF Init, CounterInit, OrderInv, StampBound, CounterSaved, LabelBound,
       RequestBound, RecoveryBound, NextVersion, NoJob, NoRequest, NoVersion, Up

\* What WriteRow does to the rows and to the job.
LEMMA WriteRowEffect ==
  ASSUME TypeInv, NEW i \in Items, WriteRow(i)
  PROVE  /\ rows'[i].version = committedVersion + 1
         /\ \A j \in Items \ {i} : rows'[j] = rows[j]
         /\ job'.written = job.written \union {i}
         /\ phase = "write"
         /\ UNCHANGED <<counterVars, cacheVars, clientVars>>
BY DEF WriteRow, TypeInv, TypeOK, Job, NextVersion

LEMMA NextOrderInv == TypeInv /\ OrderInv /\ [Next]_vars => OrderInv'
<1> SUFFICES ASSUME TypeInv, OrderInv, [Next]_vars PROVE OrderInv'
  OBVIOUS
<1> USE DEF OrderInv, StampBound, CounterSaved, LabelBound, RequestBound,
            RecoveryBound, NextVersion, Up
<1>0. /\ committedVersion \in Nat
      /\ appVersion \in Nat
      /\ rows \in [Items -> Row]
      /\ \A i \in Items : rows[i].version \in Nat
      /\ job.written \in SUBSET Items
      /\ job.todo \in SUBSET Items
      /\ label \in [Clients -> Int]
      /\ request \in [Clients -> Request]
      /\ \A c \in Clients : request[c].version \in Int
  BY MaxVersionAssumption DEF TypeInv, TypeOK, CounterTypeOK, Row, Job, Request,
     NoVersion
<1>1. ASSUME NEW a \in Admins, AdminCalls(a) PROVE OrderInv'
  BY <1>1 DEF AdminCalls, Enqueue, clientVars
<1>2. CASE WriteStarts
  <2>1. /\ StartWrite
        /\ job'.written = {}
        /\ UNCHANGED <<rows, clientVars>>
    BY <1>2 DEF WriteStarts, StartJob, CreateItem, UpdateItem,
                BulkUpdateItems, DeleteItem, BulkDeleteItems,
                SetSiteSettings
  <2> QED
    BY <2>1 DEF StartWrite, clientVars
<1>3. ASSUME NEW i \in Items, WriteRow(i) PROVE OrderInv'
  <2>1. /\ rows'[i].version = committedVersion + 1
        /\ \A j \in Items \ {i} : rows'[j] = rows[j]
        /\ job'.written = job.written \union {i}
        /\ phase = "write"
        /\ UNCHANGED <<counterVars, clientVars>>
    BY <1>3, WriteRowEffect
  <2> QED
    BY <1>0, <2>1 DEF counterVars, clientVars
<1>4. ASSUME WriteReturns \/ WriteThrows PROVE OrderInv'
  BY <1>4 DEF WriteReturns, WriteThrows, WriteEnds, NoJob, clientVars
<1>5. CASE CounterStep
  <2>1. job.written = {} /\ UNCHANGED <<rows, job, clientVars>>
    BY <1>5 DEF CounterStep, SaveCounter, SaveFails, Commit, TypeInv,
                JobSound, NoJob
  <2>2. CASE SaveCounter
    BY <1>0, <2>1, <2>2 DEF SaveCounter, Larger, clientVars
  <2>3. CASE SaveFails
    BY <1>0, <2>1, <2>3 DEF SaveFails, Larger, clientVars
  <2>4. CASE Commit
    BY <1>0, <2>1, <2>4 DEF Commit, clientVars
  <2> QED
    BY <1>5, <2>2, <2>3, <2>4 DEF CounterStep
<1>6. ASSUME NEW c \in Clients, ListItems(c) \/ ListItemChanges(c)
      PROVE  OrderInv'
  <2>1. Up /\ request[c].kind = "none" /\ UNCHANGED <<counterVars, rows, job>>
    BY <1>6 DEF ListItems, ListItemChanges, Ready, NoRequest
  <2>2. CASE ListFromEntry(c)
    BY <1>0, <2>1, <2>2 DEF ListFromEntry, counterVars
  <2>3. ASSUME NEW k, NEW f, UNCHANGED <<label, replica>>,
               request' = [request EXCEPT ![c] =
                 [kind |-> k, version |-> committedVersion, fetch |-> f]]
        PROVE  OrderInv'
    BY <1>0, <2>1, <2>3 DEF counterVars
  <2>4. CASE ListFromSharedFetch(c)
    BY <2>3, <2>4 DEF ListFromSharedFetch, AwaitFetch
  <2>5. CASE ListFromDatabase(c)
    BY <2>3, <2>5 DEF ListFromDatabase, AwaitFetch
  <2>6. CASE SendDelta(c)
    BY <2>3, <2>6 DEF SendDelta
  <2> QED
    BY <1>6, <2>2, <2>4, <2>5, <2>6 DEF ListItems, ListItemChanges, FullList
<1>7. ASSUME NEW c \in Clients, ChangesRead(c) \/ ChangesFail(c)
      PROVE  OrderInv'
  BY <1>0, <1>7 DEF ChangesRead, ChangesFail, NoRequest, counterVars
<1>8. ASSUME NEW f \in Clients, ListQueryRuns(f) PROVE OrderInv'
  BY <1>8 DEF ListQueryRuns, counterVars, clientVars
<1>9. ASSUME NEW f \in Clients, ListQueryAnswers(f) \/ ListQueryFails(f)
      PROVE  OrderInv'
  BY <1>0, <1>9 DEF ListQueryAnswers, ListQueryFails, RequestsAfter, Awaits,
                    NoRequest, counterVars
<1>10. CASE EntryExpires
  BY <1>10 DEF EntryExpires, counterVars, clientVars
<1>11. CASE Crash
  BY <1>11 DEF Crash, Die, NoRequest
<1>12. CASE Boot
  <2>1. PICK v \in 0..MaxVersion : IsNewestVersion(v) /\ Recover(v)
    BY <1>12 DEF Boot
  <2>2. /\ committedVersion' >= v
        /\ committedVersion' >= appVersion
        /\ appVersion' = committedVersion'
        /\ committedVersion' \in Nat
        /\ phase = "down" /\ phase' = "idle"
    BY <1>0, <2>1, MaxVersionAssumption DEF Recover, Larger
  <2>3. job.written = {} /\ UNCHANGED <<rows, job, clientVars>>
    BY <1>12, <2>2 DEF Boot, TypeInv, JobSound, NoJob
  <2> QED
    BY <1>0, <2>1, <2>2, <2>3 DEF IsNewestVersion, clientVars
<1>13. CASE UNCHANGED vars
  BY <1>13 DEF vars
<1> QED
  BY <1>1, <1>2, <1>3, <1>4, <1>5, <1>6, <1>7, <1>8, <1>9, <1>10, <1>11,
     <1>12, <1>13
  DEF Next, WriteStep, ClientStep

LEMMA OrderInvAlways == Spec => [](TypeInv /\ OrderInv)
BY InitTypeInv, NextTypeInv, InitOrderInv, NextOrderInv, PTL DEF Spec

(***************************************************************************)
(* A client's version never goes back: every reply carries the version     *)
(* read when the request came in, and a restart recovers a counter that    *)
(* is at least as large as any version handed out.                         *)
(***************************************************************************)
THEOREM LabelsAreMonotone == Spec => LabelNeverRegresses
<1> DEFINE Forward == \A c \in Clients : label'[c] >= label[c]
<1>1. TypeInv /\ OrderInv /\ [Next]_vars => [Forward]_vars
  <2> SUFFICES ASSUME TypeInv, OrderInv, Next PROVE Forward
    OBVIOUS
  <2> USE DEF OrderInv, LabelBound, RequestBound
  <2>0. /\ label \in [Clients -> Int]
        /\ committedVersion \in Int
        /\ \A c \in Clients : request[c].version \in Int
    BY MaxVersionAssumption DEF TypeInv, TypeOK, CounterTypeOK, Request,
       NoVersion
  <2>1. CASE UNCHANGED label
    BY <2>0, <2>1
  <2>2. ASSUME NEW c \in Clients, ClientStep(c) PROVE Forward
    <3>1. CASE ListFromEntry(c) /\ Ready(c)
      BY <2>0, <3>1 DEF ListFromEntry, Ready
    <3>2. CASE ChangesRead(c)
      BY <2>0, <3>2 DEF ChangesRead
    <3>3. CASE ListQueryAnswers(c)
      BY <2>0, <3>3 DEF ListQueryAnswers, Awaits
    <3> QED
      BY <2>1, <2>2, <3>1, <3>2, <3>3
      DEF ClientStep, ListItems, ListItemChanges, FullList,
          ListFromSharedFetch, ListFromDatabase, SendDelta, ChangesFail,
          ListQueryRuns, ListQueryFails, clientVars
  <2>3. CASE WriteStep
    BY <2>1, <2>3
    DEF WriteStep, WriteStarts, StartJob, CreateItem, UpdateItem,
        BulkUpdateItems, DeleteItem, BulkDeleteItems, SetSiteSettings,
        WriteRow, WriteReturns, WriteThrows, CounterStep, clientVars
  <2> QED
    BY <2>1, <2>2, <2>3
    DEF Next, AdminCalls, EntryExpires, Crash, Boot, clientVars
<1> QED
  BY <1>1, OrderInvAlways, PTL DEF LabelNeverRegresses, Spec

(***************************************************************************)
(* As long as counter saves succeed, an idle queue leaves no change in the *)
(* database without an announced version, whatever writes threw and        *)
(* wherever the process died.                                              *)
(***************************************************************************)
THEOREM ChangesAreAnnounced ==
  ASSUME "saveFails" \notin Faults
  PROVE  Spec => []IdleAnnounced
<1> USE DEF IdleAnnounced
<1>1. Init => IdleAnnounced
  BY DEF Init, CounterInit
<1>2. /\ TypeInv /\ OrderInv /\ IdleAnnounced
      /\ [Next]_vars
      => IdleAnnounced'
  <2> SUFFICES ASSUME TypeInv, OrderInv, IdleAnnounced, [Next]_vars,
                      phase' = "idle"
               PROVE  \A i \in Items : rows'[i].version <= committedVersion'
    OBVIOUS
  <2>0. /\ committedVersion \in Nat
        /\ appVersion \in Nat
        /\ \A i \in Items : rows[i].version \in Nat
    BY MaxVersionAssumption DEF TypeInv, TypeOK, CounterTypeOK, Row
  <2>1. CASE Commit /\ CounterStep
    BY <2>0, <2>1 DEF Commit, CounterStep, OrderInv, StampBound, NextVersion, Up
  <2>2. CASE Boot
    <3>1. PICK v \in 0..MaxVersion : IsNewestVersion(v) /\ Recover(v)
      BY <2>2 DEF Boot
    <3>2. committedVersion' >= v /\ committedVersion' \in Nat
      BY <2>0, <3>1, MaxVersionAssumption DEF Recover, Larger
    <3> QED
      BY <2>0, <2>2, <3>1, <3>2 DEF IsNewestVersion, Boot
  <2>3. ASSUME UNCHANGED <<phase, rows, committedVersion>>
        PROVE  \A i \in Items : rows'[i].version <= committedVersion'
    BY <2>3
  <2>4. ASSUME NEW c \in Clients, ClientStep(c)
        PROVE  UNCHANGED <<phase, rows, committedVersion>>
    BY <2>4 DEF ClientStep, ListItems, ListItemChanges, ChangesRead,
       ChangesFail, ListQueryRuns, ListQueryAnswers, ListQueryFails,
       counterVars
  <2>5. CASE WriteStep
    BY <2>1, <2>5
    DEF WriteStep, WriteStarts, StartJob, StartWrite, CreateItem, UpdateItem,
        BulkUpdateItems, DeleteItem, BulkDeleteItems, SetSiteSettings,
        WriteRow, WriteReturns, WriteThrows, WriteEnds, CounterStep,
        SaveCounter, SaveFails, counterVars
  <2> QED
    BY <2>2, <2>3, <2>4, <2>5
    DEF Next, AdminCalls, Enqueue, EntryExpires, Crash, Die, vars,
        counterVars
<1> QED
  BY <1>1, <1>2, OrderInvAlways, PTL DEF Spec

(***************************************************************************)
(* An empty list never stays in the cache, neither when it is read nor     *)
(* when it is found there (items.controller.ts:72-76), under every fault.  *)
(***************************************************************************)
THEOREM EmptyListsAreDropped == Spec => []EmptyNotRetained
<1>1. NoValue # EmptyList
  BY NoValueAssumption DEF Lists, EmptyList
<1> USE DEF EmptyNotRetained
<1>2. Init => EmptyNotRetained
  BY <1>1 DEF Init, Cache!CacheInit
<1>3. EmptyNotRetained /\ [Next]_vars => EmptyNotRetained'
  <2> SUFFICES ASSUME EmptyNotRetained, [Next]_vars PROVE EmptyNotRetained'
    OBVIOUS
  <2>1. CASE UNCHANGED entry
    BY <2>1
  <2>2. CASE entry' = NoValue
    BY <1>1, <2>2
  <2>3. ASSUME NEW c \in Clients, ListQueryAnswers(c) PROVE EmptyNotRetained'
    BY <1>1, <2>3
    DEF ListQueryAnswers, Cache!ResolveAndInvalidate, Cache!Resolve
  <2>4. ASSUME NEW c \in Clients, ClientStep(c) PROVE EmptyNotRetained'
    BY <2>1, <2>2, <2>3, <2>4
    DEF ClientStep, ListItems, ListItemChanges, FullList, ListFromEntry,
        ListFromSharedFetch, ListFromDatabase, SendDelta, ChangesRead,
        ChangesFail, ListQueryRuns, ListQueryFails, Cache!Invalidate,
        Cache!Start, Cache!QueryRuns, Cache!Reject, cacheVars
  <2>5. CASE WriteStep
    BY <2>1, <2>2, <2>5
    DEF WriteStep, WriteStarts, StartJob, CreateItem, UpdateItem,
        BulkUpdateItems, DeleteItem, BulkDeleteItems, SetSiteSettings,
        WriteRow, WriteReturns, WriteThrows, CounterStep, Cache!Invalidate,
        cacheVars
  <2> QED
    BY <2>1, <2>2, <2>4, <2>5
    DEF Next, AdminCalls, EntryExpires, Cache!Expire, Crash,
        Cache!CacheLost, Boot, vars, cacheVars
<1> QED
  BY <1>2, <1>3, PTL DEF Spec

----------------------------------------------------------------------------
(* What the cache and the fetches hold, and so what clients are given. *)

\* Only a fetch whose result may be cached can be joined.
SharedFetchUsable ==
  inFlight # NoFetch => Cache!Running(inFlight) /\ fetch[inFlight].current

\* An awaited fetch is running, and once its query has run it agrees with
\* the database on the rows its caller will be told it is current on.
AwaitedFetchCurrent ==
  \A c \in Clients :
    request[c].kind = "list" =>
      LET f == request[c].fetch
      IN  /\ f \in Clients
          /\ Cache!Running(f)
          /\ fetch[f].status = "read" =>
               \A i \in Items :
                 rows[i].version <= request[c].version
                   => fetch[f].value[i] = Content(rows[i])

ListInv ==
  CacheCurrent /\ SharedFetchUsable /\ AwaitedFetchCurrent /\ ClientCurrent

LEMMA InitListInv == Init => ListInv
BY MaxVersionAssumption
DEF Init, ListInv, CacheCurrent, SharedFetchUsable, AwaitedFetchCurrent,
    ClientCurrent, Cache!CacheInit, NoRequest, NoVersion

\* Rows keep their content unless WriteRow changes them.
LEMMA ContentStays ==
  ASSUME UNCHANGED rows
  PROVE  \A i \in Items : Content(rows[i])' = Content(rows[i])
BY DEF Content

\* A step that only drops entries, or caches the result of a fetch that may
\* be cached, hands out nothing older.
LEMMA CacheStays ==
  ASSUME CacheCurrent, rows' = rows, job'.written = job.written,
         \A f \in Clients :
           fetch'[f].current /\ fetch'[f].status = "read"
             => /\ fetch[f].current /\ fetch[f].status = "read"
                /\ fetch'[f].value = fetch[f].value,
         \/ entry' \in {entry, NoValue}
         \/ \E f \in Clients : /\ fetch[f].current /\ fetch[f].status = "read"
                               /\ entry' = fetch[f].value
  PROVE  CacheCurrent'
BY DEF CacheCurrent, Content

\* A step that leaves a caller waiting leaves the fetch it waits for alone.
LEMMA AwaitedStays ==
  ASSUME AwaitedFetchCurrent, rows' = rows,
         \A c \in Clients :
           request'[c].kind = "list" => request'[c] = request[c],
         \A c \in Clients, f \in Clients :
           request'[c].kind = "list" /\ request[c].fetch = f =>
             /\ fetch'[f].status = fetch[f].status
             /\ fetch'[f].value = fetch[f].value
  PROVE  AwaitedFetchCurrent'
BY DEF AwaitedFetchCurrent, Content

\* A step that gives no client anything new.
LEMMA ClientsStay ==
  ASSUME ClientCurrent, rows' = rows, label' = label, replica' = replica
  PROVE  ClientCurrent'
BY DEF ClientCurrent, Content

\* A step after which no older fetch can be joined.
LEMMA SharedStays ==
  ASSUME SharedFetchUsable,
         \/ inFlight' = NoFetch
         \/ /\ inFlight' = inFlight
            /\ inFlight # NoFetch => fetch'[inFlight] = fetch[inFlight]
  PROVE  SharedFetchUsable'
BY DEF SharedFetchUsable

LEMMA NextListInv ==
  ASSUME "tornWrite" \notin Faults
  PROVE  TypeInv /\ OrderInv /\ ListInv /\ [Next]_vars => ListInv'
<1> SUFFICES ASSUME TypeInv, OrderInv, ListInv, [Next]_vars PROVE ListInv'
  OBVIOUS
<1> USE ClientsAssumption DEF ListInv
<1>0. /\ committedVersion \in Nat
      /\ rows \in [Items -> Row]
      /\ \A i \in Items : rows[i].version \in Nat
      /\ job.written \in SUBSET Items
      /\ label \in [Clients -> Int]
      /\ replica \in [Clients -> Lists]
      /\ request \in [Clients -> Request]
      /\ \A c \in Clients : request[c].version \in Int
      /\ inFlight \in Clients \union {NoFetch}
      /\ fetch \in [Clients -> Cache!FetchState(Lists)]
  BY MaxVersionAssumption DEF TypeInv, TypeOK, CounterTypeOK, Row, Job,
     Request, NoVersion
<1>1. ASSUME UNCHANGED <<rows, cacheVars, clientVars>>, job'.written = job.written
      PROVE  ListInv'
  BY <1>1 DEF CacheCurrent, SharedFetchUsable, AwaitedFetchCurrent,
              ClientCurrent, Content, cacheVars, clientVars
<1>2. ASSUME NEW a \in Admins, AdminCalls(a) PROVE ListInv'
  BY <1>1, <1>2 DEF AdminCalls
<1>3. CASE WriteStarts
  <2>1. phase = "write" \/ job.written = {}
    BY DEF TypeInv, JobSound, NoJob
  <2>2. /\ phase = "idle"
        /\ job'.written = {}
        /\ UNCHANGED <<rows, cacheVars, clientVars>>
    BY <1>3 DEF WriteStarts, StartJob, StartWrite, CreateItem, UpdateItem,
                BulkUpdateItems, DeleteItem, BulkDeleteItems,
                SetSiteSettings
  <2> QED
    BY <1>1, <2>1, <2>2
<1>4. ASSUME NEW i \in Items, WriteRow(i) PROVE ListInv'
  <2>1. /\ rows'[i].version = committedVersion + 1
        /\ \A j \in Items \ {i} : rows'[j] = rows[j]
        /\ job'.written = job.written \union {i}
        /\ UNCHANGED <<cacheVars, clientVars>>
    BY <1>4, WriteRowEffect
  <2>2. /\ \A c \in Clients : label[c] <= committedVersion
        /\ \A c \in Clients : request[c].kind = "list"
              => request[c].version <= committedVersion
    BY <1>4 DEF OrderInv, LabelBound, RequestBound, WriteRow, Up
  <2>3. CacheCurrent'
    BY <2>1 DEF CacheCurrent, Content, cacheVars
  <2>4. AwaitedFetchCurrent'
    BY <1>0, <2>1, <2>2 DEF AwaitedFetchCurrent, Content, cacheVars, clientVars
  <2>5. ClientCurrent'
    BY <1>0, <2>1, <2>2 DEF ClientCurrent, Content, cacheVars, clientVars
  <2>6. SharedFetchUsable'
    BY <2>1, SharedStays DEF cacheVars
  <2> QED
    BY <2>3, <2>4, <2>5, <2>6
<1>5. CASE WriteThrows
  BY <1>1, <1>5 DEF WriteThrows, NoJob
<1>6. CASE WriteReturns
  <2>1. CASE UNCHANGED cacheVars /\ ~job.invalidates
    <3>1. job.written = {} /\ job'.written = {}
      BY <1>6, <2>1 DEF TypeInv, JobSound, WriteReturns, NoJob
    <3> QED
      BY <1>1, <1>6, <2>1, <3>1 DEF WriteReturns
  <2>2. CASE Cache!Invalidate
    <3>1. /\ entry' = NoValue
          /\ inFlight' = NoFetch
          /\ \A f \in Clients : /\ fetch'[f].status = fetch[f].status
                                 /\ fetch'[f].value = fetch[f].value
                                 /\ fetch'[f].current = FALSE
          /\ UNCHANGED <<rows, clientVars>>
      BY <1>6, <2>2 DEF Cache!Invalidate, Cache!Superseded, WriteReturns
    <3>2. CacheCurrent'
      BY <3>1 DEF CacheCurrent
    <3>3. AwaitedFetchCurrent'
      BY <3>1, AwaitedStays DEF clientVars
    <3> QED
      BY <3>1, <3>2, <3>3, SharedStays, ClientsStay DEF clientVars
  <2> QED
    BY <1>6, <2>1, <2>2 DEF WriteReturns
<1>7. CASE CounterStep
  BY <1>1, <1>7 DEF CounterStep
<1>8. ASSUME NEW c \in Clients, ListItems(c) \/ ListItemChanges(c)
      PROVE  ListInv'
  <2>1. /\ Up
        /\ request[c].kind = "none"
        /\ UNCHANGED <<rows, job, committedVersion>>
    BY <1>8 DEF ListItems, ListItemChanges, Ready, NoRequest, counterVars
  <2>2. \A i \in Items : rows[i].version <= committedVersion
                          => i \notin job.written
    BY <1>0, <2>1 DEF OrderInv, StampBound, NextVersion
  <2>3. CASE ListFromEntry(c)
    <3>1. ClientCurrent'
      BY <1>0, <2>1, <2>2, <2>3
      DEF ListFromEntry, ClientCurrent, CacheCurrent, Content
    <3>2. /\ entry' = NoValue \/ entry' = entry
          /\ inFlight' = NoFetch \/ UNCHANGED <<inFlight, fetch>>
          /\ \A f \in Clients : /\ fetch'[f].status = fetch[f].status
                                 /\ fetch'[f].value = fetch[f].value
                                 /\ fetch'[f].current \in
                                      {FALSE, fetch[f].current}
          /\ UNCHANGED request
      <4>1. CASE Cache!Invalidate
        BY <2>3, <4>1 DEF ListFromEntry, Cache!Invalidate, Cache!Superseded
      <4>2. CASE UNCHANGED cacheVars
        BY <2>3, <4>2 DEF ListFromEntry, cacheVars
      <4> QED
        BY <2>3, <4>1, <4>2 DEF ListFromEntry
    <3>3. CacheCurrent'
      BY <2>1, <3>2, CacheStays
    <3>4. AwaitedFetchCurrent'
      BY <2>1, <3>2, AwaitedStays
    <3>5. SharedFetchUsable'
      BY <3>2, SharedStays
    <3> QED
      BY <3>1, <3>3, <3>4, <3>5
  <2>4. CASE ListFromSharedFetch(c)
    <3>1. /\ inFlight \in Clients
          /\ Cache!Running(inFlight)
          /\ fetch[inFlight].current
          /\ request' = [request EXCEPT ![c] =
                [kind |-> "list", version |-> committedVersion,
                 fetch |-> inFlight]]
          /\ UNCHANGED <<cacheVars, label, replica>>
      BY <1>0, <2>4 DEF ListFromSharedFetch, AwaitFetch, Cache!Shares,
                        SharedFetchUsable
    <3>2. AwaitedFetchCurrent'
      BY <1>0, <2>1, <2>2, <3>1 DEF AwaitedFetchCurrent, CacheCurrent,
                                    Content, cacheVars
    <3>3. CacheCurrent'
      BY <2>1, <3>1, CacheStays DEF cacheVars
    <3> QED
      BY <2>1, <3>1, <3>2, <3>3, SharedStays, ClientsStay DEF cacheVars
  <2>5. CASE ListFromDatabase(c)
    <3>1. /\ fetch' = [fetch EXCEPT ![c] =
                [status |-> "sent", current |-> TRUE, value |-> NoValue]]
          /\ inFlight' = c
          /\ request' = [request EXCEPT ![c] =
                [kind |-> "list", version |-> committedVersion,
                 fetch |-> c]]
          /\ UNCHANGED <<entry, label, replica>>
      BY <2>5 DEF ListFromDatabase, AwaitFetch, Cache!Start
    <3>2. AwaitedFetchCurrent'
      BY <1>0, <2>1, <3>1 DEF AwaitedFetchCurrent, Content
    <3>3. CacheCurrent'
      BY <1>0, <2>1, <3>1, CacheStays
    <3>4. SharedFetchUsable'
      BY <1>0, <3>1 DEF SharedFetchUsable
    <3> QED
      BY <2>1, <3>1, <3>2, <3>3, <3>4, ClientsStay
  <2>6. CASE SendDelta(c)
    <3>1. \A d \in Clients : request'[d].kind = "list"
                               => request'[d] = request[d]
      BY <1>0, <2>6 DEF SendDelta
    <3>2. UNCHANGED <<cacheVars, label, replica>>
      BY <2>6 DEF SendDelta
    <3> QED
      BY <2>1, <3>1, <3>2, CacheStays, AwaitedStays, SharedStays, ClientsStay
      DEF cacheVars
  <2> QED
    BY <1>8, <2>3, <2>4, <2>5, <2>6 DEF ListItems, ListItemChanges, FullList
<1>9. ASSUME NEW c \in Clients, ChangesRead(c) PROVE ListInv'
  <2>1. /\ UNCHANGED <<rows, job, cacheVars>>
        /\ request' = [request EXCEPT ![c] = NoRequest]
    BY <1>9 DEF ChangesRead
  <2>2. \A i \in Items : replica'[c][i] = IF rows[i].version > label[c]
                                          THEN Content(rows[i])
                                          ELSE replica[c][i]
    BY <1>0, <1>9 DEF ChangesRead
  <2>3. \A d \in Clients \ {c} : label'[d] = label[d] /\ replica'[d] = replica[d]
    BY <1>0, <1>9 DEF ChangesRead
  <2>4. label'[c] \in Int /\ label[c] \in Int
    BY <1>0, <1>9 DEF ChangesRead
  <2>5. ClientCurrent'
    BY <1>0, <2>1, <2>2, <2>3, <2>4 DEF ClientCurrent, Content
  <2>6. AwaitedFetchCurrent'
    BY <1>0, <2>1, AwaitedStays DEF NoRequest, cacheVars
  <2> QED
    BY <2>1, <2>5, <2>6, CacheStays, SharedStays DEF cacheVars
<1>10. ASSUME NEW c \in Clients, ChangesFail(c) PROVE ListInv'
  <2>1. AwaitedFetchCurrent'
    BY <1>0, <1>10, AwaitedStays DEF ChangesFail, NoRequest, cacheVars
  <2> QED
    BY <1>10, <2>1, CacheStays, SharedStays, ClientsStay
    DEF ChangesFail, cacheVars
<1>11. ASSUME NEW f \in Clients, ListQueryRuns(f) PROVE ListInv'
  <2>1. /\ fetch[f].status = "sent"
        /\ fetch' = [fetch EXCEPT ![f] =
              [status |-> "read", current |-> fetch[f].current,
               value |-> CurrentList]]
        /\ UNCHANGED <<rows, job, entry, inFlight, clientVars>>
    BY <1>11 DEF ListQueryRuns, Cache!QueryRuns
  <2>2. \A i \in Items : CurrentList[i] = Content(rows[i])
    BY DEF CurrentList
  <2> HIDE DEF CurrentList
  <2>3. CacheCurrent'
    BY <1>0, <2>1, <2>2 DEF CacheCurrent, Content
  <2>4. AwaitedFetchCurrent'
    BY <1>0, <2>1, <2>2 DEF AwaitedFetchCurrent, Content, clientVars
  <2>5. SharedFetchUsable'
    BY <1>0, <2>1 DEF SharedFetchUsable
  <2> QED
    BY <2>1, <2>3, <2>4, <2>5, ClientsStay DEF clientVars
<1>12. ASSUME NEW f \in Clients, ListQueryAnswers(f) \/ ListQueryFails(f)
       PROVE  ListInv'
  <2>1. /\ UNCHANGED <<rows, job>>
        /\ fetch'[f].status = "idle"
        /\ fetch'[f].current = FALSE
        /\ \A g \in Clients \ {f} : /\ fetch'[g].status = fetch[g].status
                                     /\ fetch'[g].value = fetch[g].value
                                     /\ fetch'[g].current \in
                                          {FALSE, fetch[g].current}
        /\ inFlight' = NoFetch
             \/ (inFlight' = inFlight /\ inFlight # f
                  /\ \A g \in Clients \ {f} : fetch'[g] = fetch[g])
        /\ \/ entry' \in {entry, NoValue}
           \/ /\ entry' = fetch[f].value
              /\ fetch[f].current /\ fetch[f].status = "read"
    <3>1. UNCHANGED <<rows, job>>
      BY <1>12 DEF ListQueryAnswers, ListQueryFails
    <3>2. CASE Cache!Resolve(f)
      BY <1>0, <3>1, <3>2 DEF Cache!Resolve
    <3>3. CASE Cache!ResolveAndInvalidate(f)
      BY <1>0, <3>1, <3>3 DEF Cache!ResolveAndInvalidate, Cache!Superseded
    <3>4. CASE Cache!Reject(f)
      BY <1>0, <3>1, <3>4 DEF Cache!Reject
    <3> QED
      BY <1>12, <3>2, <3>3, <3>4 DEF ListQueryAnswers, ListQueryFails
  <2>2. CacheCurrent'
    BY <2>1, CacheStays
  <2>3. SharedFetchUsable'
    BY <1>0, <2>1, SharedStays
  <2>4. request' = RequestsAfter(f)
    BY <1>12 DEF ListQueryAnswers, ListQueryFails
  <2>5. AwaitedFetchCurrent'
    <3>1. ASSUME NEW c \in Clients, request'[c].kind = "list"
          PROVE  request'[c] = request[c] /\ request[c].fetch \in Clients \ {f}
      BY <1>0, <2>4, <3>1 DEF RequestsAfter, Awaits, NoRequest,
                              AwaitedFetchCurrent
    <3> QED
      BY <2>1, <3>1, AwaitedStays
  <2>6. ClientCurrent'
    <3>1. CASE ListQueryAnswers(f)
      <4>1. fetch[f].status = "read"
        BY <3>1 DEF ListQueryAnswers, Cache!Resolve,
                    Cache!ResolveAndInvalidate
      <4> QED
        BY <1>0, <2>1, <3>1, <4>1
        DEF ListQueryAnswers, Awaits, AwaitedFetchCurrent, ClientCurrent,
            Content
    <3>2. CASE ListQueryFails(f)
      BY <2>1, <3>2, ClientsStay DEF ListQueryFails
    <3> QED
      BY <1>12, <3>1, <3>2
  <2> QED
    BY <2>2, <2>3, <2>5, <2>6
<1>13. CASE EntryExpires
  BY <1>13, CacheStays, AwaitedStays, SharedStays, ClientsStay
  DEF EntryExpires, Cache!Expire, clientVars
<1>14. CASE Crash
  <2>1. CacheCurrent' /\ AwaitedFetchCurrent'
    BY <1>14 DEF Crash, Cache!CacheLost, NoRequest, CacheCurrent,
                 AwaitedFetchCurrent
  <2> QED
    BY <1>14, <2>1, SharedStays, ClientsStay DEF Crash, Cache!CacheLost
<1>15. CASE Boot
  BY <1>1, <1>15 DEF Boot
<1>16. CASE UNCHANGED vars
  BY <1>1, <1>16 DEF vars, cacheVars, clientVars
<1> QED
  BY <1>2, <1>3, <1>4, <1>5, <1>6, <1>7, <1>8, <1>9, <1>10, <1>11, <1>12,
     <1>13, <1>14, <1>15, <1>16
  DEF Next, WriteStep, ClientStep

(***************************************************************************)
(* The promise of the version number (items.controller.ts:56-57,           *)
(* version.service.ts:9-13): while no write throws half way, a client      *)
(* labelled v has every row last written at v or before, for any number of *)
(* clients and items, with restarts, failing reads, failing counter saves  *)
(* and answers in any order.                                               *)
(***************************************************************************)
THEOREM ClientsAreCurrent ==
  ASSUME "tornWrite" \notin Faults
  PROVE  Spec => []ClientCurrent
<1>1. TypeInv /\ OrderInv /\ ListInv /\ [Next]_vars => ListInv'
  BY NextListInv
<1>2. ListInv => ClientCurrent
  BY DEF ListInv
<1> QED
  BY <1>1, <1>2, OrderInvAlways, InitListInv, PTL DEF Spec

(***************************************************************************)
(* Under the same assumption the cached list is never behind the database  *)
(* on a row that no running write is changing.                             *)
(***************************************************************************)
THEOREM CacheIsCurrent ==
  ASSUME "tornWrite" \notin Faults
  PROVE  Spec => []CacheCurrent
<1>1. TypeInv /\ OrderInv /\ ListInv /\ [Next]_vars => ListInv'
  BY NextListInv
<1>2. ListInv => CacheCurrent
  BY DEF ListInv
<1> QED
  BY <1>1, <1>2, OrderInvAlways, InitListInv, PTL DEF Spec

----------------------------------------------------------------------------
(* The feed. *)

LEMMA InitFeed == Init => Feed!Init
<1> SUFFICES ASSUME Init PROVE Feed!Init
  OBVIOUS
<1>1. Announced = 0
  BY DEF Init, CounterInit, Announced, Up
<1>2. Published \in [Items -> [version : {0},
                              content : Values \union {Absent}]]
  BY ItemsAssumption DEF Init, Published, Content
<1>3. replica \in [Clients -> Feed!Copies]
  BY DEF Init, EmptyList, Feed!Copies
<1> QED
  BY <1>1, <1>2, <1>3 DEF Init, Feed!Init, Feed!NoVersion, NoVersion

\* The feed's types; no client is ahead of what was announced.
FeedSound ==
  /\ Announced \in Nat
  /\ label \in [Clients -> Int]
  /\ \A c \in Clients : NoVersion <= label[c] /\ label[c] <= Announced
  /\ replica \in [Clients -> Feed!Copies]

LEMMA FeedIsSound == TypeInv /\ OrderInv => FeedSound
<1> SUFFICES ASSUME TypeInv, OrderInv PROVE FeedSound
  OBVIOUS
<1>1. /\ committedVersion \in Nat
      /\ appVersion \in Nat
      /\ label \in [Clients -> Int]
      /\ \A c \in Clients : NoVersion <= label[c]
      /\ replica \in [Clients -> Feed!Copies]
  BY MaxVersionAssumption
  DEF TypeInv, TypeOK, CounterTypeOK, NoVersion, Lists, Feed!Copies
<1> QED
  BY <1>1 DEF FeedSound, Announced, OrderInv, LabelBound

\* Whatever is done while nothing is changed or announced is an answer.
LEMMA QuietStepsAnswer ==
  ASSUME FeedSound, FeedSound', ClientCurrent',
         UNCHANGED <<rows, Announced>>,
         \A c \in Clients : label'[c] >= label[c]
  PROVE  Feed!Answer
<1>1. Published' = Published
  BY DEF Published
<1>2. \A c \in Clients : /\ label'[c] \in NoVersion..Announced
                         /\ label'[c] \in label[c]..Announced
  BY DEF FeedSound, NoVersion
<1>3. ASSUME NEW c \in Clients PROVE Feed!Agrees(replica'[c], label'[c])
  BY DEF ClientCurrent, Feed!Agrees, Published
<1>4. label' \in [Clients -> NoVersion..Announced]
  BY <1>2 DEF FeedSound
<1>5. replica' \in [Clients -> Feed!Copies]
  BY DEF FeedSound
<1> QED
  BY <1>1, <1>2, <1>3, <1>4, <1>5
  DEF Feed!Answer, Feed!Told, Feed!NoVersion, NoVersion

\* A row changes under the next version.
LEMMA WriteRowChanges ==
  ASSUME TypeInv, NEW i \in Items, WriteRow(i)
  PROVE  Feed!Change(i)
<1>1. /\ rows' = [rows EXCEPT ![i] = [version |-> committedVersion + 1,
                                      value |-> job.value]]
      /\ rows \in [Items -> Row]
      /\ job.value \in Values \union {Absent, Deleted}
      /\ phase = "write"
      /\ UNCHANGED <<committedVersion, appVersion, phase, label, replica>>
  BY DEF WriteRow, NextVersion, counterVars, clientVars, TypeInv, TypeOK, Job
<1>2. Announced = committedVersion /\ Announced' = committedVersion
  BY <1>1 DEF Announced, Up
<1> DEFINE content == Content([version |-> committedVersion + 1,
                               value |-> job.value])
<1>3. content \in Values \union {Absent}
  BY <1>1 DEF Content
<1>4. Published' = [Published EXCEPT ![i] = [version |-> Announced + 1,
                                             content |-> content]]
  BY <1>1, <1>2 DEF Published
<1> HIDE DEF content
<1> QED
  BY <1>1, <1>2, <1>3, <1>4 DEF Feed!Change

\* A commit announces the version of the write, and so does a crash if this
\* version is in the database.
LEMMA CommitAndCrashAnnounce ==
  ASSUME TypeInv, OrderInv, (Commit /\ CounterStep) \/ Crash
  PROVE  Feed!Announce \/ UNCHANGED Feed!vars
<1>1. /\ committedVersion \in Nat
      /\ appVersion \in Nat
      /\ \A i \in Items : rows[i].version \in Nat
  BY MaxVersionAssumption DEF TypeInv, TypeOK, CounterTypeOK, Row
<1>2. UNCHANGED <<rows, label, replica>> /\ Published' = Published
  BY DEF CounterStep, Crash, clientVars, Published
<1>3. Announced = committedVersion
  BY DEF Announced, Up, Commit, Crash, Die
<1>4. CASE Commit
  BY <1>1, <1>2, <1>3, <1>4 DEF Commit, NextVersion, Announced, Up,
                                Feed!Announce
<1>5. CASE Crash
  <2>1. Announced' = Announced \/ Announced' = Announced + 1
    BY <1>1, <1>2, <1>3, <1>5
    DEF Crash, Die, Up, Announced, NextVersion, OrderInv, StampBound,
        CounterSaved, RecoveryBound
  <2> QED
    BY <1>2, <2>1 DEF Feed!Announce, Feed!vars
<1> QED
  BY <1>4, <1>5

\* A boot restores what it was said to restore.
LEMMA BootRestores ==
  ASSUME TypeInv, OrderInv, Boot
  PROVE  UNCHANGED <<rows, label, replica, Announced>>
<1>1. PICK v \in 0..MaxVersion : IsNewestVersion(v) /\ Recover(v)
  BY DEF Boot
<1>2. /\ appVersion \in Nat /\ v \in Nat
      /\ \A i \in Items : rows[i].version \in Nat
                       /\ rows[i].version <= appVersion + 1
  BY MaxVersionAssumption DEF TypeInv, TypeOK, CounterTypeOK, Row, OrderInv,
     RecoveryBound
<1>3. Announced' = Larger(appVersion, v)
  BY <1>1 DEF Recover, Announced, Up
<1>4. CASE \E i \in Items : rows[i].version > appVersion
  <2>1. v = appVersion + 1
    BY <1>1, <1>2, <1>4 DEF IsNewestVersion
  <2> QED
    BY <1>1, <1>2, <1>3, <1>4, <2>1
    DEF Larger, Recover, Announced, Up, Boot, clientVars
<1>5. CASE ~\E i \in Items : rows[i].version > appVersion
  <2>1. v <= appVersion
    BY <1>1, <1>2, <1>5 DEF IsNewestVersion
  <2> QED
    BY <1>1, <1>2, <1>3, <1>5, <2>1
    DEF Larger, Recover, Announced, Up, Boot, clientVars
<1> QED
  BY <1>4, <1>5

\* All other steps neither change a row nor announce anything.
LEMMA OtherStepsAreQuiet ==
  ASSUME Next
  PROVE  \/ \E i \in Items : WriteRow(i)
         \/ Commit /\ CounterStep
         \/ Crash
         \/ Boot
         \/ UNCHANGED <<rows, Announced>>
<1>1. ASSUME UNCHANGED <<counterVars, rows>> PROVE UNCHANGED <<rows, Announced>>
  BY <1>1 DEF counterVars, Announced, Up
<1>2. ASSUME UNCHANGED <<committedVersion, rows>>, Up, Up'
      PROVE  UNCHANGED <<rows, Announced>>
  BY <1>2 DEF Announced
<1>3. ASSUME NEW a \in Admins, AdminCalls(a)
      PROVE  UNCHANGED <<rows, Announced>>
  BY <1>2, <1>3 DEF AdminCalls, Enqueue, Up
<1>4. ASSUME NEW c \in Clients, ClientStep(c)
      PROVE  UNCHANGED <<rows, Announced>>
  BY <1>1, <1>4 DEF ClientStep, ListItems, ListItemChanges, ChangesRead,
     ChangesFail, ListQueryRuns, ListQueryAnswers, ListQueryFails
<1>5. CASE WriteStarts \/ WriteReturns \/ WriteThrows
  BY <1>2, <1>5 DEF WriteStarts, StartJob, StartWrite, CreateItem, UpdateItem,
     BulkUpdateItems, DeleteItem, BulkDeleteItems, SetSiteSettings,
     WriteReturns, WriteThrows, WriteEnds, Up
<1>6. CASE CounterStep /\ ~Commit
  BY <1>2, <1>6 DEF CounterStep, SaveCounter, SaveFails, Up
<1>7. CASE EntryExpires
  BY <1>1, <1>7 DEF EntryExpires
<1> QED
  BY <1>3, <1>4, <1>5, <1>6, <1>7 DEF Next, WriteStep

(***************************************************************************)
(* ItemSync implements the feed: as long as no write throws half way,      *)
(* whatever its steps do is a step of ReplicaFeed or none at all           *)
(* (version.service.ts:9-13, items.controller.ts:56-57), with restarts,    *)
(* failing reads and failing counter saves.                                *)
(***************************************************************************)
THEOREM FeedIsImplemented ==
  ASSUME "tornWrite" \notin Faults
  PROVE  Spec => ImplementsFeed
<1> DEFINE Sound == TypeInv /\ OrderInv /\ FeedSound /\ ClientCurrent
           Forward == \A c \in Clients : label'[c] >= label[c]
<1>1. Sound /\ Sound' /\ [Next]_vars /\ [Forward]_vars => [Feed!Next]_(Feed!vars)
  <2> SUFFICES ASSUME Sound, Sound', [Next]_vars, [Forward]_vars
               PROVE  Feed!Next \/ UNCHANGED Feed!vars
    OBVIOUS
  <2>1. ASSUME NEW i \in Items, WriteRow(i) PROVE Feed!Next
    BY <2>1, WriteRowChanges DEF Feed!Next
  <2>2. CASE (Commit /\ CounterStep) \/ Crash
    BY <2>2, CommitAndCrashAnnounce DEF Feed!Next
  <2>3. ASSUME UNCHANGED <<rows, Announced>>, Forward PROVE Feed!Next
    BY <2>3, QuietStepsAnswer DEF Feed!Next
  <2>4. CASE UNCHANGED vars
    BY <2>4 DEF vars, Feed!vars, Announced, Published, Up
  <2>5. CASE Boot
    BY <2>5, BootRestores DEF Feed!vars, Published
  <2> QED
    BY <2>1, <2>2, <2>3, <2>4, <2>5, OtherStepsAreQuiet
<1>2. Spec => [][Forward]_vars
  BY LabelsAreMonotone DEF LabelNeverRegresses
<1>3. Spec => []Sound
  BY OrderInvAlways, FeedIsSound, ClientsAreCurrent, PTL
<1> QED
  BY <1>1, <1>2, <1>3, InitFeed, PTL DEF Spec, ImplementsFeed, Feed!Spec

\* The feed's types, and what follows from its steps.
FeedInv ==
  /\ Announced \in Nat
  /\ Published \in [Items -> [version : Nat,
                              content : Values \union {Absent}]]
  /\ label \in [Clients -> Int]
  /\ Feed!Followed

(***************************************************************************)
(* The steps of the feed are all it takes: whoever takes no others keeps   *)
(* every client's copy right up to its version, since a change goes under  *)
(* a version that no client has reached (version.service.ts:9-13).         *)
(***************************************************************************)
THEOREM FeedIsFollowed == Feed!Spec => [](Feed!Followed /\ ClientCurrent)
<1> USE DEF FeedInv, Feed!Followed, Feed!Agrees
<1>1. Feed!Init => FeedInv
  BY DEF Feed!Init, Feed!NoVersion
<1>2. FeedInv /\ [Feed!Next]_(Feed!vars) => FeedInv'
  <2> SUFFICES ASSUME FeedInv, [Feed!Next]_(Feed!vars) PROVE FeedInv'
    OBVIOUS
  <2>1. ASSUME NEW i \in Items, Feed!Change(i) PROVE FeedInv'
    <3>1. PICK content \in Values \union {Absent} :
            Published' = [Published EXCEPT ![i] =
                            [version |-> Announced + 1, content |-> content]]
      BY <2>1 DEF Feed!Change
    <3>2. UNCHANGED <<Announced, label, replica>>
      BY <2>1 DEF Feed!Change
    <3>3. Published' \in [Items -> [version : Nat,
                                    content : Values \union {Absent}]]
      BY <3>1
    <3>4. /\ Published'[i].version = Announced + 1
          /\ \A j \in Items \ {i} : Published'[j] = Published[j]
      BY <3>1
    <3> QED
      BY <3>2, <3>3, <3>4
  <2>2. CASE Feed!Announce
    BY <2>2 DEF Feed!Announce
  <2>3. CASE Feed!Answer
    <3>1. label' \in [Clients -> Int]
      BY <2>3 DEF Feed!Answer, Feed!NoVersion
    <3>2. UNCHANGED <<Announced, Published>>
      BY <2>3 DEF Feed!Answer
    <3>3. ASSUME NEW c \in Clients
          PROVE  label'[c] <= Announced /\ Feed!Agrees(replica'[c], label'[c])
      BY <2>3 DEF Feed!Answer, Feed!Told, Feed!Skipped
    <3> QED
      BY <3>1, <3>2, <3>3
  <2>4. CASE UNCHANGED Feed!vars
    BY <2>4 DEF Feed!vars
  <2> QED
    BY <2>1, <2>2, <2>3, <2>4 DEF Feed!Next
<1>3. FeedInv => Feed!Followed /\ ClientCurrent
  BY DEF Published, ClientCurrent
<1> QED
  BY <1>1, <1>2, <1>3, PTL DEF Feed!Spec
============================================================================
