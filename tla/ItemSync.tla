------------------------------ MODULE ItemSync ------------------------------
(***************************************************************************)
(* Item synchronisation: controllers/items.controller.ts over the version  *)
(* counter (VersionCounter) and the cached list (QueryCache). Admins       *)
(* change rows through the write queue; clients fetch the whole list or    *)
(* what changed since the version they hold. A client is modelled by what  *)
(* the responses tell it to do: replace its copy by a full list, merge a   *)
(* delta, and remember the version the response is labelled with.          *)
(***************************************************************************)
EXTENDS VersionCounter

CONSTANTS
  Items, Clients,
  Values,            \* contents of an item
  Absent, Deleted,   \* no such row; deletedAt is set
  NoFetch, NoValue

ASSUME ItemsAssumption == Values \intersect {Absent, Deleted} = {}
                          /\ Absent # Deleted
ASSUME ClientsAssumption == NoFetch \notin Clients

NoVersion == -1   \* a client that holds no copy

VARIABLES
  rows,      \* rows[i]: the version stamp and content of item i
  job,       \* the running write: rows to do, rows done, what it stores
  entry, inFlight, fetch,   \* the cached list, see QueryCache
  request,   \* request[c]: the request c has under way
  label,     \* label[c]: the version c holds
  replica    \* replica[c]: the list c holds

cacheVars == <<entry, inFlight, fetch>>
clientVars == <<request, label, replica>>
vars == <<committedVersion, appVersion, writeQueue, phase, rows, job,
          entry, inFlight, fetch, request, label, replica>>

Cache == INSTANCE QueryCache WITH Fetches <- Clients

Lists == [Items -> Values \union {Absent}]
EmptyList == [i \in Items |-> Absent]

ASSUME NoValueAssumption == NoValue \notin Lists

\* Mutant of Content: soft-deleted rows are not filtered out.
ContentUnfiltered(row) == row.value

\* What a reader sees of a row: soft-deleted rows are filtered out.
Content(row) == IF row.value = Deleted THEN Absent ELSE row.value

\* The result of Item.find({ deletedAt: null }).
CurrentList == [i \in Items |-> Content(rows[i])]

Live(i) == rows[i].value \in Values

NoJob == [todo |-> {}, written |-> {}, value |-> Absent, invalidates |-> FALSE]
NoRequest == [kind |-> "none", version |-> NoVersion, fetch |-> NoFetch]

Row == [version : 0..MaxVersion, value : Values \union {Absent, Deleted}]
Job == [todo : SUBSET Items, written : SUBSET Items,
        value : Values \union {Absent, Deleted}, invalidates : BOOLEAN]
Request == [kind : {"none", "list", "delta"},
            version : {NoVersion} \union 0..MaxVersion,
            fetch : Clients \union {NoFetch}]

TypeOK ==
  /\ CounterTypeOK
  /\ rows \in [Items -> Row]
  /\ job \in Job
  /\ entry \in Lists \union {NoValue}
  /\ inFlight \in Clients \union {NoFetch}
  /\ fetch \in [Clients -> Cache!FetchState(Lists)]
  /\ request \in [Clients -> Request]
  /\ label \in [Clients -> {NoVersion} \union 0..MaxVersion]
  /\ replica \in [Clients -> Lists]

\* Rows from before versioning existed start at version 0.
Init ==
  /\ CounterInit
  /\ rows \in [Items -> [version : {0}, value : Values \union {Absent}]]
  /\ job = NoJob
  /\ Cache!CacheInit
  /\ request = [c \in Clients |-> NoRequest]
  /\ label = [c \in Clients |-> NoVersion]
  /\ replica = [c \in Clients |-> EmptyList]

----------------------------------------------------------------------------
(* Admin requests. *)

\* Any write handler, up to its call of withVersionBump.
AdminCalls(a) ==
  /\ Enqueue(a)
  /\ UNCHANGED <<rows, job, cacheVars, clientVars>>

\* The write callback starts: it will change `todo`, each row to `value`.
\* What it reads first cannot change under it, since only the running
\* callback changes rows.
StartJob(todo, value, invalidates) ==
  /\ StartWrite
  /\ job' = [todo |-> todo, written |-> {}, value |-> value,
             invalidates |-> invalidates]
  /\ UNCHANGED <<rows, cacheVars, clientVars>>

CreateItem ==
  \E i \in Items, v \in Values :
    /\ rows[i].value = Absent
    /\ StartJob({i}, v, TRUE)

\* updateItem of a row that was live when the handler looked; it may be
\* deleted by now, and the cache is invalidated all the same.
UpdateItem ==
  \E i \in Items, v \in Values :
    /\ rows[i].value # Absent
    /\ StartJob({j \in {i} : Live(j)}, v, TRUE)

BulkUpdateItems ==
  \E ids \in SUBSET Items \ {{}}, v \in Values :
    StartJob({i \in ids : Live(i)}, v, TRUE)

\* deleteItem does not look first, so the row may not exist.
DeleteItem ==
  \E i \in Items : StartJob({j \in {i} : Live(j)}, Deleted, TRUE)

\* With no live row the callback returns before it invalidates.
BulkDeleteItems ==
  \E ids \in SUBSET Items \ {{}} :
    LET live == {i \in ids : Live(i)}
    IN  StartJob(live, Deleted, live # {})

\* setMaintenance and setNotice: a version of their own, no rows.
SetSiteSettings == StartJob({}, Absent, FALSE)

\* The database changes one row of the batch.
WriteRow(i) ==
  /\ phase = "write"
  /\ i \in job.todo
  /\ rows' = [rows EXCEPT ![i] = [version |-> NextVersion,
                                  value |-> job.value]]
  /\ job' = [job EXCEPT !.todo = @ \ {i}, !.written = @ \union {i}]
  /\ UNCHANGED <<counterVars, cacheVars, clientVars>>

\* Mutant of WriteReturns: the cached list outlives the write.
WriteReturnsCached ==
  /\ job.todo = {}
  /\ WriteEnds
  /\ job' = NoJob
  /\ UNCHANGED <<rows, cacheVars, clientVars>>

\* The write is acknowledged: invalidate, and on to the finally block.
\* (bulkDeleteItems still reads back what it changed; whether that answers
\* or throws, it changes nothing.)
WriteReturns ==
  /\ job.todo = {}
  /\ WriteEnds
  /\ job' = NoJob
  /\ IF job.invalidates THEN Cache!Invalidate ELSE UNCHANGED cacheVars
  /\ UNCHANGED <<rows, clientVars>>

\* The callback throws before its invalidate(): a rule conflict, a
\* validation or database error. Some rows may have changed already.
WriteThrows ==
  /\ job.written # {} => "tornWrite" \in Faults
  /\ WriteEnds
  /\ job' = NoJob
  /\ UNCHANGED <<rows, cacheVars, clientVars>>

CounterStep ==
  /\ SaveCounter \/ SaveFails \/ Commit
  /\ UNCHANGED <<rows, job, cacheVars, clientVars>>

Crash ==
  /\ Die
  /\ job' = NoJob
  /\ Cache!CacheLost
  /\ request' = [c \in Clients |-> NoRequest]
  /\ UNCHANGED <<rows, label, replica>>

\* Item.findOne().sort({ version: -1 }), or 0 without items.
IsNewestVersion(v) ==
  /\ \A i \in Items : rows[i].version <= v
  /\ v = 0 \/ \E i \in Items : rows[i].version = v

Boot ==
  /\ \E v \in 0..MaxVersion : IsNewestVersion(v) /\ Recover(v)
  /\ UNCHANGED <<rows, job, cacheVars, clientVars>>

----------------------------------------------------------------------------
(* Client requests. *)

Ready(c) == Up /\ request[c] = NoRequest
Awaits(c, f) == request[c].kind = "list" /\ request[c].fetch = f

\* Both list handlers read the version before they ask the cache.
AwaitFetch(c, f) ==
  request' = [request EXCEPT ![c] = [kind |-> "list",
                                     version |-> committedVersion,
                                     fetch |-> f]]

\* A valid entry is served in the same turn; an empty one is dropped.
ListFromEntry(c) ==
  /\ Cache!Hit
  /\ label' = [label EXCEPT ![c] = committedVersion]
  /\ replica' = [replica EXCEPT ![c] = entry]
  /\ IF entry = EmptyList THEN Cache!Invalidate ELSE UNCHANGED cacheVars
  /\ UNCHANGED request

ListFromSharedFetch(c) ==
  /\ Cache!Shares(inFlight)
  /\ AwaitFetch(c, inFlight)
  /\ UNCHANGED <<cacheVars, label, replica>>

ListFromDatabase(c) ==
  /\ Cache!Start(c)
  /\ AwaitFetch(c, c)
  /\ UNCHANGED <<label, replica>>

FullList(c) ==
  \/ ListFromEntry(c)
  \/ ListFromSharedFetch(c)
  \/ ListFromDatabase(c)

ListItems(c) ==
  /\ Ready(c)
  /\ FullList(c)
  /\ UNCHANGED <<counterVars, rows, job>>

\* `since` is missing, invalid or ahead of the server.
MustReset(c) == label[c] = NoVersion \/ label[c] > committedVersion

\* The version is read before the query for the changes is sent.
SendDelta(c) ==
  /\ request' = [request EXCEPT ![c] = [kind |-> "delta",
                                        version |-> committedVersion,
                                        fetch |-> NoFetch]]
  /\ UNCHANGED <<cacheVars, label, replica>>

ListItemChanges(c) ==
  /\ Ready(c)
  /\ IF MustReset(c) THEN FullList(c) ELSE SendDelta(c)
  /\ UNCHANGED <<counterVars, rows, job>>

\* Mutant of ChangesRead: the client remembers the newest row, not the
\* version of the response.
ChangesReadByRow(c) ==
  /\ request[c].kind = "delta"
  /\ replica' = [replica EXCEPT ![c] =
                   [i \in Items |-> IF rows[i].version > label[c]
                                      THEN Content(rows[i])
                                      ELSE replica[c][i]]]
  /\ \E v \in 0..MaxVersion :
       /\ \A i \in Items : rows[i].version <= v
       /\ v = label[c] \/ \E i \in Items : rows[i].version = v
       /\ label' = [label EXCEPT ![c] = v]
  /\ request' = [request EXCEPT ![c] = NoRequest]
  /\ UNCHANGED <<counterVars, rows, job, cacheVars>>

\* The changes, soft-deleted rows included, are read and merged by the
\* client. Nobody else sees the response, so its trip is not a step.
ChangesRead(c) ==
  /\ request[c].kind = "delta"
  /\ replica' = [replica EXCEPT ![c] =
                   [i \in Items |-> IF rows[i].version > label[c]
                                      THEN Content(rows[i])
                                      ELSE replica[c][i]]]
  /\ label' = [label EXCEPT ![c] = request[c].version]
  /\ request' = [request EXCEPT ![c] = NoRequest]
  /\ UNCHANGED <<counterVars, rows, job, cacheVars>>

ChangesFail(c) ==
  /\ "readFails" \in Faults
  /\ request[c].kind = "delta"
  /\ request' = [request EXCEPT ![c] = NoRequest]
  /\ UNCHANGED <<counterVars, rows, job, cacheVars, label, replica>>

ListQueryRuns(f) ==
  /\ Cache!QueryRuns(f, CurrentList)
  /\ UNCHANGED <<counterVars, rows, job, clientVars>>

RequestsAfter(f) ==
  [c \in Clients |-> IF Awaits(c, f) THEN NoRequest ELSE request[c]]

\* Mutant of ListQueryAnswers: the version is read after the items.
ListQueryAnswersLate(f) ==
  /\ IF fetch[f].value = EmptyList THEN Cache!ResolveAndInvalidate(f)
                                   ELSE Cache!Resolve(f)
  /\ label' = [c \in Clients |-> IF Awaits(c, f) THEN committedVersion
                                                 ELSE label[c]]
  /\ replica' = [c \in Clients |-> IF Awaits(c, f) THEN fetch[f].value
                                                   ELSE replica[c]]
  /\ request' = RequestsAfter(f)
  /\ UNCHANGED <<counterVars, rows, job>>

\* Mutant of ListQueryAnswers: an empty list stays in the cache.
ListQueryAnswersKeep(f) ==
  /\ Cache!Resolve(f)
  /\ label' = [c \in Clients |-> IF Awaits(c, f) THEN request[c].version
                                                 ELSE label[c]]
  /\ replica' = [c \in Clients |-> IF Awaits(c, f) THEN fetch[f].value
                                                   ELSE replica[c]]
  /\ request' = RequestsAfter(f)
  /\ UNCHANGED <<counterVars, rows, job>>

\* Every awaiting handler labels the list with the version it read before;
\* each drops an empty list from the cache again.
ListQueryAnswers(f) ==
  /\ IF fetch[f].value = EmptyList THEN Cache!ResolveAndInvalidate(f)
                                   ELSE Cache!Resolve(f)
  /\ label' = [c \in Clients |-> IF Awaits(c, f) THEN request[c].version
                                                 ELSE label[c]]
  /\ replica' = [c \in Clients |-> IF Awaits(c, f) THEN fetch[f].value
                                                   ELSE replica[c]]
  /\ request' = RequestsAfter(f)
  /\ UNCHANGED <<counterVars, rows, job>>

ListQueryFails(f) ==
  /\ "readFails" \in Faults
  /\ Cache!Reject(f)
  /\ request' = RequestsAfter(f)
  /\ UNCHANGED <<counterVars, rows, job, label, replica>>

EntryExpires ==
  /\ Cache!Expire
  /\ UNCHANGED <<counterVars, rows, job, clientVars>>

----------------------------------------------------------------------------
WriteStarts ==
  \/ CreateItem \/ UpdateItem \/ BulkUpdateItems
  \/ DeleteItem \/ BulkDeleteItems \/ SetSiteSettings

WriteStep ==
  \/ WriteStarts
  \/ \E i \in Items : WriteRow(i)
  \/ WriteReturns \/ WriteThrows
  \/ CounterStep

ClientStep(c) ==
  \/ ListItems(c) \/ ListItemChanges(c)
  \/ ChangesRead(c) \/ ChangesFail(c)
  \/ ListQueryRuns(c) \/ ListQueryAnswers(c) \/ ListQueryFails(c)

Next ==
  \/ \E a \in Admins : AdminCalls(a)
  \/ WriteStep
  \/ \E c \in Clients : ClientStep(c)
  \/ EntryExpires
  \/ Crash
  \/ Boot

Spec == Init /\ [][Next]_vars

(***************************************************************************)
(* The driver settles every database call, so a running write and a sent   *)
(* query go on; a client that is free polls again.                         *)
(***************************************************************************)
Fairness ==
  /\ WF_vars(WriteStep)
  /\ \A c \in Clients :
       /\ WF_vars(ListItems(c) \/ ListItemChanges(c))
       /\ WF_vars(ChangesRead(c) \/ ChangesFail(c))
       /\ WF_vars(ListQueryRuns(c))
       /\ WF_vars(ListQueryAnswers(c) \/ ListQueryFails(c))

FairSpec == Spec /\ Fairness

----------------------------------------------------------------------------
(***************************************************************************)
(* What the version number promises: a client labelled v holds the current *)
(* content of every row that was last written at v or before, so asking    *)
(* for `version > v` brings it up to date. This is items.controller.ts:56  *)
(* "the list is never older than the version it's labelled with" and the   *)
(* reason withVersionBump serializes writes (version.service.ts:9-13).     *)
(***************************************************************************)
ClientCurrent ==
  \A c \in Clients, i \in Items :
    rows[i].version <= label[c] => replica[c][i] = Content(rows[i])

(***************************************************************************)
(* A list the cache would hand out agrees with the database on every row   *)
(* that the running write has not changed yet: "every write below          *)
(* invalidates immediately" (items.controller.ts:28-29).                   *)
(***************************************************************************)
CacheCurrent ==
  \A i \in Items \ job.written :
    /\ Cache!Hit => entry[i] = Content(rows[i])
    /\ \A f \in Clients :
         fetch[f].current /\ fetch[f].status = "read"
           => fetch[f].value[i] = Content(rows[i])

(***************************************************************************)
(* "empty result will not be retained in cache" (items.controller.ts:73):  *)
(* neither list handler leaves an empty list behind.                       *)
(***************************************************************************)
EmptyNotRetained == entry # EmptyList

(***************************************************************************)
(* "The counter advances even if `write` throws" (version.service.ts:105): *)
(* once the queue is idle, every change in the database, the failed        *)
(* writes' included, has a version that clients are told about.            *)
(***************************************************************************)
IdleAnnounced ==
  phase = "idle" => \A i \in Items : rows[i].version <= committedVersion

(***************************************************************************)
(* A client's version never goes back, across failed writes and across     *)
(* restarts that lose the counter in memory: no response sends it to a     *)
(* version it has already left.                                            *)
(***************************************************************************)
LabelNeverRegresses == [][\A c \in Clients : label'[c] >= label[c]]_vars

----------------------------------------------------------------------------
(* The feed that clients see, and the state it stands for. *)

\* The version clients can be told of: the one in memory or, while the
\* server is down, the one a boot will restore.
Announced ==
  IF Up THEN committedVersion ELSE
  IF \E i \in Items : rows[i].version > appVersion THEN appVersion + 1
                                                  ELSE appVersion

\* Readers do not tell a deleted row from one that never was.
Published ==
  [i \in Items |-> [version |-> rows[i].version, content |-> Content(rows[i])]]

Feed == INSTANCE ReplicaFeed
          WITH announced <- Announced, rows <- Published,
               Contents <- Values \union {Absent}

(***************************************************************************)
(* Behind queue, cache, shared and superseded fetches, deltas, failing     *)
(* calls and restarts, clients see a plain feed of versions: changes go    *)
(* under the next version, versions are announced one by one, and every    *)
(* answer moves a client on to an announced version with a copy that is    *)
(* right up to it (version.service.ts:9-13, items.controller.ts:56-57). A  *)
(* restart announces at most the version that was being written.           *)
(***************************************************************************)
ImplementsFeed == Feed!Spec

----------------------------------------------------------------------------
(***************************************************************************)
(* Every queued write settles, whatever the writes before it did: a write  *)
(* that throws does not block the queue (version.service.ts:125).          *)
(***************************************************************************)
WritesSettle == \A a \in Admins : Queued(a) ~> ~Queued(a)

(***************************************************************************)
(* A client that keeps polling reaches every version that was announced.   *)
(***************************************************************************)
ClientsCatchUp ==
  \A c \in Clients, v \in 1..MaxVersion :
    committedVersion >= v ~> label[c] >= v
=============================================================================
