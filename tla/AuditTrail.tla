---------------------------- MODULE AuditTrail ----------------------------
(***************************************************************************)
(* From an admin's request to its audit events: requirePermission of       *)
(* authorize.middleware.ts, the write handlers of items.controller.ts and  *)
(* site.controller.ts as far as their events go, and recordLogEvent. A     *)
(* handler reads what it will log before its write or inside the write     *)
(* queue, and records its events when the write has settled, so those of   *)
(* several admins interleave. LogPages says how the log is read, ItemRules *)
(* what the events of a rule save say.                                     *)
(***************************************************************************)
EXTENDS VersionCounter, FiniteSetsExt

CONSTANTS
  HeadAdmins,   \* hold every permission and alone change the settings
  Items,
  Values,       \* what an item or the settings can hold
  Absent,       \* no such item yet
  Deleted,      \* deletedAt is set
  MaxWrites     \* bound: rows written

ASSUME AdminsAssumption == Admins # {} /\ HeadAdmins \subseteq Admins
ASSUME ValuesAssumption ==
  Values \intersect {Absent, Deleted} = {} /\ Absent # Deleted
ASSUME MaxWritesAssumption == MaxWrites \in Nat

Site == "site"   \* the settings, one of maintenance and notice

ASSUME ItemsAssumption == Site \notin Items

Entities == Items \union {Site}

(***************************************************************************)
(* history[e] holds every content of e with the version and the admin that *)
(* wrote it. Its last element is the stored one, the earlier ones are kept *)
(* for the properties. <<e, k>> is the write that made the kth content.    *)
(***************************************************************************)
VARIABLES
  history,
  inForce,    \* the settings in memory: which content of Site they are
  permitted,  \* the admins whose User document grants the permission
  request,    \* request[a]: the request of admin a and where it is
  events,     \* the log_events collection
  unlogged    \* writes whose request failed or whose event was not recorded

auditVars == <<events, unlogged>>
vars == <<committedVersion, appVersion, writeQueue, phase, history, inForce,
          permitted, request, events, unlogged>>

Position(e) == Len(history[e])
Stored(e) == history[e][Position(e)].value
Live(e) == Stored(e) \in Values

Writes == Entities \X Nat
Changed(writes) == {w[1] : w \in writes}

Kinds == {"create", "update", "bulkUpdate", "delete", "bulkDelete", "setting"}
Stages == {"idle", "authorize", "find", "queued", "failed", "record"}

NothingRead == [e \in Entities |-> 0]

\* `targets`, `value`: what is asked for. `read[e]`: which content of e the
\* handler has read, 0 for none. `since[e]`: which one was stored when a
\* handler that reads before it queues did so, 0 for the others; the
\* properties alone ask for it. `writes`: what it has written. `pending`: the
\* entities whose event is on its way. `held`: since the request arrived, the
\* admin had the permission at some time.
Request == [stage : Stages, kind : Kinds, targets : SUBSET Entities,
            value : Values \union {Deleted}, read : [Entities -> Nat],
            since : [Entities -> Nat], writes : SUBSET Writes,
            pending : SUBSET Entities, held : BOOLEAN]

Idle == [stage |-> "idle", kind |-> "update", targets |-> {},
         value |-> Deleted, read |-> NothingRead, since |-> NothingRead,
         writes |-> {}, pending |-> {}, held |-> FALSE]

\* `read`, `since`: what the request that wrote it had there.
Content == [value : Values \union {Absent, Deleted},
            version : 0..MaxVersion, by : Admins, read : Nat, since : Nat]

Event == [entity : Entities, previous : Values \union {Absent},
          new : Values \union {Deleted}, version : 0..MaxVersion,
          admin : Admins, batch : BOOLEAN, write : Writes]

TypeOK ==
  /\ CounterTypeOK
  /\ history \in [Entities -> Seq(Content)]
  /\ inForce \in Nat
  /\ permitted \subseteq Admins
  /\ request \in [Admins -> Request]
  /\ \A a \in Admins : /\ request[a].pending \subseteq request[a].targets
                       /\ request[a].stage = "queued" => Queued(a)
  /\ events \subseteq Event
  /\ unlogged \subseteq Writes

\* Who wrote the first content plays no part.
Init ==
  /\ CounterInit
  /\ history \in
       [Entities -> {<<[value |-> v, version |-> 0, read |-> 0, since |-> 0,
                        by |-> CHOOSE a \in Admins : TRUE]>> :
                          v \in Values \union {Absent}}]
  /\ Live(Site)
  /\ inForce = 1
  /\ permitted = Admins
  /\ request = [a \in Admins |-> Idle]
  /\ events = {}
  /\ unlogged = {}

----------------------------------------------------------------------------
(* Permissions. *)

\* updateAdminPermissions grants or revokes.
SetPermission(a) ==
  /\ a \notin HeadAdmins
  /\ permitted' = IF a \in permitted THEN permitted \ {a}
                                     ELSE permitted \union {a}
  /\ request' = [request EXCEPT
       ![a].held = @ \/ (request[a] # Idle /\ a \in permitted')]
  /\ UNCHANGED <<counterVars, history, inForce, auditVars>>

\* A request of any kind arrives; requirePermission asks for the admin.
Arrives(a) ==
  /\ Up
  /\ request[a] = Idle
  /\ request' = [request EXCEPT ![a] = [Idle EXCEPT !.stage = "authorize",
                                                  !.held = a \in permitted]]
  /\ UNCHANGED <<counterVars, history, inForce, permitted, auditVars>>

\* Mutant of Permitted: who was let through before still is.
PermittedBefore(a) ==
  a \in permitted \/ \E row \in events : row.admin = a

Permitted(a) == a \in permitted

Forbidden(a) ==
  /\ request[a].stage = "authorize"
  /\ ~Permitted(a)
  /\ request' = [request EXCEPT ![a] = Idle]
  /\ UNCHANGED <<counterVars, history, inForce, permitted, auditVars>>

----------------------------------------------------------------------------
(* The handlers, up to the write queue. *)

Positions(targets) ==
  [e \in Entities |-> IF e \in targets THEN Position(e) ELSE 0]

\* The bound, with what the requests under way may write.
Room(targets) ==
  MapThenSumSet(LAMBDA e : Position(e) - 1, Entities)
    + MapThenSumSet(LAMBDA b : Cardinality(request[b].targets), Admins)
    + Cardinality(targets) <= MaxWrites

\* The handler calls withVersionBump, having read `read` so far.
Queue(a, kind, targets, value, read, since) ==
  /\ request[a].stage = "authorize"
  /\ Permitted(a)
  /\ Room(targets)
  /\ Enqueue(a)
  /\ request' = [request EXCEPT ![a].stage = "queued", ![a].kind = kind,
                                ![a].targets = targets, ![a].value = value,
                                ![a].read = read, ![a].since = since]
  /\ UNCHANGED <<history, inForce, permitted, auditVars>>

\* Nobody else knows the new item.
CreateItem(a) ==
  \E i \in Items, v \in Values :
    /\ Stored(i) = Absent
    /\ \A b \in Admins : i \notin request[b].targets
    /\ Queue(a, "create", {i}, v, NothingRead, NothingRead)

\* Requests name items that have existed, if only when the page was loaded.
Known == {i \in Items : Stored(i) # Absent}

BulkUpdateItems(a) ==
  \E ids \in SUBSET Known \ {{}}, v \in Values :
    Queue(a, "bulkUpdate", ids, v, NothingRead, NothingRead)

DeleteItem(a) ==
  \E i \in Known :
    Queue(a, "delete", {i}, Deleted, NothingRead, NothingRead)

BulkDeleteItems(a) ==
  \E ids \in SUBSET Known \ {{}} :
    Queue(a, "bulkDelete", ids, Deleted, NothingRead, NothingRead)

\* updateMaintenance, updateNotice: the settings in memory are read first.
UpdateSettings(a) ==
  /\ a \in HeadAdmins
  /\ \E v \in Values :
       Queue(a, "setting", {Site}, v, [NothingRead EXCEPT ![Site] = inForce],
             Positions({Site}))

\* updateItem: the row is looked up before the write is queued.
UpdateItem(a) ==
  /\ request[a].stage = "authorize"
  /\ Permitted(a)
  /\ \E i \in Known, v \in Values :
       /\ Room({i})
       /\ request' = [request EXCEPT ![a].stage = "find", ![a].kind = "update",
                                     ![a].targets = {i}, ![a].value = v]
  /\ UNCHANGED <<counterVars, history, inForce, permitted, auditVars>>

FindPrevious(a) ==
  /\ request[a].stage = "find"
  /\ \A e \in request[a].targets : Live(e)
  /\ Enqueue(a)
  /\ request' = [request EXCEPT ![a].stage = "queued",
                                ![a].read = Positions(request[a].targets),
                                ![a].since = Positions(request[a].targets)]
  /\ UNCHANGED <<history, inForce, permitted, auditVars>>

\* NotFoundError, or the query throws.
FindFails(a) ==
  /\ request[a].stage = "find"
  /\ "readFails" \in Faults \/ \E e \in request[a].targets : ~Live(e)
  /\ request' = [request EXCEPT ![a] = Idle]
  /\ UNCHANGED <<counterVars, history, inForce, permitted, auditVars>>

----------------------------------------------------------------------------
(* The write, at the head of the queue. *)

CallbackStarts ==
  /\ StartWrite
  /\ UNCHANGED <<history, inForce, permitted, request, auditVars>>

\* The rows the write finds.
Matching(r) ==
  {e \in r.targets : r.kind \in {"create", "setting"} \/ Live(e)}

NewWrites(changed) == {<<e, Position(e) + 1>> : e \in changed}

\* Mutant of Reading: a batch is read before it is queued.
ReadingEarly(r) ==
  IF r.kind \in {"update", "setting"} THEN r.read
    ELSE [e \in Entities |-> 1]

\* Single updates and settings have read; the others read in the callback.
Reading(r) ==
  IF r.kind \in {"update", "setting"} THEN r.read ELSE Positions(r.targets)

Written(changed, r, a) ==
  history' = [e \in Entities |->
                IF e \in changed
                  THEN Append(history[e],
                              [value |-> r.value, by |-> a,
                               version |-> NextVersion, since |-> r.since[e],
                               read |-> Reading(r)[e]])
                  ELSE history[e]]

\* Mutant of SettingsInForce: a write leaves the settings in memory alone.
SettingsForgotten(r) == inForce

\* setMaintenance and setNotice assign what they have stored.
SettingsInForce(r) ==
  IF r.kind = "setting" THEN Position(Site) + 1 ELSE inForce

\* Only this callback changes items and settings, so what it reads, changes
\* and reads back is one step.
CallbackReturns ==
  LET a == Head(writeQueue)
      r == request[a]
  IN  /\ WriteEnds
      /\ Written(Matching(r), r, a)
      /\ inForce' = SettingsInForce(r)
      /\ request' = [request EXCEPT ![a].read = Reading(r),
                                    ![a].writes = NewWrites(Matching(r))]
      /\ UNCHANGED <<permitted, auditVars>>

\* It throws: a conflict, a validation error, or a database error that may
\* have left some of the rows changed, or the settings changed that stay in
\* memory as they were.
CallbackThrows ==
  LET a == Head(writeQueue)
      r == request[a]
  IN  /\ WriteEnds
      /\ \E changed \in SUBSET Matching(r) :
           /\ changed # {} => "tornWrite" \in Faults
           /\ Written(changed, r, a)
           /\ unlogged' = unlogged \union NewWrites(changed)
      /\ request' = [request EXCEPT ![a].stage = "failed"]
      /\ UNCHANGED <<inForce, permitted, events>>

CounterSaved ==
  /\ SaveCounter
  /\ UNCHANGED <<history, inForce, permitted, request, auditVars>>

\* The handler fails although its write is stored.
CounterSaveFails ==
  LET a == Head(writeQueue)
  IN  /\ SaveFails
      /\ request' = [request EXCEPT ![a] = Idle]
      /\ unlogged' = unlogged \union request[a].writes
      /\ UNCHANGED <<history, inForce, permitted, events>>

----------------------------------------------------------------------------
(* The events. *)

Previous(r, e) ==
  IF r.kind = "create" THEN Absent ELSE history[e][r.read[e]].value

\* Mutant of Logged: a batch is logged by one of its rows.
LoggedOnce(r) ==
  {e \in Changed(r.writes) : e = CHOOSE x \in Changed(r.writes) : TRUE}

\* The rows that got another value than the handler had read.
Logged(r) == {e \in Changed(r.writes) : Previous(r, e) # r.value}

\* The run settles and the handler goes on: it sends its events at once. A
\* setting's event names getVersion(), which no other run can have advanced.
CommitAndLog ==
  LET a == Head(writeQueue)
      r == request[a]
  IN  /\ Commit
      /\ request' =
           [request EXCEPT
              ![a] = IF r.stage = "failed" \/ Logged(r) = {} THEN Idle
                       ELSE [r EXCEPT !.stage = "record",
                                      !.pending = Logged(r)]]
      /\ UNCHANGED <<history, inForce, permitted, auditVars>>

\* One event less to wait for; after the last one the response is sent.
Settled(a, e) ==
  LET r == request[a]
  IN  request' = [request EXCEPT
                    ![a] = IF r.pending = {e} THEN Idle
                             ELSE [r EXCEPT !.pending = r.pending \ {e}]]

WriteOf(r, e) == CHOOSE w \in r.writes : w[1] = e

\* An event reaches the database; those of a batch do so in any order.
RecordEvent(a, e) ==
  LET r == request[a]
      w == WriteOf(r, e)
  IN  /\ e \in r.pending
      /\ events' = events \union
           {[entity |-> e, previous |-> Previous(r, e), new |-> r.value,
             version |-> history[e][w[2]].version, admin |-> a,
             batch |-> r.kind \in {"bulkUpdate", "bulkDelete"}, write |-> w]}
      /\ Settled(a, e)
      /\ UNCHANGED <<counterVars, history, inForce, permitted, unlogged>>

\* "Best-effort": a failure is only logged.
RecordFails(a, e) ==
  /\ e \in request[a].pending
  /\ unlogged' = unlogged \union {WriteOf(request[a], e)}
  /\ Settled(a, e)
  /\ UNCHANGED <<counterVars, history, inForce, permitted, events>>

\* The process dies, and with it every request. Nobody reads the settings in
\* memory before a boot has loaded them.
Crash ==
  /\ Die
  /\ unlogged' = unlogged \union
       UNION {request[a].writes \ {row.write : row \in events} : a \in Admins}
  /\ request' = [a \in Admins |-> Idle]
  /\ UNCHANGED <<history, inForce, permitted, events>>

\* Item.findOne().sort({ version: -1 }), or 0 without items.
StoredVersion(i) == history[i][Position(i)].version
IsNewestVersion(v) ==
  /\ \A i \in Items : StoredVersion(i) <= v
  /\ v = 0 \/ \E i \in Items : StoredVersion(i) = v

Boot ==
  /\ \E v \in 0..MaxVersion : IsNewestVersion(v) /\ Recover(v)
  /\ inForce' = Position(Site)
  /\ UNCHANGED <<history, permitted, request, auditVars>>

Handler(a) ==
  \/ CreateItem(a) \/ UpdateItem(a) \/ FindPrevious(a) \/ FindFails(a)
  \/ BulkUpdateItems(a) \/ DeleteItem(a) \/ BulkDeleteItems(a)
  \/ UpdateSettings(a)
  \/ \E e \in Entities : RecordEvent(a, e)
  \/ \E e \in Entities : RecordFails(a, e)

WriteStep ==
  \/ CallbackStarts \/ CallbackReturns \/ CallbackThrows
  \/ CounterSaved \/ CounterSaveFails \/ CommitAndLog

Next ==
  \/ \E a \in Admins : \/ SetPermission(a) \/ Arrives(a) \/ Forbidden(a)
                       \/ Handler(a)
  \/ WriteStep
  \/ Crash \/ Boot

Spec == Init /\ [][Next]_vars

----------------------------------------------------------------------------
(***************************************************************************)
(* "A revoked permission must take effect on the very next request"        *)
(* (authorize.middleware.ts:14-15): whatever a request has written, its    *)
(* admin held the permission at some time between the request's arrival    *)
(* and its write; a grant from before the request does not count.          *)
(***************************************************************************)
RevokedAtOnce ==
  \A a \in Admins :
    request[a].stage \notin {"idle", "authorize"} => request[a].held

(***************************************************************************)
(* An event tells the write it was recorded for: who wrote, what, under    *)
(* which version. Its previous value is the one that was replaced; only a  *)
(* single update and the settings, which look before they queue, may name  *)
(* an older value (items.controller.ts:185, site.controller.ts:83).        *)
(***************************************************************************)
EventsTellWrites ==
  \A row \in events :
    LET past == history[row.entity]
        k == row.write[2]
    IN  /\ k \in 2..Len(past)
        /\ past[k].value = row.new
        /\ past[k].version = row.version
        /\ past[k].by = row.admin
        /\ \E j \in 1..(k - 1) :
             /\ row.previous = past[j].value
             /\ j = k - 1 \/ (~row.batch /\ row.new # Deleted)

(***************************************************************************)
(* The write <<e, k>> put back what its handler had read before it queued. *)
(* Each content in between was stored after it had read, or before that by *)
(* a request that failed, whose change the settings in memory do not show. *)
(***************************************************************************)
PutsBackWhatItRead(e, k) ==
  LET write == history[e][k]
  IN  /\ write.read \in 1..(k - 2)
      /\ write.read <= write.since
      /\ history[e][write.read].value = write.value
      /\ \A j \in (write.read + 1)..write.since : <<e, j>> \in unlogged

(***************************************************************************)
(* No change goes unlogged: once its request is through, every write that  *)
(* changed an entity has its event, unless the request failed or recording *)
(* it failed - or it is a single update or a settings change that put back *)
(* what its handler had read (items.controller.ts:214, site.controller.ts: *)
(* 93 and 132 then find nothing to log). A revert whose handler had read   *)
(* the content it replaced is logged, however often the value was there    *)
(* before.                                                                 *)
(***************************************************************************)
ChangesAreLogged ==
  \A e \in Entities : \A k \in 2..Position(e) :
    \/ history[e][k].value = history[e][k - 1].value
    \/ <<e, k>> \in unlogged
    \/ \E a \in Admins : <<e, k>> \in request[a].writes
    \/ \E row \in events : row.write = <<e, k>>
    \/ PutsBackWhatItRead(e, k)
===========================================================================
