--------------------------- MODULE AuditTrailProofs ---------------------------
(***************************************************************************)
(* Proofs of the invariants of AuditTrail, for any number of admins, items *)
(* and values, under every fault. The inductive invariant says of every    *)
(* admin's request what its handler knows at each stage; the events and    *)
(* the contents only grow, so what is true of them stays true.             *)
(***************************************************************************)
EXTENDS AuditTrail, TLAPS

----------------------------------------------------------------------------
(* The counter. *)

LEMMA CounterKeeps ==
  ASSUME CounterInv,
         \/ \E a \in Admins : Enqueue(a)
         \/ StartWrite \/ WriteEnds \/ SaveCounter \/ SaveFails \/ Commit
         \/ Die \/ \E v \in 0..MaxVersion : Recover(v)
  PROVE  CounterInv'
<1> USE MaxVersionAssumption
    DEF CounterInv, CounterTypeOK, QueueBudget, NextVersion, Larger, Up
<1>1. ASSUME NEW a \in Admins, Enqueue(a) PROVE CounterInv'
  BY <1>1 DEF Enqueue
<1>2. CASE StartWrite \/ WriteEnds \/ SaveCounter
  BY <1>2 DEF StartWrite, WriteEnds, SaveCounter
<1>3. ASSUME writeQueue # <<>>
      PROVE  /\ Tail(writeQueue) \in Seq(Admins)
             /\ Len(Tail(writeQueue)) = Len(writeQueue) - 1
             /\ Len(writeQueue) \in Nat \ {0}
  BY <1>3
<1>4. CASE SaveFails
  BY <1>3, <1>4 DEF SaveFails
<1>5. CASE Commit
  BY <1>3, <1>5 DEF Commit
<1>6. CASE Die
  BY <1>6 DEF Die
<1>7. ASSUME NEW v \in 0..MaxVersion, Recover(v) PROVE CounterInv'
  <2>1. committedVersion' \in 0..MaxVersion /\ appVersion' \in 0..MaxVersion
    BY <1>7 DEF Recover
  <2> QED
    BY <1>7, <2>1 DEF Recover
<1> QED
  BY <1>1, <1>2, <1>4, <1>5, <1>6, <1>7

----------------------------------------------------------------------------
(* The invariant. *)

\* The write queue: nobody is in it twice, everybody in it waits for his
\* write or, at its head, for the counter of a write that threw.
QueueSound ==
  /\ CounterInv
  /\ \A j, k \in DOMAIN writeQueue : writeQueue[j] = writeQueue[k] => j = k
  /\ \A k \in DOMAIN writeQueue :
       \/ request[writeQueue[k]].stage = "queued"
       \/ /\ request[writeQueue[k]].stage = "failed"
          /\ k = 1
          /\ phase \in {"save", "commit"}

\* A write is known to its request until the request is through.
MayHaveWritten(a) ==
  \/ request[a].stage = "record"
  \/ /\ request[a].stage = "queued"
     /\ phase \in {"save", "commit"}
     /\ a = Head(writeQueue)

\* Who is in the queue, and who has written.
StageSound(a) ==
  /\ request[a].stage \in {"queued", "failed"} => Queued(a)
  /\ request[a].writes # {} => MayHaveWritten(a)
  /\ request[a].pending # {} => request[a].stage = "record"

HeldSound(a) ==
  /\ request[a].stage \notin {"idle", "authorize"} => request[a].held
  /\ request[a].stage = "authorize" /\ a \in permitted => request[a].held

Deletes == {"delete", "bulkDelete"}
Early == {"create", "update", "setting"}   \* read before they are queued
Late == {"bulkUpdate"} \union Deletes      \* read in the queue
Working == {"queued", "record"}

\* What is asked for fits the kind of request.
AskedSound(a) ==
  request[a].stage \in {"find"} \union Working =>
    /\ request[a].kind \in Deletes => request[a].value = Deleted
    /\ request[a].kind \notin Deletes => request[a].value \in Values
    /\ Site \in request[a].targets => request[a].kind = "setting"
    /\ request[a].kind = "setting" => request[a].targets = {Site}
    /\ request[a].stage = "find" => request[a].kind = "update"

\* What the handler takes for the previous value of e is one of the first n
\* contents of e; one that reads in the queue has read the last of them.
HasSeen(a, e, n) ==
  \E j \in 1..n :
    /\ history[e][j].value \in Values \union {Absent}
    /\ IF request[a].kind = "create" THEN history[e][j].value = Absent
                                     ELSE request[a].read[e] = j
    /\ j = n \/ request[a].kind \in Early

\* What was stored when a single update or a settings change read e, and is
\* newer than what it has read, came from requests that failed.
ReadSound(a, e) ==
  request[a].kind \in {"update", "setting"} =>
    /\ request[a].read[e] <= request[a].since[e]
    /\ \A j \in (request[a].read[e] + 1)..request[a].since[e] :
         <<e, j>> \in unlogged

SeenSound(a) ==
  request[a].stage \in Working /\ request[a].kind \in Early =>
    \A e \in request[a].targets : /\ HasSeen(a, e, Position(e))
                                   /\ ReadSound(a, e)

\* A write of a's request, as it is stored.
WriteSound(a, w) ==
  /\ w[1] \in request[a].targets
  /\ w[2] \in 2..Position(w[1])
  /\ history[w[1]][w[2]].value = request[a].value
  /\ history[w[1]][w[2]].by = a
  /\ history[w[1]][w[2]].read = request[a].read[w[1]]
  /\ history[w[1]][w[2]].since = request[a].since[w[1]]
  /\ HasSeen(a, w[1], w[2] - 1)

WritesSound(a) ==
  /\ \A w \in request[a].writes : WriteSound(a, w)
  /\ \A v, w \in request[a].writes : v[1] = w[1] => v = w
  /\ request[a].pending \subseteq Changed(request[a].writes)

Recorded(w) == \E row \in events : row.write = w

\* Every event that is not on its way any more was recorded or has failed.
RecordSound(a) ==
  request[a].stage = "record" =>
    \A w \in request[a].writes :
      \/ w[1] \in request[a].pending
      \/ w \in unlogged \/ Recorded(w)
      \/ Previous(request[a], w[1]) = request[a].value

RequestSound(a) ==
  /\ StageSound(a)
  /\ AskedSound(a)
  /\ SeenSound(a)
  /\ WritesSound(a)
  /\ RecordSound(a)

\* Something is always stored, and the settings are never absent.
HistorySound ==
  /\ \A e \in Entities : Position(e) >= 1
  /\ \A k \in 1..Position(Site) : history[Site][k].value \in Values

\* Only requests that failed have stored settings newer than those in memory.
MemorySound ==
  /\ inForce \in 1..Position(Site)
  /\ \A j \in (inForce + 1)..Position(Site) : <<Site, j>> \in unlogged

IInv ==
  /\ TypeOK
  /\ QueueSound
  /\ HistorySound
  /\ MemorySound
  /\ \A a \in Admins : HeldSound(a) /\ RequestSound(a)
  /\ EventsTellWrites
  /\ ChangesAreLogged

-------------------------------------------------------------------------------
(* What stays true while contents, events and failures only accumulate. *)

\* No content is replaced.
HistoryGrows ==
  \A e \in Entities :
    /\ Position(e)' \in Nat /\ Position(e) <= Position(e)'
    /\ \A j \in 1..Position(e) : history'[e][j] = history[e][j]

LogGrows == events \subseteq events' /\ unlogged \subseteq unlogged'

\* A request that no handler has touched.
Untouched(b) ==
  /\ request'[b].stage = request[b].stage
  /\ request'[b].kind = request[b].kind
  /\ request'[b].targets = request[b].targets
  /\ request'[b].value = request[b].value
  /\ request'[b].read = request[b].read
  /\ request'[b].since = request[b].since
  /\ request'[b].writes = request[b].writes
  /\ request'[b].pending = request[b].pending

LEMMA HistoryType ==
  ASSUME TypeOK, NEW e \in Entities
  PROVE  /\ history[e] \in Seq(Content)
         /\ Position(e) \in Nat
         /\ \A j \in 1..Position(e) :
              /\ history[e][j] \in Content
              /\ history[e][j].value \in Values \union {Absent, Deleted}
              /\ history[e][j].version \in 0..MaxVersion
              /\ history[e][j].by \in Admins
              /\ history[e][j].read \in Nat
              /\ history[e][j].since \in Nat
<1>1. history[e] \in Seq(Content) /\ Position(e) \in Nat
  BY DEF TypeOK, Position
<1>2. ASSUME NEW j \in 1..Position(e) PROVE history[e][j] \in Content
  BY <1>1, <1>2 DEF Position
<1> QED
  BY <1>1, <1>2 DEF Content

LEMMA RequestType ==
  ASSUME TypeOK, NEW a \in Admins
  PROVE  /\ request[a] \in Request
         /\ request[a].stage \in Stages
         /\ request[a].kind \in Kinds
         /\ request[a].targets \subseteq Entities
         /\ request[a].value \in Values \union {Deleted}
         /\ request[a].read \in [Entities -> Nat]
         /\ request[a].since \in [Entities -> Nat]
         /\ request[a].writes \subseteq Writes
         /\ request[a].pending \subseteq Entities
         /\ request[a].held \in BOOLEAN
BY DEF TypeOK, Request

LEMMA HasSeenStays ==
  ASSUME NEW a \in Admins, NEW e \in Entities, NEW m \in Nat, NEW n \in Nat,
         HasSeen(a, e, m),
         \A j \in 1..m : history'[e][j] = history[e][j],
         request'[a].kind = request[a].kind,
         request[a].kind # "create" => request'[a].read = request[a].read,
         m = n \/ (m <= n /\ request[a].kind \in Early)
  PROVE  HasSeen(a, e, n)'
BY DEF HasSeen

LEMMA WriteStays ==
  ASSUME TypeOK, HistoryGrows, NEW b \in Admins, NEW w \in Writes,
         WriteSound(b, w),
         request'[b].kind = request[b].kind,
         request'[b].targets = request[b].targets,
         request'[b].value = request[b].value,
         request'[b].read = request[b].read,
         request'[b].since = request[b].since
  PROVE  WriteSound(b, w)'
<1>1. /\ w[1] \in Entities
      /\ w[2] \in 2..Position(w[1])
      /\ w[2] - 1 \in Nat
      /\ w[2] \in 1..Position(w[1])
  BY RequestType DEF WriteSound, Writes
<1>2. /\ Position(w[1]) \in Nat /\ Position(w[1])' \in Nat
      /\ Position(w[1])' >= Position(w[1])
  BY <1>1, HistoryType DEF HistoryGrows
<1>3. \A j \in 1..Position(w[1]) : history'[w[1]][j] = history[w[1]][j]
  BY <1>1 DEF HistoryGrows
<1>4. HasSeen(b, w[1], w[2] - 1)'
  BY <1>1, <1>2, <1>3, HasSeenStays DEF WriteSound
<1> QED
  BY <1>1, <1>2, <1>3, <1>4 DEF WriteSound

LEMMA ReadStays ==
  ASSUME LogGrows, NEW b \in Admins, NEW e \in Entities, ReadSound(b, e),
         request'[b].kind = request[b].kind,
         request[b].kind # "create" => request'[b].read = request[b].read,
         request'[b].since = request[b].since
  PROVE  ReadSound(b, e)'
BY DEF ReadSound, LogGrows

\* What a request knows is not disturbed by the steps of others.
LEMMA RequestStays ==
  ASSUME TypeOK, HistoryGrows, LogGrows, NEW b \in Admins, RequestSound(b),
         Untouched(b)
  PROVE  AskedSound(b)' /\ SeenSound(b)' /\ WritesSound(b)' /\ RecordSound(b)'
<1> USE DEF Untouched
<1>1. AskedSound(b)'
  BY DEF RequestSound, AskedSound
<1>2. SeenSound(b)'
  <2> SUFFICES ASSUME request[b].stage \in Working, request[b].kind \in Early,
                      NEW e \in request[b].targets
               PROVE  HasSeen(b, e, Position(e))' /\ ReadSound(b, e)'
    BY DEF SeenSound
  <2>1. HasSeen(b, e, Position(e)) /\ ReadSound(b, e) /\ e \in Entities
    BY RequestType DEF RequestSound, SeenSound
  <2>2. PICK m \in Nat, n \in Nat : m = Position(e) /\ n = Position(e)'
    BY <2>1, HistoryType DEF HistoryGrows
  <2>3. HasSeen(b, e, n)'
    BY <2>1, <2>2, HasSeenStays DEF HistoryGrows
  <2>4. ReadSound(b, e)'
    BY <2>1, ReadStays
  <2> QED
    BY <2>2, <2>3, <2>4
<1>3. WritesSound(b)'
  <2>1. ASSUME NEW w \in request[b].writes PROVE WriteSound(b, w)'
    BY RequestType, WriteStays DEF RequestSound, WritesSound
  <2> QED
    BY <2>1 DEF RequestSound, WritesSound, Changed
<1>4. RecordSound(b)'
  <2>1. ASSUME NEW w \in request[b].writes
        PROVE  Previous(request[b], w[1])' = Previous(request[b], w[1])
    <3>1. WriteSound(b, w)
      BY DEF RequestSound, WritesSound
    <3>2. w[1] \in Entities /\ Position(w[1]) \in Nat /\ w[2] \in 2..Position(w[1])
      BY <3>1, RequestType, HistoryType DEF WriteSound
    <3>3. \/ request[b].kind = "create"
          \/ request[b].read[w[1]] \in 1..Position(w[1])
      BY <3>1, <3>2 DEF WriteSound, HasSeen
    <3> QED
      BY <3>2, <3>3 DEF Previous, HistoryGrows
  <2> QED
    BY <2>1 DEF RequestSound, RecordSound, LogGrows, Recorded, Previous
<1> QED
  BY <1>1, <1>2, <1>3, <1>4

\* A step that touches no content.
LEMMA ContentsStay ==
  ASSUME TypeOK, HistorySound, UNCHANGED history
  PROVE  HistoryGrows /\ HistorySound'
BY HistoryType DEF HistoryGrows, HistorySound, Position

\* As long as nothing is stored, memory stays as sound as it is.
LEMMA MemoryStays ==
  ASSUME TypeOK, MemorySound, LogGrows, UNCHANGED <<history, inForce>>
  PROVE  MemorySound'
BY DEF MemorySound, LogGrows, Position

LEMMA ReadingType ==
  ASSUME TypeOK, NEW r \in Request
  PROVE  Reading(r) \in [Entities -> Nat] /\ r.since \in [Entities -> Nat]
<1>1. \A e \in Entities : Position(e) \in Nat
  BY HistoryType
<1> QED
  BY <1>1 DEF Reading, Positions, Request

\* What a write leaves behind.
Appended(changed, r, a) ==
  /\ \A e \in changed :
       /\ Position(e)' = Position(e) + 1
       /\ history'[e][Position(e) + 1].value = r.value
       /\ history'[e][Position(e) + 1].by = a
       /\ history'[e][Position(e) + 1].read = Reading(r)[e]
       /\ history'[e][Position(e) + 1].since = r.since[e]
  /\ \A e \in Entities \ changed : history'[e] = history[e]

\* A write appends one content to each entity it changes.
LEMMA ContentsGrow ==
  ASSUME TypeOK, HistorySound, CounterInv, phase = "write", NEW a \in Admins,
         NEW r \in Request, NEW changed \in SUBSET Entities,
         Written(changed, r, a), Site \in changed => r.value \in Values
  PROVE  /\ history' \in [Entities -> Seq(Content)]
         /\ HistoryGrows
         /\ HistorySound'
         /\ Appended(changed, r, a)
<1> DEFINE new(e) == [value |-> r.value, by |-> a, version |-> NextVersion,
                      since |-> r.since[e], read |-> Reading(r)[e]]
<1>1. NextVersion \in 0..MaxVersion
  <2>1. /\ Len(writeQueue) \in Nat /\ Len(writeQueue) >= 1
        /\ committedVersion \in Nat
        /\ committedVersion + Len(writeQueue) <= MaxVersion
    BY MaxVersionAssumption DEF CounterInv, CounterTypeOK, QueueBudget
  <2> QED
    BY <2>1, MaxVersionAssumption DEF NextVersion
<1>2. \A e \in Entities :
        /\ new(e) \in Content /\ new(e).value = r.value /\ new(e).by = a
        /\ new(e).since = r.since[e] /\ new(e).read = Reading(r)[e]
  <2>1. r.value \in Values \union {Deleted}
    BY DEF Request
  <2>2. Reading(r) \in [Entities -> Nat] /\ r.since \in [Entities -> Nat]
    BY ReadingType
  <2> QED
    BY <1>1, <2>1, <2>2 DEF Content
<1>3. ASSUME NEW e \in changed
      PROVE  /\ history'[e] = Append(history[e], new(e))
             /\ history'[e] \in Seq(Content)
             /\ Position(e)' = Position(e) + 1
             /\ history'[e][Position(e) + 1] = new(e)
             /\ \A j \in 1..Position(e) : history'[e][j] = history[e][j]
  <2>1. history'[e] = Append(history[e], new(e)) /\ history[e] \in Seq(Content)
    BY <1>3, HistoryType DEF Written
  <2> HIDE DEF new
  <2> QED
    BY <1>2, <2>1 DEF Position
<1> HIDE DEF new
<1>4. \A e \in Entities \ changed : history'[e] = history[e]
  BY DEF Written
<1>5. history' \in [Entities -> Seq(Content)]
  <2>1. \A e \in Entities : history'[e] \in Seq(Content)
    BY <1>3, <1>4, HistoryType
  <2> QED
    BY <2>1 DEF Written
<1>6. HistoryGrows
  BY <1>3, <1>4, HistoryType DEF HistoryGrows, Position
<1>7. HistorySound'
  <2>1. \A e \in Entities : (Position(e) >= 1)'
    BY <1>6, HistoryType DEF HistorySound, HistoryGrows
  <2>2. ASSUME NEW k \in 1..Position(Site)'
        PROVE  history'[Site][k].value \in Values
    <3>1. Site \in Entities /\ Position(Site) \in Nat
      BY HistoryType DEF Entities
    <3>2. CASE Site \in changed
      BY <1>2, <1>3, <2>2, <3>1, <3>2 DEF HistorySound
    <3>3. CASE Site \notin changed
      BY <1>4, <2>2, <3>1, <3>3 DEF HistorySound, Position
    <3> QED
      BY <3>2, <3>3
  <2> QED
    BY <2>1, <2>2 DEF HistorySound
<1> QED
  BY <1>2, <1>3, <1>4, <1>5, <1>6, <1>7 DEF Appended

\* What an event tells of its write.
EventTrue(row) ==
  LET past == history[row.entity]
      k == row.write[2]
  IN  /\ k \in 2..Len(past)
      /\ past[k].value = row.new
      /\ past[k].version = row.version
      /\ past[k].by = row.admin
      /\ \E j \in 1..(k - 1) :
           /\ row.previous = past[j].value
           /\ j = k - 1 \/ (~row.batch /\ row.new # Deleted)

LEMMA EventStays ==
  ASSUME TypeOK, HistoryGrows, NEW row \in Event, EventTrue(row)
  PROVE  EventTrue(row)'
<1>1. /\ row.entity \in Entities
      /\ row.write[2] \in 2..Len(history[row.entity])
  BY DEF Event, EventTrue
<1>2. /\ Len(history[row.entity]) \in Nat /\ Len(history'[row.entity]) \in Nat
      /\ Len(history'[row.entity]) >= Len(history[row.entity])
      /\ \A j \in 1..Len(history[row.entity]) :
           history'[row.entity][j] = history[row.entity][j]
  BY <1>1, HistoryType DEF HistoryGrows, Position
<1>3. history'[row.entity][row.write[2]] = history[row.entity][row.write[2]]
  BY <1>1, <1>2
<1>4. PICK j \in 1..(row.write[2] - 1) :
        /\ row.previous = history[row.entity][j].value
        /\ j = row.write[2] - 1 \/ (~row.batch /\ row.new # Deleted)
  BY DEF EventTrue
<1>5. history'[row.entity][j] = history[row.entity][j]
  BY <1>1, <1>2
<1>6. row.write[2] \in 2..Len(history'[row.entity])
  BY <1>1, <1>2
<1> QED
  BY <1>3, <1>4, <1>5, <1>6 DEF EventTrue

LEMMA EventsStay ==
  ASSUME TypeOK, HistoryGrows, EventsTellWrites, UNCHANGED events
  PROVE  EventsTellWrites'
<1>1. \A row \in events : row \in Event /\ EventTrue(row)
  BY DEF TypeOK, EventsTellWrites, EventTrue
<1>2. \A row \in events : EventTrue(row)'
  BY <1>1, EventStays
<1> QED
  BY <1>2 DEF EventsTellWrites, EventTrue

\* The kth content of e has its event or one of the reasons to have none.
Restored(e, k) ==
  \/ history[e][k].value = history[e][k - 1].value
  \/ PutsBackWhatItRead(e, k)

Logs(w) == w \in unlogged \/ Recorded(w)

Accounted(e, k) ==
  \/ Restored(e, k)
  \/ Logs(<<e, k>>)
  \/ \E a \in Admins : <<e, k>> \in request[a].writes

LEMMA AccountedMeansLogged ==
  ChangesAreLogged <=> \A e \in Entities : \A k \in 2..Position(e) :
                         Accounted(e, k)
BY DEF ChangesAreLogged, Accounted, Restored, Logs, Recorded

\* No request forgets a write that neither is logged nor needs to be.
KeepsTrack(a) ==
  \A w \in request[a].writes :
    \/ w \in request'[a].writes
    \/ Logs(w)'
    \/ Restored(w[1], w[2])

LEMMA AccountedStays ==
  ASSUME TypeOK, HistoryGrows, LogGrows, \A a \in Admins : KeepsTrack(a),
         NEW e \in Entities, NEW k \in 2..Position(e), Accounted(e, k)
  PROVE  Accounted(e, k)'
<1>1. Position(e) \in Nat /\ k \in 1..Position(e) /\ k - 1 \in 1..Position(e)
  BY HistoryType
<1>2. ASSUME Restored(e, k) PROVE Restored(e, k)'
  <2>1. history'[e][k] = history[e][k] /\ history'[e][k - 1] = history[e][k - 1]
    BY <1>1 DEF HistoryGrows
  <2>2. ASSUME PutsBackWhatItRead(e, k) PROVE PutsBackWhatItRead(e, k)'
    <3>1. history[e][k].read \in 1..Position(e)
      BY <1>1, <2>2 DEF PutsBackWhatItRead
    <3> QED
      BY <2>1, <2>2, <3>1 DEF PutsBackWhatItRead, HistoryGrows, LogGrows
  <2> QED
    BY <1>2, <2>1, <2>2 DEF Restored
<1>3. ASSUME Logs(<<e, k>>) PROVE Logs(<<e, k>>)'
  BY <1>3 DEF Logs, Recorded, LogGrows
<1>4. ASSUME NEW a \in Admins, <<e, k>> \in request[a].writes
      PROVE  Accounted(e, k)'
  <2>1. \/ <<e, k>> \in request'[a].writes
        \/ Logs(<<e, k>>)'
        \/ Restored(e, k)
    BY <1>4 DEF KeepsTrack
  <2> QED
    BY <1>2, <2>1 DEF Accounted
<1> QED
  BY <1>2, <1>3, <1>4 DEF Accounted

LEMMA LogStays ==
  ASSUME TypeOK, UNCHANGED history, HistorySound, LogGrows, ChangesAreLogged,
         \A a \in Admins : KeepsTrack(a)
  PROVE  ChangesAreLogged'
<1>1. HistoryGrows
  BY ContentsStay
<1>2. \A e \in Entities : \A k \in 2..Position(e)' : Accounted(e, k)'
  BY <1>1, AccountedStays, AccountedMeansLogged DEF Position
<1> QED
  BY <1>2 DEF ChangesAreLogged, Accounted, Restored, Logs, Recorded

-------------------------------------------------------------------------------
(* The invariant's parts, put together again. *)

LEMMA TypeRebuilt ==
  ASSUME CounterTypeOK', history' \in [Entities -> Seq(Content)], MemorySound',
         permitted' \subseteq Admins, request' \in [Admins -> Request],
         events' \subseteq Event, unlogged' \subseteq Writes,
         \A a \in Admins : StageSound(a)' /\ WritesSound(a)'
  PROVE  TypeOK'
<1>1. ASSUME NEW a \in Admins
      PROVE  request'[a].pending \subseteq request'[a].targets
  BY DEF WritesSound, WriteSound, Changed
<1>2. \A a \in Admins : request'[a].stage = "queued" => Queued(a)'
  BY DEF StageSound
<1> QED
  BY <1>1, <1>2 DEF TypeOK, MemorySound

LEMMA Parts ==
  ASSUME IInv
  PROVE  /\ TypeOK /\ QueueSound /\ HistorySound /\ MemorySound
         /\ CounterInv /\ CounterTypeOK /\ QueueBudget
         /\ \A a \in Admins : /\ HeldSound(a) /\ RequestSound(a)
                              /\ StageSound(a) /\ AskedSound(a)
                              /\ SeenSound(a) /\ WritesSound(a)
                              /\ RecordSound(a)
         /\ EventsTellWrites /\ ChangesAreLogged
         /\ history \in [Entities -> Seq(Content)]
         /\ permitted \subseteq Admins
         /\ request \in [Admins -> Request]
         /\ events \subseteq Event
         /\ unlogged \subseteq Writes
BY DEF IInv, RequestSound, QueueSound, CounterInv, TypeOK

\* A request without writes has nothing to account for.
LEMMA EmptyHanded ==
  ASSUME NEW a \in Admins, request'[a].writes = {}, request'[a].pending = {},
         request'[a].stage \notin Working
  PROVE  SeenSound(a)' /\ WritesSound(a)' /\ RecordSound(a)'
BY DEF SeenSound, WritesSound, RecordSound, Working

LEMMA UntouchedKeepsTrack ==
  ASSUME NEW b \in Admins, request'[b].writes = request[b].writes
  PROVE  KeepsTrack(b)
BY DEF KeepsTrack

\* One request goes from one stage outside the queue to another.
LEMMA OutsideStep ==
  ASSUME IInv, NEW a \in Admins, NEW r \in Request,
         request' = [request EXCEPT ![a] = r],
         UNCHANGED <<counterVars, history, inForce, permitted>>, LogGrows,
         events' \subseteq Event, unlogged' \subseteq Writes, EventsTellWrites',
         request[a].stage \notin {"queued", "failed"},
         r.stage \notin {"queued", "failed"},
         r.writes # {} => r.stage = "record",
         r.pending # {} => r.stage = "record",
         KeepsTrack(a), HeldSound(a)', AskedSound(a)', SeenSound(a)',
         WritesSound(a)', RecordSound(a)'
  PROVE  IInv'
<1>1. /\ TypeOK /\ QueueSound /\ HistorySound /\ CounterInv /\ CounterTypeOK
      /\ request \in [Admins -> Request]
      /\ \A b \in Admins : HeldSound(b) /\ RequestSound(b) /\ StageSound(b)
      /\ writeQueue \in Seq(Admins)
  BY Parts DEF CounterTypeOK
<1>2. HistoryGrows /\ HistorySound' /\ MemorySound'
  BY <1>1, ContentsStay, MemoryStays, Parts
<1>3. request'[a] = r /\ \A b \in Admins \ {a} : request'[b] = request[b]
  BY <1>1
<1>4. QueueSound'
  <2>1. ASSUME NEW k \in DOMAIN writeQueue, writeQueue[k] = a PROVE FALSE
    BY <1>1, <2>1 DEF QueueSound
  <2>2. \A k \in DOMAIN writeQueue :
          request'[writeQueue[k]] = request[writeQueue[k]]
    BY <1>1, <1>3, <2>1
  <2>3. CounterInv'
    BY <1>1 DEF CounterInv, CounterTypeOK, QueueBudget, counterVars
  <2> QED
    BY <1>1, <2>2, <2>3 DEF QueueSound, counterVars
<1>5. ASSUME NEW b \in Admins PROVE StageSound(b)'
  BY <1>1, <1>3 DEF StageSound, MayHaveWritten, Queued, counterVars
<1>6. ASSUME NEW b \in Admins, b # a
      PROVE  /\ HeldSound(b)' /\ AskedSound(b)' /\ SeenSound(b)'
             /\ WritesSound(b)' /\ RecordSound(b)' /\ KeepsTrack(b)
  <2>1. Untouched(b)
    BY <1>3, <1>6 DEF Untouched
  <2>2. HeldSound(b)'
    BY <1>1, <1>3, <1>6 DEF HeldSound
  <2> QED
    BY <1>1, <1>2, <2>1, <2>2, RequestStays, UntouchedKeepsTrack DEF Untouched
<1>7. ChangesAreLogged'
  BY <1>1, <1>6, LogStays, Parts
<1>8. TypeOK'
  <2>1. request' \in [Admins -> Request]
    BY <1>1
  <2>2. CounterTypeOK' /\ history' \in [Entities -> Seq(Content)]
    BY <1>4, Parts DEF QueueSound, CounterInv
  <2> QED
    BY <1>2, <1>5, <1>6, <2>1, <2>2, TypeRebuilt, Parts
<1> QED
  BY <1>2, <1>4, <1>5, <1>6, <1>7, <1>8 DEF IInv, RequestSound

-------------------------------------------------------------------------------
(* Permissions and requests outside the queue. *)

\* A request that ends without a write, or is let go with its writes logged.
LEMMA ReturnsToIdle ==
  ASSUME IInv, NEW a \in Admins, request' = [request EXCEPT ![a] = Idle],
         UNCHANGED <<counterVars, history, inForce, permitted>>, LogGrows,
         events' \subseteq Event, unlogged' \subseteq Writes, EventsTellWrites',
         request[a].stage \notin {"queued", "failed"}, KeepsTrack(a)
  PROVE  IInv'
<1>1. /\ Idle \in Request /\ Idle.stage = "idle"
      /\ Idle.writes = {} /\ Idle.pending = {}
  BY DEF Idle, Request, Stages, Kinds, NothingRead
<1>2. request'[a] = Idle
  BY Parts
<1>3. AskedSound(a)' /\ HeldSound(a)'
  BY <1>1, <1>2 DEF AskedSound, HeldSound, Working
<1>4. SeenSound(a)' /\ WritesSound(a)' /\ RecordSound(a)'
  BY <1>1, <1>2, EmptyHanded DEF Working
<1> QED
  BY <1>1, <1>3, <1>4, OutsideStep

LEMMA NothingLogged ==
  ASSUME IInv, UNCHANGED <<history, auditVars>>
  PROVE  /\ LogGrows /\ events' \subseteq Event /\ unlogged' \subseteq Writes
         /\ EventsTellWrites' /\ HistoryGrows /\ HistorySound'
BY Parts, ContentsStay, EventsStay DEF LogGrows, auditVars

LEMMA NoWritesToKeep ==
  ASSUME IInv, NEW a \in Admins, request[a].stage \notin {"queued", "record"}
  PROVE  request[a].writes = {} /\ request[a].pending = {} /\ KeepsTrack(a)
BY Parts DEF StageSound, MayHaveWritten, KeepsTrack

LEMMA SetPermissionStep ==
  ASSUME IInv, NEW a \in Admins, SetPermission(a)
  PROVE  IInv'
<1>1. /\ UNCHANGED <<counterVars, history, inForce, auditVars>>
      /\ request' = [request EXCEPT ![a].held =
                       request[a].held \/ (request[a] # Idle /\ a \in permitted')]
      /\ permitted' \subseteq Admins
      /\ \A b \in Admins \ {a} : b \in permitted' <=> b \in permitted
  BY Parts DEF SetPermission
<1>2. \A b \in Admins : Untouched(b)
  BY <1>1, Parts DEF Untouched, Request
<1>3. /\ request'[a].held = (\/ request[a].held
                             \/ request[a] # Idle /\ a \in permitted')
      /\ \A b \in Admins \ {a} : request'[b] = request[b]
  BY <1>1, Parts DEF Request
<1>4. \A b \in Admins : HeldSound(b)'
  <2>1. Idle.stage = "idle"
    BY DEF Idle
  <2>2. HeldSound(a)'
    BY <1>2, <1>3, <2>1, Parts DEF HeldSound, Untouched
  <2>3. ASSUME NEW b \in Admins \ {a} PROVE HeldSound(b)'
    BY <1>1, <1>3, Parts DEF HeldSound
  <2> QED
    BY <2>2, <2>3
<1>5. QueueSound'
  <2>1. \A k \in DOMAIN writeQueue :
          request'[writeQueue[k]].stage = request[writeQueue[k]].stage
    BY <1>2, Parts DEF CounterTypeOK, Untouched
  <2>2. CounterInv'
    BY <1>1, Parts DEF CounterInv, CounterTypeOK, QueueBudget, counterVars
  <2> QED
    BY <1>1, <2>1, <2>2, Parts DEF QueueSound, counterVars
<1>6. \A b \in Admins : StageSound(b)'
  BY <1>1, <1>2, Parts DEF StageSound, MayHaveWritten, Queued, counterVars,
                           Untouched
<1>7. /\ LogGrows /\ events' \subseteq Event /\ unlogged' \subseteq Writes
      /\ EventsTellWrites' /\ HistoryGrows /\ HistorySound' /\ MemorySound'
  BY <1>1, NothingLogged, Parts, MemoryStays
<1>8. \A b \in Admins : /\ AskedSound(b)' /\ SeenSound(b)' /\ WritesSound(b)'
                        /\ RecordSound(b)'
  BY <1>2, <1>7, RequestStays, Parts
<1>9. ChangesAreLogged'
  BY <1>1, <1>2, <1>7, UntouchedKeepsTrack, LogStays, Parts DEF Untouched
<1>10. TypeOK'
  <2>1. request' \in [Admins -> Request]
    <3>1. [request[a] EXCEPT !.held = request[a].held
             \/ (request[a] # Idle /\ a \in permitted')] \in Request
      BY Parts DEF Request
    <3> QED
      BY <1>1, <3>1, Parts
  <2>2. CounterTypeOK' /\ history' \in [Entities -> Seq(Content)]
    BY <1>1, <1>5, Parts DEF QueueSound, CounterInv
  <2> QED
    BY <1>1, <1>6, <1>7, <1>8, <2>1, <2>2, TypeRebuilt
<1> QED
  BY <1>4, <1>5, <1>6, <1>7, <1>8, <1>9, <1>10 DEF IInv, RequestSound

LEMMA ArrivesStep ==
  ASSUME IInv, NEW a \in Admins, Arrives(a)
  PROVE  IInv'
<1> DEFINE r == [Idle EXCEPT !.stage = "authorize", !.held = a \in permitted]
<1>1. /\ UNCHANGED <<counterVars, history, inForce, permitted, auditVars>>
      /\ request[a] = Idle
      /\ request' = [request EXCEPT ![a] = r]
  BY DEF Arrives
<1>2. r \in Request
  <2>1. Idle \in Request
    BY <1>1, Parts
  <2>2. ASSUME NEW h \in BOOLEAN
        PROVE  [Idle EXCEPT !.stage = "authorize", !.held = h] \in Request
    BY <2>1 DEF Request, Stages
  <2>3. (a \in permitted) \in BOOLEAN
    OBVIOUS
  <2> QED
    BY <2>2, <2>3, Zenon
<1>3. /\ r.stage = "authorize" /\ r.writes = {} /\ r.pending = {}
      /\ r.held = (a \in permitted)
      /\ Idle.stage = "idle"
  BY DEF Idle
<1>4. KeepsTrack(a)
  BY <1>1, <1>3, NoWritesToKeep
<1> HIDE DEF r
<1>5. request'[a] = r
  BY <1>1, Parts
<1>6. AskedSound(a)' /\ HeldSound(a)'
  BY <1>1, <1>3, <1>5 DEF AskedSound, HeldSound, Working
<1>7. SeenSound(a)' /\ WritesSound(a)' /\ RecordSound(a)'
  BY <1>3, <1>5, EmptyHanded DEF Working
<1> QED
  BY <1>1, <1>2, <1>3, <1>4, <1>6, <1>7, NothingLogged, OutsideStep

LEMMA RefusedStep ==
  ASSUME IInv, NEW a \in Admins, Forbidden(a) \/ FindFails(a)
  PROVE  IInv'
<1>1. /\ UNCHANGED <<counterVars, history, inForce, permitted, auditVars>>
      /\ request[a].stage \in {"authorize", "find"}
      /\ request' = [request EXCEPT ![a] = Idle]
  BY DEF Forbidden, FindFails
<1> QED
  BY <1>1, NothingLogged, NoWritesToKeep, ReturnsToIdle

LEMMA UpdateItemStep ==
  ASSUME IInv, NEW a \in Admins, UpdateItem(a)
  PROVE  IInv'
<1>1. PICK i \in Items, v \in Values :
        request' = [request EXCEPT ![a].stage = "find", ![a].kind = "update",
                                   ![a].targets = {i}, ![a].value = v]
  BY DEF UpdateItem, Known
<1> DEFINE r == [request[a] EXCEPT !.stage = "find", !.kind = "update",
                                   !.targets = {i}, !.value = v]
<1>2. /\ UNCHANGED <<counterVars, history, inForce, permitted, auditVars>>
      /\ request[a].stage = "authorize" /\ a \in permitted
      /\ request' = [request EXCEPT ![a] = r]
  BY <1>1, Parts DEF UpdateItem, Permitted
<1>3. /\ r \in Request /\ r.stage = "find" /\ r.kind = "update"
      /\ r.targets = {i} /\ r.value = v /\ r.held = request[a].held
      /\ r.writes = request[a].writes /\ r.pending = request[a].pending
  BY Parts DEF Request, Stages, Kinds, Entities
<1>4. r.writes = {} /\ r.pending = {} /\ KeepsTrack(a)
  BY <1>2, <1>3, NoWritesToKeep
<1> HIDE DEF r
<1>5. request'[a] = r
  BY <1>2, Parts
<1>6. AskedSound(a)' /\ HeldSound(a)'
  BY <1>2, <1>3, <1>5, Parts, ItemsAssumption
  DEF AskedSound, HeldSound, Working, Deletes
<1>7. SeenSound(a)' /\ WritesSound(a)' /\ RecordSound(a)'
  BY <1>3, <1>4, <1>5, EmptyHanded DEF Working
<1> QED
  BY <1>2, <1>3, <1>4, <1>6, <1>7, NothingLogged, OutsideStep

-------------------------------------------------------------------------------
(* Recording. *)

\* A write that is not logged because it changed nothing the handler knows.
LEMMA UnchangedIsRestored ==
  ASSUME TypeOK, NEW a \in Admins, request[a].stage \in Working, SeenSound(a),
         NEW w \in Writes, WriteSound(a, w),
         Previous(request[a], w[1]) = request[a].value
  PROVE  Restored(w[1], w[2])
<1>1. /\ w[1] \in Entities /\ w[2] \in 2..Position(w[1])
      /\ Position(w[1]) \in Nat /\ w[1] \in request[a].targets
  BY RequestType, HistoryType DEF WriteSound
<1>2. request[a].kind # "create"
  BY RequestType, ValuesAssumption DEF Previous
<1>3. PICK j \in 1..(w[2] - 1) :
        request[a].read[w[1]] = j /\ (j = w[2] - 1 \/ request[a].kind \in Early)
  BY <1>1, <1>2 DEF WriteSound, HasSeen
<1>4. history[w[1]][j].value = history[w[1]][w[2]].value
  BY <1>2, <1>3 DEF WriteSound, Previous
<1>5. CASE j = w[2] - 1
  BY <1>4, <1>5 DEF Restored
<1>6. CASE j # w[2] - 1
  <2>1. request[a].kind \in {"update", "setting"} /\ request[a].kind \in Early
    BY <1>2, <1>3, <1>6 DEF Early
  <2>2. ReadSound(a, w[1])
    BY <1>1, <2>1 DEF SeenSound
  <2>3. /\ history[w[1]][w[2]].read = j
        /\ history[w[1]][w[2]].since = request[a].since[w[1]]
    BY <1>3 DEF WriteSound
  <2>4. j \in 1..(w[2] - 2)
    BY <1>1, <1>3, <1>6
  <2> QED
    BY <1>3, <1>4, <2>1, <2>2, <2>3, <2>4
    DEF Restored, PutsBackWhatItRead, ReadSound
<1> QED
  BY <1>5, <1>6

\* What an event on its way is about.
LEMMA PendingWrite ==
  ASSUME IInv, NEW a \in Admins, NEW e \in request[a].pending
  PROVE  /\ request[a].stage = "record"
         /\ WriteOf(request[a], e) \in request[a].writes
         /\ WriteOf(request[a], e) \in Writes
         /\ WriteOf(request[a], e)[1] = e
         /\ WriteSound(a, WriteOf(request[a], e))
         /\ \A v \in request[a].writes : v[1] = e => v = WriteOf(request[a], e)
<1>1. PICK v \in request[a].writes : v[1] = e
  BY Parts DEF WritesSound, Changed
<1>2. /\ WriteOf(request[a], e) \in request[a].writes
      /\ WriteOf(request[a], e)[1] = e
  BY <1>1 DEF WriteOf
<1> QED
  BY <1>2, Parts, RequestType DEF WritesSound, StageSound

\* One event less to wait for.
LEMMA SettledStep ==
  ASSUME IInv, NEW a \in Admins, NEW e \in request[a].pending, Settled(a, e),
         UNCHANGED <<counterVars, history, inForce, permitted>>, LogGrows,
         events' \subseteq Event, unlogged' \subseteq Writes, EventsTellWrites',
         NEW logged \in Writes, logged = WriteOf(request[a], e), Logs(logged)'
  PROVE  IInv'
<1>1. request[a].stage = "record" /\ request[a] \in Request
  BY PendingWrite, Parts
<1>2. HistoryGrows
  BY ContentsStay, Parts
<1>3. ASSUME NEW w \in request[a].writes
      PROVE  \/ w[1] \in request[a].pending \ {e}
             \/ Logs(w)'
             \/ Previous(request[a], w[1]) = request[a].value
  <2>1. \/ w[1] \in request[a].pending
        \/ Logs(w)
        \/ Previous(request[a], w[1]) = request[a].value
    BY <1>1, Parts DEF RecordSound, Logs
  <2>2. CASE w[1] = e
    BY <2>2, PendingWrite
  <2>3. CASE Logs(w)
    BY <2>3 DEF Logs, Recorded, LogGrows
  <2> QED
    BY <2>1, <2>2, <2>3
<1>4. CASE request[a].pending = {e}
  <2>1. KeepsTrack(a)
    <3>1. ASSUME NEW w \in request[a].writes
          PROVE  Logs(w)' \/ Restored(w[1], w[2])
      BY <1>1, <1>3, <1>4, UnchangedIsRestored, Parts, RequestType
      DEF WritesSound, Working
    <3> QED
      BY <3>1 DEF KeepsTrack
  <2>2. request' = [request EXCEPT ![a] = Idle]
    BY <1>4 DEF Settled
  <2> QED
    BY <1>1, <2>1, <2>2, ReturnsToIdle
<1>5. CASE request[a].pending # {e}
  <2> DEFINE r == [request[a] EXCEPT !.pending = request[a].pending \ {e}]
  <2>1. request' = [request EXCEPT ![a] = r]
    BY <1>1, <1>5, Parts DEF Settled, Request
  <2>2. /\ r \in Request /\ r.stage = "record" /\ r.kind = request[a].kind
        /\ r.targets = request[a].targets /\ r.value = request[a].value
        /\ r.read = request[a].read /\ r.since = request[a].since
        /\ r.writes = request[a].writes
        /\ r.pending = request[a].pending \ {e} /\ r.held = request[a].held
    BY <1>1 DEF Request
  <2> HIDE DEF r
  <2>3. request'[a] = r
    BY <2>1, Parts
  <2>4. AskedSound(a)' /\ HeldSound(a)'
    BY <1>1, <2>2, <2>3, Parts DEF AskedSound, HeldSound
  <2>5. SeenSound(a)'
    <3>1. ASSUME NEW x \in request[a].targets, request[a].kind \in Early
          PROVE  HasSeen(a, x, Position(x))' /\ ReadSound(a, x)'
      <4>1. /\ HasSeen(a, x, Position(x)) /\ ReadSound(a, x) /\ x \in Entities
        BY <1>1, <3>1, Parts, RequestType DEF SeenSound, Working
      <4>2. ReadSound(a, x)'
        BY <2>2, <2>3, <4>1, ReadStays
      <4> QED
        BY <2>2, <2>3, <4>1, <4>2 DEF HasSeen, Position
    <3> QED
      BY <2>2, <2>3, <3>1 DEF SeenSound
  <2>6. WritesSound(a)'
    <3>1. ASSUME NEW w \in request[a].writes PROVE WriteSound(a, w)'
      BY <1>2, <2>2, <2>3, Parts, RequestType, WriteStays DEF WritesSound
    <3> QED
      BY <2>2, <2>3, <3>1, Parts DEF WritesSound, Changed
  <2>7. RecordSound(a)'
    <3>1. \A x \in Entities : Previous(request[a], x)' = Previous(r, x)
      BY <2>3 DEF Previous
    <3>2. \A x \in Entities : Previous(r, x) = Previous(request[a], x)
      BY <2>2 DEF Previous
    <3>3. ASSUME NEW w \in request[a].writes
          PROVE  \/ w[1] \in request'[a].pending
                 \/ w \in unlogged' \/ Recorded(w)'
                 \/ Previous(r, w[1]) = r.value
      BY <1>3, <2>2, <2>3, <3>2, Parts DEF Logs, WritesSound, WriteSound, Previous
    <3> QED
      BY <2>2, <2>3, <3>3 DEF RecordSound, Previous
  <2>8. KeepsTrack(a)
    BY <2>2, <2>3, UntouchedKeepsTrack
  <2> QED
    BY <1>1, <2>1, <2>2, <2>4, <2>5, <2>6, <2>7, <2>8, OutsideStep
<1> QED
  BY <1>4, <1>5

LEMMA RecordFailsStep ==
  ASSUME IInv, NEW a \in Admins, NEW e \in Entities, RecordFails(a, e)
  PROVE  IInv'
<1>1. /\ e \in request[a].pending
      /\ unlogged' = unlogged \union {WriteOf(request[a], e)}
      /\ Settled(a, e)
      /\ UNCHANGED <<counterVars, history, inForce, permitted, events>>
  BY DEF RecordFails
<1>2. PICK w \in Writes : w = WriteOf(request[a], e)
  BY <1>1, PendingWrite
<1>3. /\ LogGrows /\ events' \subseteq Event /\ unlogged' \subseteq Writes
      /\ Logs(w)'
  BY <1>1, <1>2, Parts DEF LogGrows, Logs
<1>4. EventsTellWrites'
  BY <1>1, EventsStay, ContentsStay, Parts
<1> QED
  BY <1>1, <1>2, <1>3, <1>4, SettledStep

LEMMA RecordEventStep ==
  ASSUME IInv, NEW a \in Admins, NEW e \in Entities, RecordEvent(a, e)
  PROVE  IInv'
<1>1. /\ e \in request[a].pending
      /\ Settled(a, e)
      /\ UNCHANGED <<counterVars, history, inForce, permitted, unlogged>>
  BY DEF RecordEvent
<1>2. PICK w \in Writes : w = WriteOf(request[a], e)
  BY <1>1, PendingWrite
<1>3. /\ request[a].stage = "record" /\ w \in request[a].writes
      /\ w[1] = e /\ WriteSound(a, w)
  BY <1>1, <1>2, PendingWrite
<1>4. /\ w[2] \in 2..Position(e) /\ Position(e) \in Nat
      /\ w[2] \in 1..Position(e)
      /\ history[e][w[2]].value = request[a].value
      /\ history[e][w[2]].by = a
      /\ history[e][w[2]] \in Content
      /\ history[e][w[2]].version \in 0..MaxVersion
  BY <1>3, HistoryType, Parts DEF WriteSound
<1>5. PICK j \in 1..(w[2] - 1) :
        /\ history[e][j].value \in Values \union {Absent}
        /\ Previous(request[a], e) = history[e][j].value
        /\ j = w[2] - 1 \/ request[a].kind \in Early
  <2>1. PICK j \in 1..(w[2] - 1) :
          /\ history[e][j].value \in Values \union {Absent}
          /\ IF request[a].kind = "create" THEN history[e][j].value = Absent
                                           ELSE request[a].read[e] = j
          /\ j = w[2] - 1 \/ request[a].kind \in Early
    BY <1>3 DEF WriteSound, HasSeen
  <2> QED
    BY <2>1 DEF Previous
<1> DEFINE batch == request[a].kind \in {"bulkUpdate", "bulkDelete"}
           row == [entity |-> e, previous |-> Previous(request[a], e),
                   new |-> request[a].value,
                   version |-> history[e][w[2]].version, admin |-> a,
                   batch |-> batch, write |-> w]
<1>6. events' = events \union {row}
  BY <1>2 DEF RecordEvent
<1>7. row \in Event
  BY <1>4, <1>5, Parts, RequestType DEF Event
<1>8. EventTrue(row)
  <2>2. request[a].kind \in Early =>
          /\ request[a].kind \notin {"bulkUpdate", "bulkDelete"}
          /\ request[a].value # Deleted
    BY <1>3, Parts, ValuesAssumption
    DEF Early, AskedSound, Working, Deletes
  <2>3. j = w[2] - 1 \/ (~row.batch /\ row.new # Deleted)
    BY <1>5, <2>2
  <2> QED
    BY <1>4, <1>5, <2>3 DEF EventTrue, Position
<1> HIDE DEF row
<1>9. EventsTellWrites'
  <2>1. HistoryGrows
    BY <1>1, ContentsStay, Parts
  <2>2. \A x \in events' : x \in Event /\ EventTrue(x)
    BY <1>6, <1>7, <1>8, Parts DEF EventsTellWrites, EventTrue
  <2>3. \A x \in events' : EventTrue(x)'
    BY <2>1, <2>2, EventStays, Parts
  <2> QED
    BY <2>3 DEF EventsTellWrites, EventTrue
<1>10. row.write = w
  BY DEF row
<1>11. /\ LogGrows /\ events' \subseteq Event /\ unlogged' \subseteq Writes
       /\ Logs(w)'
  BY <1>1, <1>6, <1>7, <1>10, Parts DEF LogGrows, Logs, Recorded
<1> QED
  BY <1>1, <1>2, <1>9, <1>11, SettledStep

-------------------------------------------------------------------------------
(* Into the queue. *)

LEMMA EnqueueStep ==
  ASSUME IInv, NEW a \in Admins, NEW r \in Request, Enqueue(a),
         request' = [request EXCEPT ![a] = r],
         UNCHANGED <<history, inForce, permitted, auditVars>>,
         request[a].stage \in {"authorize", "find"},
         r.stage = "queued", r.writes = {}, r.pending = {}, r.held,
         AskedSound(a)', SeenSound(a)'
  PROVE  IInv'
<1>1. /\ writeQueue \in Seq(Admins) /\ Len(writeQueue) \in Nat
      /\ request \in [Admins -> Request] /\ CounterInv
  BY Parts DEF CounterTypeOK
<1>2. /\ writeQueue' = Append(writeQueue, a) /\ ~Queued(a)
      /\ UNCHANGED <<committedVersion, appVersion, phase>>
  BY DEF Enqueue
<1>3. CounterInv' /\ CounterTypeOK'
  BY <1>1, CounterKeeps DEF CounterInv
<1>4. request'[a] = r /\ \A b \in Admins \ {a} : request'[b] = request[b]
  BY <1>1
<1>5. /\ DOMAIN writeQueue' = 1..(Len(writeQueue) + 1)
      /\ DOMAIN writeQueue = 1..Len(writeQueue)
      /\ writeQueue'[Len(writeQueue) + 1] = a
      /\ \A k \in 1..Len(writeQueue) : /\ writeQueue'[k] = writeQueue[k]
                                       /\ writeQueue[k] \in Admins \ {a}
  BY <1>1, <1>2 DEF Queued
<1>6. QueueSound'
  <2>1. \A j, k \in DOMAIN writeQueue' : writeQueue'[j] = writeQueue'[k] => j = k
    BY <1>1, <1>5, Parts DEF QueueSound
  <2>2. ASSUME NEW k \in DOMAIN writeQueue'
        PROVE  \/ request'[writeQueue'[k]].stage = "queued"
               \/ /\ request'[writeQueue'[k]].stage = "failed"
                  /\ k = 1
                  /\ phase' \in {"save", "commit"}
    <3>1. CASE k \in DOMAIN writeQueue
      BY <1>2, <1>4, <1>5, <3>1, Parts DEF QueueSound
    <3>2. CASE k = Len(writeQueue) + 1
      BY <1>4, <1>5, <3>2
    <3> QED
      BY <1>1, <1>5, <3>1, <3>2
  <2> QED
    BY <1>3, <2>1, <2>2 DEF QueueSound
<1>7. ASSUME NEW b \in Admins PROVE StageSound(b)'
  <2>1. CASE b = a
    BY <1>1, <1>4, <1>5, <2>1 DEF StageSound, Queued
  <2>2. CASE b # a
    <3>1. StageSound(b) /\ request'[b] = request[b]
      BY <1>4, <2>2, Parts
    <3>2. Queued(b) => Queued(b)'
      BY <1>1, <1>5 DEF Queued
    <3>3. MayHaveWritten(b) => MayHaveWritten(b)'
      <4>1. phase \in {"save", "commit"} => Head(writeQueue') = Head(writeQueue)
        BY <1>1, <1>2, <1>5, Parts DEF QueueBudget
      <4> QED
        BY <1>2, <3>1, <4>1 DEF MayHaveWritten
    <3> QED
      BY <3>1, <3>2, <3>3 DEF StageSound
  <2> QED
    BY <2>1, <2>2
<1>8. /\ LogGrows /\ events' \subseteq Event /\ unlogged' \subseteq Writes
      /\ EventsTellWrites' /\ HistoryGrows /\ HistorySound' /\ MemorySound'
  BY NothingLogged, Parts, MemoryStays
<1>9. ASSUME NEW b \in Admins
      PROVE  /\ HeldSound(b)' /\ AskedSound(b)' /\ SeenSound(b)'
             /\ WritesSound(b)' /\ RecordSound(b)' /\ KeepsTrack(b)
  <2>1. CASE b = a
    <3>1. HeldSound(a)' /\ WritesSound(a)' /\ RecordSound(a)'
      BY <1>4 DEF HeldSound, WritesSound, RecordSound
    <3> QED
      BY <2>1, <3>1, NoWritesToKeep
  <2>2. CASE b # a
    <3>1. Untouched(b) /\ HeldSound(b)'
      BY <1>4, <2>2, Parts DEF Untouched, HeldSound
    <3> QED
      BY <1>8, <3>1, RequestStays, UntouchedKeepsTrack, Parts DEF Untouched
  <2> QED
    BY <2>1, <2>2
<1>10. ChangesAreLogged'
  BY <1>8, <1>9, LogStays, Parts
<1>11. TypeOK'
  BY <1>1, <1>3, <1>7, <1>8, <1>9, TypeRebuilt, Parts
<1> QED
  BY <1>6, <1>7, <1>8, <1>9, <1>10, <1>11 DEF IInv, RequestSound

\* What a handler has to know when it asks for a write.
LEMMA QueueStep ==
  ASSUME IInv, NEW a \in Admins, NEW kind \in Kinds,
         NEW targets \in SUBSET Entities, NEW value \in Values \union {Deleted},
         NEW read \in [Entities -> Nat], NEW since \in [Entities -> Nat],
         Queue(a, kind, targets, value, read, since),
         IF kind \in Deletes THEN value = Deleted ELSE value \in Values,
         Site \in targets => kind = "setting",
         kind = "setting" => targets = {Site},
         kind \in {"update", "setting"} =>
           \A e \in targets : /\ read[e] <= since[e]
                              /\ \A j \in (read[e] + 1)..since[e] :
                                   <<e, j>> \in unlogged,
         kind \in Early =>
           \A e \in targets : \E j \in 1..Position(e) :
             /\ history[e][j].value \in Values \union {Absent}
             /\ IF kind = "create" THEN history[e][j].value = Absent
                                   ELSE read[e] = j
  PROVE  IInv'
<1> DEFINE r == [request[a] EXCEPT !.stage = "queued", !.kind = kind,
                                   !.targets = targets, !.value = value,
                                   !.read = read, !.since = since]
<1>1. /\ Enqueue(a) /\ request[a].stage = "authorize" /\ a \in permitted
      /\ UNCHANGED <<history, inForce, permitted, auditVars>>
      /\ request' = [request EXCEPT ![a] = r]
  BY Parts DEF Queue, Permitted
<1>2. /\ r \in Request /\ r.stage = "queued" /\ r.kind = kind
      /\ r.targets = targets /\ r.value = value
      /\ r.read = read /\ r.since = since
      /\ r.writes = request[a].writes /\ r.pending = request[a].pending
      /\ r.held = request[a].held
  <2>1. request[a] \in Request
    BY Parts
  <2>2. r \in Request
    BY <2>1 DEF Request, Stages
  <2> QED
    BY <2>1, <2>2 DEF Request
<1>3. r.writes = {} /\ r.pending = {} /\ r.held
  <2>1. request[a].writes = {} /\ request[a].pending = {}
    BY <1>1, NoWritesToKeep
  <2>2. request[a].held
    BY <1>1, Parts DEF HeldSound
  <2> QED
    BY <1>2, <2>1, <2>2
<1> HIDE DEF r
<1>4. request'[a] = r
  BY <1>1, Parts
<1>5. AskedSound(a)'
  BY <1>2, <1>4 DEF AskedSound
<1>6. SeenSound(a)'
  <2>1. ASSUME NEW e \in targets, kind \in Early
        PROVE  HasSeen(a, e, Position(e))' /\ ReadSound(a, e)'
    BY <1>1, <1>2, <1>4, <2>1 DEF HasSeen, Position, ReadSound, auditVars
  <2> QED
    BY <1>2, <1>4, <2>1 DEF SeenSound
<1> QED
  BY <1>1, <1>2, <1>3, <1>5, <1>6, EnqueueStep

LEMMA PositionsRead ==
  ASSUME IInv, NEW targets \in SUBSET Entities
  PROVE  /\ Positions(targets) \in [Entities -> Nat]
         /\ \A e \in targets : /\ Positions(targets)[e] = Position(e)
                               /\ Position(e) \in Nat /\ Position(e) >= 1
BY Parts, HistoryType DEF Positions, HistorySound

LEMMA SettingsRead ==
  ASSUME IInv
  PROVE  /\ [NothingRead EXCEPT ![Site] = inForce] \in [Entities -> Nat]
         /\ [NothingRead EXCEPT ![Site] = inForce][Site] = inForce
         /\ Positions({Site}) \in [Entities -> Nat]
         /\ Positions({Site})[Site] = Position(Site)
<1>1. Site \in Entities /\ inForce \in Nat
  BY Parts DEF Entities, TypeOK
<1>2. /\ Positions({Site}) \in [Entities -> Nat]
      /\ \A e \in {Site} : Positions({Site})[e] = Position(e)
  <2>1. {Site} \in SUBSET Entities
    BY <1>1
  <2> QED
    BY <2>1, PositionsRead
<1> QED
  BY <1>1, <1>2 DEF NothingRead

LEMMA HandlerStep ==
  ASSUME IInv, NEW a \in Admins,
         \/ CreateItem(a) \/ BulkUpdateItems(a) \/ DeleteItem(a)
         \/ BulkDeleteItems(a) \/ UpdateSettings(a)
  PROVE  IInv'
<1>1. /\ Items \subseteq Entities /\ Site \in Entities
      /\ NothingRead \in [Entities -> Nat]
      /\ Known \subseteq Items
  BY DEF Entities, NothingRead, Known
<1> USE ItemsAssumption, QueueStep DEF Deletes, Early, Kinds
<1>2. CASE CreateItem(a)
  <2>1. PICK i \in Items, v \in Values :
          /\ Stored(i) = Absent
          /\ Queue(a, "create", {i}, v, NothingRead, NothingRead)
    BY <1>2 DEF CreateItem
  <2>2. Position(i) \in 1..Position(i) /\ history[i][Position(i)].value = Absent
    BY <1>1, <2>1, Parts, HistoryType DEF HistorySound, Stored
  <2>3. \A e \in {i} : \E j \in 1..Position(e) : history[e][j].value = Absent
    BY <2>2
  <2> QED
    BY <1>1, <2>1, <2>3
<1>3. CASE BulkUpdateItems(a)
  BY <1>1, <1>3 DEF BulkUpdateItems
<1>4. CASE DeleteItem(a)
  BY <1>1, <1>4 DEF DeleteItem
<1>5. CASE BulkDeleteItems(a)
  BY <1>1, <1>5 DEF BulkDeleteItems
<1>6. CASE UpdateSettings(a)
  <2> DEFINE read == [NothingRead EXCEPT ![Site] = inForce]
             since == Positions({Site})
  <2>1. PICK v \in Values : Queue(a, "setting", {Site}, v, read, since)
    BY <1>6 DEF UpdateSettings
  <2>2. /\ inForce \in 1..Position(Site) /\ Position(Site) \in Nat
        /\ \A j \in (inForce + 1)..Position(Site) : <<Site, j>> \in unlogged
    BY <1>1, HistoryType, Parts DEF MemorySound
  <2>3. /\ read \in [Entities -> Nat] /\ read[Site] = inForce
        /\ since \in [Entities -> Nat] /\ since[Site] = Position(Site)
    BY SettingsRead
  <2>4. history[Site][inForce].value \in Values
    BY <2>2, Parts DEF HistorySound
  <2> HIDE DEF read, since
  <2>5. \A e \in {Site} : \E j \in 1..Position(e) :
          history[e][j].value \in Values \union {Absent} /\ read[e] = j
    BY <2>2, <2>3, <2>4
  <2>6. \A e \in {Site} : /\ read[e] <= since[e]
                          /\ \A j \in (read[e] + 1)..since[e] :
                               <<e, j>> \in unlogged
    BY <2>2, <2>3
  <2> QED
    BY <1>1, <2>1, <2>3, <2>5, <2>6
<1> QED
  BY <1>2, <1>3, <1>4, <1>5, <1>6

LEMMA FindPreviousStep ==
  ASSUME IInv, NEW a \in Admins, FindPrevious(a)
  PROVE  IInv'
<1> DEFINE r == [request[a] EXCEPT !.stage = "queued",
                                   !.read = Positions(request[a].targets),
                                   !.since = Positions(request[a].targets)]
<1>1. /\ Enqueue(a) /\ request[a].stage = "find"
      /\ UNCHANGED <<history, inForce, permitted, auditVars>>
      /\ request' = [request EXCEPT ![a] = r]
  BY Parts DEF FindPrevious
<1>2. /\ r \in Request /\ r.stage = "queued" /\ r.kind = request[a].kind
      /\ r.targets = request[a].targets /\ r.value = request[a].value
      /\ r.read = Positions(request[a].targets) /\ r.since = r.read
      /\ r.writes = request[a].writes /\ r.pending = request[a].pending
      /\ r.held = request[a].held
  <2>1. /\ request[a].targets \subseteq Entities
        /\ Positions(request[a].targets) \in [Entities -> Nat]
    BY Parts, RequestType, PositionsRead
  <2> QED
    BY <2>1, Parts DEF Request, Stages
<1>3. r.writes = {} /\ r.pending = {} /\ r.held
  BY <1>1, <1>2, NoWritesToKeep, Parts DEF HeldSound
<1> HIDE DEF r
<1>4. request'[a] = r
  BY <1>1, Parts
<1>5. AskedSound(a)'
  BY <1>1, <1>2, <1>4, Parts DEF AskedSound
<1>6. SeenSound(a)'
  <2>1. ASSUME NEW e \in request[a].targets
        PROVE  HasSeen(a, e, Position(e))' /\ ReadSound(a, e)'
    <3>1. /\ e \in Entities /\ r.read[e] = Position(e)
          /\ Position(e) \in 1..Position(e)
      BY <1>2, Parts, RequestType, PositionsRead
    <3>2. history[e][Position(e)].value \in Values
      BY <1>1 DEF FindPrevious, Live, Stored
    <3>3. request[a].kind = "update"
      BY <1>1, Parts DEF AskedSound
    <3>4. ReadSound(a, e)'
      BY <1>2, <1>4, <3>1 DEF ReadSound
    <3> QED
      BY <1>1, <1>2, <1>4, <3>1, <3>2, <3>3, <3>4 DEF HasSeen, Position
  <2> QED
    BY <1>2, <1>4, <2>1 DEF SeenSound
<1> QED
  BY <1>1, <1>2, <1>3, <1>5, <1>6, EnqueueStep

-------------------------------------------------------------------------------
(* At the head of the queue. *)

\* Steps of the counter that no request notices.
LEMMA QuietStep ==
  ASSUME IInv, UNCHANGED <<writeQueue, history, permitted, request, auditVars>>,
         CounterInv', MemorySound',
         phase \in {"save", "commit"} => phase' \in {"save", "commit"}
  PROVE  IInv'
<1>1. /\ LogGrows /\ events' \subseteq Event /\ unlogged' \subseteq Writes
      /\ EventsTellWrites' /\ HistoryGrows /\ HistorySound'
  BY NothingLogged
<1>2. QueueSound'
  BY Parts DEF QueueSound
<1>3. ASSUME NEW b \in Admins
      PROVE  /\ StageSound(b)' /\ HeldSound(b)' /\ Untouched(b)
  BY Parts DEF StageSound, MayHaveWritten, Queued, HeldSound, Untouched
<1>4. ASSUME NEW b \in Admins
      PROVE  /\ AskedSound(b)' /\ SeenSound(b)' /\ WritesSound(b)'
             /\ RecordSound(b)' /\ KeepsTrack(b)
  BY <1>1, <1>3, RequestStays, UntouchedKeepsTrack, Parts
<1>5. ChangesAreLogged'
  BY <1>1, <1>4, LogStays, Parts
<1>6. TypeOK'
  <2>1. CounterTypeOK' /\ permitted' \subseteq Admins
    BY Parts DEF CounterInv
  <2> QED
    BY <1>1, <1>3, <1>4, <2>1, TypeRebuilt, Parts
<1> QED
  BY <1>1, <1>2, <1>3, <1>4, <1>5, <1>6 DEF IInv, RequestSound

LEMMA CounterStep ==
  ASSUME IInv, CallbackStarts \/ CounterSaved
  PROVE  IInv'
<1>1. MemorySound'
  BY MemoryStays, NothingLogged, Parts DEF CallbackStarts, CounterSaved
<1>2. CASE CallbackStarts
  BY <1>1, <1>2, CounterKeeps, QuietStep, Parts DEF CallbackStarts, StartWrite
<1>3. CASE CounterSaved
  BY <1>1, <1>3, CounterKeeps, QuietStep, Parts DEF CounterSaved, SaveCounter
<1> QED
  BY <1>2, <1>3

\* The admin whose write runs.
LEMMA RunningHead ==
  ASSUME IInv, phase \in {"write", "save", "commit"}
  PROVE  /\ writeQueue \in Seq(Admins) /\ writeQueue # <<>>
         /\ Len(writeQueue) \in Nat /\ Len(writeQueue) >= 1
         /\ Head(writeQueue) = writeQueue[1]
         /\ Head(writeQueue) \in Admins
         /\ Queued(Head(writeQueue))
         /\ request[Head(writeQueue)].stage \in {"queued", "failed"}
         /\ phase = "write" => request[Head(writeQueue)].stage = "queued"
<1>1. writeQueue \in Seq(Admins) /\ writeQueue # <<>>
  BY Parts DEF CounterTypeOK, QueueBudget
<1>2. /\ Len(writeQueue) \in Nat /\ Len(writeQueue) >= 1
      /\ Head(writeQueue) = writeQueue[1] /\ Head(writeQueue) \in Admins
      /\ 1 \in DOMAIN writeQueue
  BY <1>1
<1>3. \/ request[writeQueue[1]].stage = "queued"
      \/ /\ request[writeQueue[1]].stage = "failed"
         /\ phase \in {"save", "commit"}
  BY <1>2, Parts DEF QueueSound
<1> QED
  BY <1>1, <1>2, <1>3 DEF Queued

\* The head leaves the queue.
LEMMA DequeueStep ==
  ASSUME IInv, NEW a \in Admins, NEW r \in Request, a = Head(writeQueue),
         phase \in {"save", "commit"}, phase' = "idle", CounterInv',
         writeQueue' = Tail(writeQueue), request' = [request EXCEPT ![a] = r],
         UNCHANGED <<history, inForce, permitted, events>>,
         unlogged \subseteq unlogged', unlogged' \subseteq Writes,
         r.stage \in {"idle", "record"},
         r.writes # {} => r.stage = "record",
         r.pending # {} => r.stage = "record",
         KeepsTrack(a), HeldSound(a)', AskedSound(a)', SeenSound(a)',
         WritesSound(a)', RecordSound(a)'
  PROVE  IInv'
<1>1. /\ writeQueue \in Seq(Admins) /\ writeQueue # <<>>
      /\ Len(writeQueue) \in Nat /\ Len(writeQueue) >= 1
      /\ writeQueue[1] = a
  BY RunningHead
<1>2. request'[a] = r /\ \A b \in Admins \ {a} : request'[b] = request[b]
  BY Parts
<1>3. /\ DOMAIN writeQueue = 1..Len(writeQueue)
      /\ DOMAIN writeQueue' = 1..(Len(writeQueue) - 1)
      /\ \A k \in DOMAIN writeQueue' : /\ k + 1 \in DOMAIN writeQueue
                                       /\ writeQueue'[k] = writeQueue[k + 1]
  BY <1>1
<1>4. \A k \in DOMAIN writeQueue' : writeQueue'[k] \in Admins \ {a}
  BY <1>1, <1>3, Parts DEF QueueSound
<1>5. QueueSound'
  <2>1. \A j, k \in DOMAIN writeQueue' : writeQueue'[j] = writeQueue'[k] => j = k
    BY <1>1, <1>3, Parts DEF QueueSound
  <2>2. ASSUME NEW k \in DOMAIN writeQueue'
        PROVE  request'[writeQueue'[k]].stage = "queued"
    <3>1. k + 1 # 1
      BY <1>1, <1>3
    <3>2. request[writeQueue[k + 1]].stage = "queued"
      BY <1>3, <3>1, Parts DEF QueueSound
    <3> QED
      BY <1>2, <1>3, <1>4, <3>2
  <2> QED
    BY <2>1, <2>2 DEF QueueSound
<1>6. ASSUME NEW b \in Admins PROVE StageSound(b)'
  <2>1. CASE b = a
    BY <1>2, <2>1 DEF StageSound, MayHaveWritten
  <2>2. CASE b # a
    <3>1. request'[b] = request[b]
      BY <1>2, <2>2
    <3>2. Queued(b) => Queued(b)'
      <4>1. ASSUME NEW k \in DOMAIN writeQueue, writeQueue[k] = b
            PROVE  k - 1 \in DOMAIN writeQueue' /\ writeQueue'[k - 1] = b
        <5>1. k # 1 /\ k \in 1..Len(writeQueue)
          BY <1>1, <1>3, <2>2, <4>1
        <5>2. k - 1 \in DOMAIN writeQueue'
          BY <1>1, <1>3, <5>1
        <5>3. writeQueue'[k - 1] = writeQueue[(k - 1) + 1]
          BY <1>3, <5>2
        <5> QED
          BY <1>1, <4>1, <5>1, <5>2, <5>3
      <4> QED
        BY <4>1 DEF Queued
    <3> QED
      BY <2>2, <3>1, <3>2, Parts DEF StageSound, MayHaveWritten
  <2> QED
    BY <2>1, <2>2
<1>7. /\ LogGrows /\ HistoryGrows /\ HistorySound' /\ EventsTellWrites'
      /\ MemorySound'
  BY Parts, ContentsStay, EventsStay, MemoryStays DEF LogGrows
<1>8. ASSUME NEW b \in Admins, b # a
      PROVE  /\ HeldSound(b)' /\ AskedSound(b)' /\ SeenSound(b)'
             /\ WritesSound(b)' /\ RecordSound(b)' /\ KeepsTrack(b)
  <2>1. Untouched(b) /\ HeldSound(b)'
    BY <1>2, <1>8, Parts DEF Untouched, HeldSound
  <2> QED
    BY <1>7, <2>1, RequestStays, UntouchedKeepsTrack, Parts DEF Untouched
<1>9. ChangesAreLogged'
  BY <1>7, <1>8, LogStays, Parts
<1>10. TypeOK'
  <2>1. request' \in [Admins -> Request] /\ CounterTypeOK'
    BY Parts DEF CounterInv
  <2> QED
    BY <1>6, <1>7, <1>8, <2>1, TypeRebuilt, Parts
<1> QED
  BY <1>5, <1>6, <1>7, <1>8, <1>9, <1>10 DEF IInv, RequestSound

\* The head is through without an event.
LEMMA DequeueToIdle ==
  ASSUME IInv, NEW a \in Admins, a = Head(writeQueue),
         phase \in {"save", "commit"}, phase' = "idle", CounterInv',
         writeQueue' = Tail(writeQueue),
         request' = [request EXCEPT ![a] = Idle],
         UNCHANGED <<history, inForce, permitted, events>>,
         unlogged \subseteq unlogged', unlogged' \subseteq Writes,
         KeepsTrack(a)
  PROVE  IInv'
<1>1. /\ Idle \in Request /\ Idle.stage = "idle"
      /\ Idle.writes = {} /\ Idle.pending = {}
  BY DEF Idle, Request, Stages, Kinds, NothingRead
<1>2. request'[a] = Idle
  BY Parts
<1>3. AskedSound(a)' /\ HeldSound(a)'
  BY <1>1, <1>2 DEF AskedSound, HeldSound, Working
<1>4. SeenSound(a)' /\ WritesSound(a)' /\ RecordSound(a)'
  BY <1>1, <1>2, EmptyHanded DEF Working
<1> QED
  BY <1>1, <1>3, <1>4, DequeueStep

LEMMA CounterSaveFailsStep ==
  ASSUME IInv, CounterSaveFails
  PROVE  IInv'
<1>1. PICK a \in Admins : a = Head(writeQueue)
  BY RunningHead DEF CounterSaveFails, SaveFails
<1>2. /\ phase = "save" /\ phase' = "idle" /\ writeQueue' = Tail(writeQueue)
      /\ request' = [request EXCEPT ![a] = Idle]
      /\ unlogged' = unlogged \union request[a].writes
      /\ UNCHANGED <<history, inForce, permitted, events>>
  BY <1>1 DEF CounterSaveFails, SaveFails
<1>3. CounterInv'
  BY CounterKeeps, Parts DEF CounterSaveFails
<1>4. KeepsTrack(a) /\ unlogged' \subseteq Writes
  BY <1>2, Parts, RequestType DEF KeepsTrack, Logs
<1> QED
  BY <1>1, <1>2, <1>3, <1>4, DequeueToIdle

LEMMA CommitAndLogStep ==
  ASSUME IInv, CommitAndLog
  PROVE  IInv'
<1>1. PICK a \in Admins : a = Head(writeQueue)
  BY RunningHead DEF CommitAndLog, Commit
<1>2. /\ phase = "commit" /\ phase' = "idle" /\ writeQueue' = Tail(writeQueue)
      /\ UNCHANGED <<history, inForce, permitted, events, unlogged>>
      /\ request' =
           [request EXCEPT
              ![a] = IF request[a].stage = "failed" \/ Logged(request[a]) = {}
                       THEN Idle
                       ELSE [request[a] EXCEPT !.stage = "record",
                                               !.pending = Logged(request[a])]]
  BY <1>1 DEF CommitAndLog, Commit, auditVars
<1>3. CounterInv'
  BY CounterKeeps, Parts DEF CommitAndLog
<1>4. /\ request[a].stage \in {"queued", "failed"}
      /\ unlogged \subseteq unlogged' /\ unlogged' \subseteq Writes
      /\ request[a] \in Request
  BY <1>1, <1>2, RunningHead, Parts
<1>5. CASE request[a].stage = "failed" \/ Logged(request[a]) = {}
  <2>1. KeepsTrack(a)
    <3>1. CASE request[a].stage = "failed"
      BY <3>1, NoWritesToKeep
    <3>2. CASE Logged(request[a]) = {}
      <4>1. ASSUME NEW w \in request[a].writes PROVE Restored(w[1], w[2])
        <5>1. Previous(request[a], w[1]) = request[a].value
          BY <3>2 DEF Logged, Changed
        <5>2. request[a].stage \in Working
          BY <4>1, Parts DEF StageSound, MayHaveWritten, Working
        <5> QED
          BY <5>1, <5>2, UnchangedIsRestored, Parts, RequestType
          DEF WritesSound
      <4> QED
        BY <4>1 DEF KeepsTrack
    <3> QED
      BY <1>5, <3>1, <3>2
  <2>2. request' = [request EXCEPT ![a] = Idle]
    BY <1>2, <1>5
  <2> QED
    BY <1>1, <1>2, <1>3, <1>4, <2>1, <2>2, DequeueToIdle
<1>6. CASE ~(request[a].stage = "failed" \/ Logged(request[a]) = {})
  <2> DEFINE r == [request[a] EXCEPT !.stage = "record",
                                     !.pending = Logged(request[a])]
  <2>1. request' = [request EXCEPT ![a] = r]
    BY <1>2, <1>6
  <2>2. Logged(request[a]) \subseteq Changed(request[a].writes)
    BY DEF Logged
  <2>3. Changed(request[a].writes) \subseteq Entities
    BY RequestType, Parts DEF Changed, Writes
  <2>4. /\ r \in Request /\ r.stage = "record" /\ r.kind = request[a].kind
        /\ r.targets = request[a].targets /\ r.value = request[a].value
        /\ r.read = request[a].read /\ r.since = request[a].since
        /\ r.writes = request[a].writes
        /\ r.pending = Logged(request[a]) /\ r.held = request[a].held
    BY <1>4, <2>2, <2>3 DEF Request, Stages
  <2> HIDE DEF r
  <2>5. request'[a] = r
    BY <2>1, Parts
  <2>6. request[a].stage = "queued"
    BY <1>4, <1>6
  <2>7. AskedSound(a)' /\ HeldSound(a)'
    BY <2>4, <2>5, <2>6, Parts DEF AskedSound, HeldSound, Working
  <2>8. SeenSound(a)'
    BY <1>2, <2>4, <2>5, <2>6, Parts
    DEF SeenSound, HasSeen, ReadSound, Position, Working
  <2>9. WritesSound(a)'
    <3>1. HistoryGrows
      BY <1>2, ContentsStay, Parts
    <3>2. ASSUME NEW w \in request[a].writes PROVE WriteSound(a, w)'
      BY <2>4, <2>5, <3>1, Parts, RequestType, WriteStays DEF WritesSound
    <3> QED
      BY <2>2, <2>4, <2>5, <3>2, Parts DEF WritesSound, Changed
  <2>10. RecordSound(a)'
    <3>1. ASSUME NEW w \in request[a].writes
          PROVE  w[1] \in r.pending \/ Previous(r, w[1]) = r.value
      BY <2>4 DEF Logged, Changed, Previous
    <3> QED
      BY <1>2, <2>4, <2>5, <3>1 DEF RecordSound, Previous
  <2>11. KeepsTrack(a)
    BY <2>4, <2>5, UntouchedKeepsTrack
  <2> QED
    BY <1>1, <1>2, <1>3, <1>4, <2>1, <2>4, <2>7, <2>8, <2>9, <2>10, <2>11,
       DequeueStep
<1> QED
  BY <1>5, <1>6

-------------------------------------------------------------------------------
(* The write. *)

LEMMA RunningWrite ==
  ASSUME IInv, phase = "write", NEW a \in Admins, a = Head(writeQueue)
  PROVE  /\ request[a].stage = "queued"
         /\ request[a].writes = {} /\ request[a].pending = {}
         /\ Matching(request[a]) \subseteq request[a].targets
         /\ request[a].targets \subseteq Entities
         /\ request[a].value \in Values \union {Deleted}
         /\ Site \in request[a].targets => request[a].value \in Values
         /\ Site \in request[a].targets <=> request[a].kind = "setting"
<1>1. request[a].stage = "queued"
  BY RunningHead
<1>2. request[a].writes = {} /\ request[a].pending = {}
  BY <1>1, Parts DEF StageSound, MayHaveWritten
<1>3. /\ Site \in request[a].targets => request[a].value \in Values
      /\ Site \in request[a].targets <=> request[a].kind = "setting"
  BY <1>1, Parts DEF AskedSound, Working, Deletes
<1> QED
  BY <1>1, <1>2, <1>3, Parts, RequestType DEF Matching

\* The write ends, whether it returns or throws.
LEMMA CallbackStep ==
  ASSUME IInv, NEW a \in Admins, NEW r \in Request, NEW changed,
         a = Head(writeQueue), WriteEnds, changed \subseteq Matching(request[a]),
         Written(changed, request[a], a), MemorySound',
         request' = [request EXCEPT ![a] = r],
         UNCHANGED <<permitted, events>>,
         unlogged \subseteq unlogged', unlogged' \subseteq Writes,
         r.stage \in {"queued", "failed"}, r.pending = {},
         r.writes # {} => r.stage = "queued",
         HeldSound(a)', AskedSound(a)', SeenSound(a)', WritesSound(a)',
         RecordSound(a)',
         \A w \in NewWrites(changed) : w \in r.writes \/ w \in unlogged'
  PROVE  IInv'
<1>1. /\ phase = "write" /\ phase' = "save"
      /\ writeQueue' = writeQueue
      /\ CounterInv' /\ CounterTypeOK'
  BY CounterKeeps, Parts DEF WriteEnds, CounterInv
<1>2. /\ request[a].writes = {} /\ changed \in SUBSET Entities
      /\ Site \in changed => request[a].value \in Values
  BY <1>1, RunningWrite
<1>3. /\ history' \in [Entities -> Seq(Content)]
      /\ HistoryGrows /\ HistorySound'
      /\ \A e \in changed : Position(e)' = Position(e) + 1
      /\ \A e \in Entities \ changed : history'[e] = history[e]
  <2>1. PICK q \in Request : q = request[a]
    BY Parts
  <2>2. Written(changed, q, a) /\ (Site \in changed => q.value \in Values)
    BY <1>2, <2>1
  <2>3. /\ history' \in [Entities -> Seq(Content)]
        /\ HistoryGrows /\ HistorySound' /\ Appended(changed, q, a)
    BY <1>1, <1>2, <2>2, ContentsGrow, Parts
  <2> QED
    BY <2>3 DEF Appended
<1>4. request'[a] = r /\ \A b \in Admins \ {a} : request'[b] = request[b]
  BY Parts
<1>5. /\ writeQueue \in Seq(Admins) /\ writeQueue[1] = a
      /\ Len(writeQueue) \in Nat /\ Len(writeQueue) >= 1 /\ Queued(a)
  BY <1>1, RunningHead
<1>6. QueueSound'
  <2>1. ASSUME NEW k \in DOMAIN writeQueue
        PROVE  \/ request'[writeQueue[k]].stage = "queued"
               \/ k = 1 /\ request'[writeQueue[k]].stage = "failed"
    <3>1. CASE k = 1
      BY <1>4, <1>5, <3>1
    <3>2. CASE k # 1
      <4>1. writeQueue[k] \in Admins /\ writeQueue[k] # a
        BY <1>5, <3>2, Parts DEF QueueSound
      <4>2. request[writeQueue[k]].stage = "queued"
        BY <3>2, Parts DEF QueueSound
      <4> QED
        BY <1>4, <4>1, <4>2
    <3> QED
      BY <3>1, <3>2
  <2> QED
    BY <1>1, <2>1, Parts DEF QueueSound
<1>7. ASSUME NEW b \in Admins PROVE StageSound(b)'
  <2>1. CASE b = a
    BY <1>1, <1>4, <1>5, <2>1 DEF StageSound, MayHaveWritten, Queued
  <2>2. CASE b # a
    BY <1>1, <1>4, <2>2, Parts DEF StageSound, MayHaveWritten, Queued
  <2> QED
    BY <2>1, <2>2
<1>8. LogGrows /\ EventsTellWrites'
  BY <1>3, EventsStay, Parts DEF LogGrows
<1>9. ASSUME NEW b \in Admins, b # a
      PROVE  /\ HeldSound(b)' /\ AskedSound(b)' /\ SeenSound(b)'
             /\ WritesSound(b)' /\ RecordSound(b)'
             /\ request'[b].writes = request[b].writes
  <2>1. Untouched(b) /\ HeldSound(b)'
    BY <1>4, <1>9, Parts DEF Untouched, HeldSound
  <2> QED
    BY <1>3, <1>8, <2>1, RequestStays, Parts DEF Untouched
<1>10. \A b \in Admins : KeepsTrack(b)
  BY <1>2, <1>9 DEF KeepsTrack
<1>11. ChangesAreLogged'
  <2>1. ASSUME NEW e \in Entities, NEW k \in 2..Position(e)'
        PROVE  Accounted(e, k)'
    <3>1. CASE k \in 2..Position(e)
      BY <1>3, <1>8, <1>10, <3>1, AccountedStays, AccountedMeansLogged, Parts
    <3>2. CASE k \notin 2..Position(e)
      <4>1. e \in changed /\ k = Position(e) + 1
        BY <1>3, <3>2, HistoryType, Parts DEF Position
      <4>2. <<e, k>> \in NewWrites(changed)
        BY <4>1 DEF NewWrites
      <4>3. <<e, k>> \in r.writes \/ <<e, k>> \in unlogged'
        BY <4>2
      <4> QED
        BY <1>4, <4>3 DEF Accounted, Logs
    <3> QED
      BY <3>1, <3>2
  <2> QED
    BY <2>1 DEF ChangesAreLogged, Accounted, Restored, Logs, Recorded
<1>12. TypeOK'
  BY <1>1, <1>3, <1>7, <1>9, TypeRebuilt, Parts
<1> QED
  BY <1>3, <1>6, <1>7, <1>8, <1>9, <1>11, <1>12 DEF IInv, RequestSound

LEMMA CallbackThrowsStep ==
  ASSUME IInv, CallbackThrows
  PROVE  IInv'
<1>1. PICK a \in Admins : a = Head(writeQueue)
  BY RunningHead DEF CallbackThrows, WriteEnds
<1>2. PICK changed \in SUBSET Matching(request[a]) :
        /\ Written(changed, request[a], a)
        /\ unlogged' = unlogged \union NewWrites(changed)
  BY <1>1 DEF CallbackThrows
<1> DEFINE r == [request[a] EXCEPT !.stage = "failed"]
<1>3. /\ WriteEnds /\ UNCHANGED <<inForce, permitted, events>>
      /\ request' = [request EXCEPT ![a] = r]
  BY <1>1, Parts DEF CallbackThrows
<1>4. /\ r \in Request /\ r.stage = "failed" /\ r.held = request[a].held
      /\ r.writes = request[a].writes /\ r.pending = request[a].pending
  BY Parts DEF Request, Stages
<1> HIDE DEF r
<1>5. /\ request[a].stage = "queued"
      /\ r.writes = {} /\ r.pending = {}
      /\ changed \subseteq Entities
  BY <1>1, <1>3, <1>4, RunningWrite DEF WriteEnds
<1>6. unlogged' \subseteq Writes
  BY <1>2, <1>5, HistoryType, Parts DEF NewWrites, Writes
<1>7. request'[a] = r
  BY <1>3, Parts
\* What the write has changed of the settings is logged nowhere.
<1>8. MemorySound'
  <2>1. Appended(changed, request[a], a)
    <3>1. /\ request[a] \in Request
          /\ Site \in changed => request[a].value \in Values
      BY <1>1, <1>3, Parts, RunningWrite DEF WriteEnds
    <3> QED
      BY <1>2, <1>3, <1>5, <3>1, ContentsGrow, Parts DEF WriteEnds
  <2>2. Site \in Entities /\ Position(Site) \in Nat
    BY HistoryType, Parts DEF Entities
  <2>3. CASE Site \in changed
    <3>1. Position(Site)' = Position(Site) + 1
      BY <2>1, <2>3 DEF Appended
    <3>2. <<Site, Position(Site) + 1>> \in unlogged'
      BY <1>2, <2>3 DEF NewWrites
    <3>3. inForce \in 1..Position(Site) /\ inForce' = inForce
      BY <1>3, Parts DEF MemorySound
    <3>4. ASSUME NEW j \in (inForce + 1)..(Position(Site) + 1)
          PROVE  <<Site, j>> \in unlogged'
      <4>1. CASE j = Position(Site) + 1
        BY <3>2, <4>1
      <4>2. CASE j # Position(Site) + 1
        <5>1. j \in (inForce + 1)..Position(Site)
          BY <2>2, <3>3, <3>4, <4>2
        <5> QED
          BY <1>2, <5>1, Parts DEF MemorySound
      <4> QED
        BY <4>1, <4>2
    <3> QED
      BY <2>2, <3>1, <3>3, <3>4 DEF MemorySound
  <2>4. CASE Site \notin changed
    <3>1. Position(Site)' = Position(Site)
      BY <2>1, <2>2, <2>4 DEF Appended, Position
    <3> QED
      BY <1>2, <1>3, <3>1, Parts DEF MemorySound
  <2> QED
    BY <2>3, <2>4
<1>9. HeldSound(a)' /\ AskedSound(a)'
  BY <1>4, <1>5, <1>7, Parts DEF HeldSound, AskedSound, Working
<1>10. SeenSound(a)' /\ WritesSound(a)' /\ RecordSound(a)'
  BY <1>4, <1>5, <1>7, EmptyHanded DEF Working
<1> QED
  BY <1>1, <1>2, <1>3, <1>4, <1>5, <1>6, <1>8, <1>9, <1>10, CallbackStep

LEMMA CallbackReturnsStep ==
  ASSUME IInv, CallbackReturns
  PROVE  IInv'
<1>1. PICK a \in Admins : a = Head(writeQueue)
  BY RunningHead DEF CallbackReturns, WriteEnds
<1>2. PICK q, changed : q = request[a] /\ changed = Matching(q)
  OBVIOUS
<1> DEFINE r == [q EXCEPT !.read = Reading(q), !.writes = NewWrites(changed)]
<1>3. /\ WriteEnds /\ UNCHANGED <<permitted, events, unlogged>>
      /\ request' = [request EXCEPT ![a] = r]
      /\ q \in Request
  BY <1>1, <1>2, Parts DEF CallbackReturns, auditVars
<1>4. /\ q.stage = "queued" /\ q.writes = {} /\ q.pending = {}
      /\ changed \in SUBSET Entities
      /\ changed \subseteq q.targets /\ q.targets \subseteq Entities
      /\ Site \in changed => q.value \in Values
      /\ Site \in q.targets <=> q.kind = "setting"
  BY <1>1, <1>2, <1>3, RunningWrite DEF WriteEnds
<1>5. /\ \A e \in Entities : Position(e) \in Nat /\ Position(e) >= 1
      /\ NewWrites(changed) \subseteq Writes
      /\ Positions(q.targets) \in [Entities -> Nat]
      /\ \A e \in q.targets : Positions(q.targets)[e] = Position(e)
  BY <1>4, HistoryType, PositionsRead, Parts DEF NewWrites, Writes, HistorySound
<1>6. Reading(q) \in [Entities -> Nat]
  BY <1>3, <1>5 DEF Reading, Request
<1>7. /\ r \in Request /\ r.stage = "queued" /\ r.kind = q.kind
      /\ r.targets = q.targets /\ r.value = q.value
      /\ r.read = Reading(q) /\ r.since = q.since
      /\ r.writes = NewWrites(changed) /\ r.pending = {} /\ r.held = q.held
  BY <1>3, <1>4, <1>5, <1>6 DEF Request
<1>8. Written(changed, q, a) /\ inForce' = SettingsInForce(q)
  BY <1>1, <1>2 DEF CallbackReturns
<1> HIDE DEF r
<1>9. request'[a] = r
  BY <1>3, Parts
<1>10. /\ HistoryGrows
       /\ \A e \in changed :
            /\ Position(e)' = Position(e) + 1
            /\ history'[e][Position(e) + 1].value = q.value
            /\ history'[e][Position(e) + 1].by = a
            /\ history'[e][Position(e) + 1].read = Reading(q)[e]
            /\ history'[e][Position(e) + 1].since = q.since[e]
       /\ \A e \in Entities \ changed : history'[e] = history[e]
  <2>1. HistoryGrows /\ Appended(changed, q, a)
    BY <1>3, <1>4, <1>8, ContentsGrow, Parts DEF WriteEnds
  <2> QED
    BY <2>1 DEF Appended
\* What an early reader has read, and what a late one reads now.
<1>11. ASSUME NEW e \in q.targets, q.kind \in Early
       PROVE  /\ \A n \in Nat : n >= Position(e) => HasSeen(a, e, n)'
              /\ ReadSound(a, e)'
  <2>1. HasSeen(a, e, Position(e)) /\ ReadSound(a, e)
    BY <1>2, <1>4, <1>11, Parts DEF SeenSound, Working
  <2>2. q.kind # "create" => r.read = q.read
    BY <1>7, <1>11 DEF Early, Reading
  <2>3. /\ e \in Entities /\ Position(e) \in Nat
        /\ \A j \in 1..Position(e) : history'[e][j] = history[e][j]
    BY <1>4, <1>5, <1>10 DEF HistoryGrows
  <2>4. PICK m \in Nat : m = Position(e)
    BY <2>3
  <2>5. HasSeen(a, e, m)
    BY <2>1, <2>4
  <2>6. ReadSound(a, e)'
    BY <1>2, <1>3, <1>7, <1>9, <2>1, <2>2, <2>3, ReadStays DEF LogGrows
  <2> QED
    BY <1>2, <1>7, <1>9, <1>11, <2>2, <2>3, <2>4, <2>5, <2>6, HasSeenStays
<1>12. ASSUME NEW e \in changed, q.kind \notin Early
       PROVE  \A n \in Nat : n = Position(e) => HasSeen(a, e, n)'
  <2>1. Live(e) /\ r.read[e] = Position(e)
    BY <1>2, <1>4, <1>5, <1>7, <1>12 DEF Matching, Early, Reading
  <2>2. /\ Position(e) \in 1..Position(e) /\ e \in Entities
        /\ history'[e][Position(e)] = history[e][Position(e)]
    BY <1>4, <1>5, <1>10 DEF HistoryGrows
  <2>3. history'[e][Position(e)].value \in Values
    BY <2>1, <2>2 DEF Live, Stored
  <2>4. r.kind # "create"
    BY <1>7, <1>12 DEF Early
  <2> QED
    BY <1>9, <2>1, <2>2, <2>3, <2>4 DEF HasSeen
<1>13. HeldSound(a)' /\ AskedSound(a)'
  BY <1>2, <1>4, <1>7, <1>9, Parts DEF HeldSound, AskedSound, Working
<1>14. SeenSound(a)'
  <2>1. ASSUME NEW e \in q.targets, q.kind \in Early
        PROVE  HasSeen(a, e, Position(e))' /\ ReadSound(a, e)'
    <3>1. PICK n \in Nat : n = Position(e)' /\ n >= Position(e)
      BY <1>4, <1>10 DEF HistoryGrows
    <3> QED
      BY <1>11, <2>1, <3>1
  <2> QED
    BY <1>7, <1>9, <2>1 DEF SeenSound
<1>15. WritesSound(a)'
  <2>1. ASSUME NEW w \in NewWrites(changed) PROVE WriteSound(a, w)'
    <3>1. PICK e \in changed : w = <<e, Position(e) + 1>>
      BY DEF NewWrites
    <3>2. /\ e \in q.targets /\ e \in Entities
          /\ Position(e) \in Nat /\ Position(e) >= 1
      BY <1>4, <1>5
    <3>3. PICK n \in Nat : n = Position(e)
      BY <3>2
    <3>4. HasSeen(a, e, n)'
      BY <1>11, <1>12, <3>2, <3>3
    <3>5. /\ w[1] = e /\ w[2] = n + 1 /\ w[2] - 1 = n
      BY <3>1, <3>3
    <3>6. HasSeen(a, w[1], w[2] - 1)'
      BY <3>4, <3>5
    <3> QED
      BY <1>7, <1>9, <1>10, <3>2, <3>3, <3>5, <3>6 DEF WriteSound
  <2> QED
    BY <1>7, <1>9, <2>1 DEF WritesSound, NewWrites
<1>16. RecordSound(a)'
  BY <1>7, <1>9 DEF RecordSound
<1>17. unlogged \subseteq unlogged' /\ unlogged' \subseteq Writes
  BY <1>3, Parts
<1>18. MemorySound'
  <2>1. /\ Site \in Entities /\ Position(Site) \in Nat
        /\ inForce \in 1..Position(Site)
    BY HistoryType, Parts DEF Entities, MemorySound
  <2>2. CASE q.kind = "setting"
    <3>1. Site \in changed
      BY <1>2, <1>4, <2>2 DEF Matching
    <3>2. inForce' = Position(Site)' /\ inForce' = Position(Site) + 1
      BY <1>8, <1>10, <2>2, <3>1 DEF SettingsInForce
    <3> QED
      BY <2>1, <3>2 DEF MemorySound
  <2>3. CASE q.kind # "setting"
    <3>1. Site \notin changed
      BY <1>4, <2>3
    <3>2. Position(Site)' = Position(Site) /\ inForce' = inForce
      BY <1>8, <1>10, <2>1, <2>3, <3>1 DEF SettingsInForce, Position
    <3> QED
      BY <1>3, <3>2, Parts DEF MemorySound
  <2> QED
    BY <2>2, <2>3
<1> QED
  BY <1>1, <1>2, <1>3, <1>7, <1>8, <1>13, <1>14, <1>15, <1>16, <1>17, <1>18,
     CallbackStep

-------------------------------------------------------------------------------
(* Restarts. *)

LEMMA CrashStep ==
  ASSUME IInv, Crash
  PROVE  IInv'
<1>1. /\ Die /\ writeQueue' = <<>> /\ phase' = "down"
      /\ request' = [a \in Admins |-> Idle]
      /\ UNCHANGED <<history, inForce, permitted, events>>
  BY DEF Crash, Die
<1>2. ASSUME NEW a \in Admins, NEW w \in request[a].writes PROVE Logs(w)'
  <2>1. w \in {row.write : row \in events} \/ w \in unlogged'
    BY DEF Crash
  <2> QED
    BY <1>1, <2>1 DEF Logs, Recorded
<1>3. LogGrows /\ unlogged' \subseteq Writes
  <2>1. \A a \in Admins : request[a].writes \subseteq Writes
    BY RequestType, Parts
  <2> QED
    BY <1>1, <2>1, Parts DEF Crash, LogGrows
<1>4. /\ HistoryGrows /\ HistorySound' /\ EventsTellWrites'
      /\ events' \subseteq Event /\ MemorySound'
  BY <1>1, <1>3, ContentsStay, EventsStay, MemoryStays, Parts
<1>5. /\ Idle \in Request /\ Idle.stage = "idle"
      /\ Idle.writes = {} /\ Idle.pending = {}
  BY DEF Idle, Request, Stages, Kinds, NothingRead
<1>6. ASSUME NEW a \in Admins
      PROVE  /\ HeldSound(a)' /\ AskedSound(a)' /\ SeenSound(a)'
             /\ WritesSound(a)' /\ RecordSound(a)' /\ StageSound(a)'
             /\ KeepsTrack(a)
  <2>1. request'[a] = Idle
    BY <1>1
  <2>2. HeldSound(a)' /\ AskedSound(a)' /\ StageSound(a)'
    BY <1>5, <2>1 DEF HeldSound, AskedSound, StageSound, Working
  <2>3. SeenSound(a)' /\ WritesSound(a)' /\ RecordSound(a)'
    BY <1>5, <2>1, EmptyHanded DEF Working
  <2>4. KeepsTrack(a)
    BY <1>2 DEF KeepsTrack
  <2> QED
    BY <2>2, <2>3, <2>4
<1>7. QueueSound' /\ CounterTypeOK'
  BY <1>1, CounterKeeps, Parts DEF QueueSound, CounterInv
<1>8. ChangesAreLogged'
  BY <1>1, <1>3, <1>6, LogStays, Parts
<1>9. TypeOK'
  BY <1>1, <1>3, <1>4, <1>5, <1>6, <1>7, TypeRebuilt, Parts
<1> QED
  BY <1>4, <1>6, <1>7, <1>8, <1>9 DEF IInv, RequestSound

LEMMA BootStep ==
  ASSUME IInv, Boot
  PROVE  IInv'
<1>1. MemorySound'
  <2>1. Position(Site) \in Nat /\ Position(Site) >= 1
    BY HistoryType, Parts DEF HistorySound, Entities
  <2>2. inForce' = Position(Site) /\ Position(Site)' = Position(Site)
    BY DEF Boot, Position
  <2> QED
    BY <2>1, <2>2 DEF MemorySound
<1> QED
  BY <1>1, CounterKeeps, QuietStep, Parts DEF Boot, Recover

-------------------------------------------------------------------------------
(* The theorems. *)

LEMMA InitInv == Init => IInv
<1> SUFFICES ASSUME Init PROVE IInv
  OBVIOUS
<1>1. PICK first \in Admins : first = CHOOSE a \in Admins : TRUE
  BY AdminsAssumption
<1>2. ASSUME NEW e \in Entities
      PROVE  \E v \in Values \union {Absent} :
               history[e] = <<[value |-> v, version |-> 0, read |-> 0,
                               since |-> 0, by |-> first]>>
  BY <1>1 DEF Init
<1>3. ASSUME NEW e \in Entities
      PROVE  history[e] \in Seq(Content) /\ Position(e) = 1
  <2>1. PICK v \in Values \union {Absent} :
          history[e] = <<[value |-> v, version |-> 0, read |-> 0,
                               since |-> 0, by |-> first]>>
    BY <1>2
  <2>2. [value |-> v, version |-> 0, read |-> 0, since |-> 0, by |-> first]
          \in Content
    BY MaxVersionAssumption DEF Content
  <2> QED
    BY <2>1, <2>2 DEF Position
<1>4. history \in [Entities -> Seq(Content)]
  <2>1. history = [e \in Entities |-> history[e]]
    BY DEF Init
  <2> QED
    BY <1>3, <2>1
<1>5. HistorySound /\ MemorySound
  BY <1>3 DEF HistorySound, MemorySound, Init, Live, Stored, Entities
<1>6. CounterTypeOK /\ QueueSound
  <2>1. CounterTypeOK /\ QueueBudget /\ writeQueue = <<>>
    BY MaxVersionAssumption DEF Init, CounterInit, CounterTypeOK, QueueBudget
  <2> QED
    BY <2>1 DEF QueueSound, CounterInv
<1>7. Idle \in Request
  BY DEF Idle, Request, Stages, Kinds, NothingRead
<1>8. request \in [Admins -> Request] /\ \A a \in Admins : request[a] = Idle
  BY <1>7 DEF Init
<1>9. ASSUME NEW a \in Admins PROVE HeldSound(a) /\ RequestSound(a)
  BY <1>8 DEF HeldSound, RequestSound, StageSound, AskedSound, SeenSound,
              WritesSound, RecordSound, Working, Idle
<1>10. TypeOK
  BY <1>4, <1>6, <1>8 DEF TypeOK, Init, Idle
<1>11. EventsTellWrites /\ ChangesAreLogged
  BY <1>3 DEF Init, EventsTellWrites, ChangesAreLogged
<1> QED
  BY <1>5, <1>6, <1>9, <1>10, <1>11 DEF IInv

LEMMA NextInv == IInv /\ [Next]_vars => IInv'
<1> SUFFICES ASSUME IInv, [Next]_vars PROVE IInv'
  OBVIOUS
<1>1. CASE UNCHANGED vars
  <2>1. MemorySound'
    BY <1>1, MemoryStays, NothingLogged, Parts DEF vars, auditVars
  <2> QED
    BY <1>1, <2>1, QuietStep, Parts
    DEF vars, auditVars, CounterInv, CounterTypeOK, QueueBudget
<1>2. ASSUME NEW a \in Admins,
             SetPermission(a) \/ Arrives(a) \/ Forbidden(a) \/ Handler(a)
      PROVE  IInv'
  BY <1>2, SetPermissionStep, ArrivesStep, RefusedStep, UpdateItemStep,
     HandlerStep, FindPreviousStep, RecordEventStep, RecordFailsStep
  DEF Handler
<1>3. CASE WriteStep
  BY <1>3, CounterStep, CallbackReturnsStep, CallbackThrowsStep,
     CounterSaveFailsStep, CommitAndLogStep
  DEF WriteStep
<1>4. CASE Crash \/ Boot
  BY <1>4, CrashStep, BootStep
<1> QED
  BY <1>1, <1>2, <1>3, <1>4 DEF Next

LEMMA Invariance == Spec => []IInv
BY InitInv, NextInv, PTL DEF Spec

\* Counter, contents, requests and events keep their types under every
\* fault, and whoever waits for a write is in withVersionBump's queue.
THEOREM TypeCorrect == Spec => []TypeOK
<1>1. IInv => TypeOK
  BY DEF IInv
<1> QED
  BY <1>1, Invariance, PTL

\* requirePermission (authorize.middleware.ts): nothing is written for an
\* admin who has not held the permission since the request arrived.
THEOREM RevocationCounts == Spec => []RevokedAtOnce
<1>1. IInv => RevokedAtOnce
  BY DEF IInv, HeldSound, RevokedAtOnce
<1> QED
  BY <1>1, Invariance, PTL

\* recordLogEvent is called with what the write has stored and what it has
\* replaced, however the handlers of several admins interleave.
THEOREM EventsAreTrue == Spec => []EventsTellWrites
<1>1. IInv => EventsTellWrites
  BY DEF IInv
<1> QED
  BY <1>1, Invariance, PTL

\* The handlers of items.controller.ts and site.controller.ts leave no change
\* of a request that succeeded without its event, reverts included, unless the
\* write put back what its handler had read before others changed it.
THEOREM NoChangeUnlogged == Spec => []ChangesAreLogged
<1>1. IInv => ChangesAreLogged
  BY DEF IInv
<1> QED
  BY <1>1, Invariance, PTL
===============================================================================
