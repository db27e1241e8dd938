-------------------------- MODULE VersionCounter --------------------------
(***************************************************************************)
(* services/sync/version.service.ts: the global data version. Admin writes *)
(* run one at a time; each is given committedVersion + 1, and the counter  *)
(* is saved and then advanced when the write has finished, also when it    *)
(* threw. At boot the counter is recovered from the app_state document and *)
(* from the newest item.                                                   *)
(*                                                                         *)
(* A component: the modules that extend it say what a write does           *)
(* between StartWrite and WriteEnds.                                       *)
(***************************************************************************)
EXTENDS Integers, Sequences

CONSTANTS
  Admins,     \* one request of each may be in progress
  Faults,     \* what may go wrong, a subset of AllFaults
  MaxVersion  \* bound: versions handed out

(***************************************************************************)
(* "tornWrite": a write throws although some of its rows were changed (a   *)
(*    batch that fails half way, a lost acknowledgement).                  *)
(* "saveFails": the counter save in withVersionBump's finally throws.      *)
(* "crash": the process dies and is started again.                         *)
(* "readFails": a query throws.                                            *)
(***************************************************************************)
AllFaults == {"tornWrite", "saveFails", "crash", "readFails"}

ASSUME FaultsAssumption == Faults \subseteq AllFaults
ASSUME MaxVersionAssumption == MaxVersion \in Nat

VARIABLES
  committedVersion,  \* in memory
  appVersion,        \* app_state.version, in the database
  writeQueue,        \* admins whose write was queued; the head's is running
  phase              \* where the process is

counterVars == <<committedVersion, appVersion, writeQueue, phase>>

CounterTypeOK ==
  /\ committedVersion \in 0..MaxVersion
  /\ appVersion \in 0..MaxVersion
  /\ writeQueue \in Seq(Admins)
  /\ phase \in {"down", "idle", "write", "save", "commit"}

CounterInit ==
  /\ committedVersion = 0
  /\ appVersion = 0
  /\ writeQueue = <<>>
  /\ phase = "idle"

Larger(m, n) == IF m >= n THEN m ELSE n

Up == phase # "down"
Queued(a) == \E k \in DOMAIN writeQueue : writeQueue[k] = a
NextVersion == committedVersion + 1

\* withVersionBump(write), up to the return of the promise.
Enqueue(a) ==
  /\ Up
  /\ ~Queued(a)
  /\ committedVersion + Len(writeQueue) < MaxVersion
  /\ writeQueue' = Append(writeQueue, a)
  /\ UNCHANGED <<committedVersion, appVersion, phase>>

\* The previous run settled: the head's write is called with NextVersion.
StartWrite ==
  /\ phase = "idle"
  /\ writeQueue # <<>>
  /\ phase' = "write"
  /\ UNCHANGED <<committedVersion, appVersion, writeQueue>>

\* write() returned or threw; the finally block sends the counter save.
WriteEnds ==
  /\ phase = "write"
  /\ phase' = "save"
  /\ UNCHANGED <<committedVersion, appVersion, writeQueue>>

\* The database applies { $max: { version: next } }.
SaveCounter ==
  /\ phase = "save"
  /\ appVersion' = Larger(appVersion, NextVersion)
  /\ phase' = "commit"
  /\ UNCHANGED <<committedVersion, writeQueue>>

\* Mutant of SaveFails: the failed run is left at the head of the queue.
SaveFailsInPlace ==
  /\ "saveFails" \in Faults
  /\ phase = "save"
  /\ phase' = "idle"
  /\ UNCHANGED <<committedVersion, appVersion, writeQueue>>

\* The save throws, whether or not the database applied it: the assignment
\* after it is skipped, the request fails and the queue moves on.
SaveFails ==
  /\ "saveFails" \in Faults
  /\ phase = "save"
  /\ appVersion' \in {appVersion, Larger(appVersion, NextVersion)}
  /\ phase' = "idle"
  /\ writeQueue' = Tail(writeQueue)
  /\ UNCHANGED committedVersion

\* Mutant of Commit: the counter is incremented twice.
CommitTwice ==
  /\ phase = "commit"
  /\ committedVersion' = NextVersion + 1
  /\ phase' = "idle"
  /\ writeQueue' = Tail(writeQueue)
  /\ UNCHANGED appVersion

\* The save was acknowledged.
Commit ==
  /\ phase = "commit"
  /\ committedVersion' = NextVersion
  /\ phase' = "idle"
  /\ writeQueue' = Tail(writeQueue)
  /\ UNCHANGED appVersion

Die ==
  /\ "crash" \in Faults
  /\ Up
  /\ phase' = "down"
  /\ committedVersion' = 0
  /\ writeQueue' = <<>>
  /\ UNCHANGED appVersion

\* Mutant of Recover: only the saved counter counts.
RecoverSaved(newestItemVersion) ==
  /\ phase = "down"
  /\ committedVersion' = appVersion
  /\ phase' = "idle"
  /\ UNCHANGED <<appVersion, writeQueue>>

\* Mutant of Recover: only the newest item counts.
RecoverNewest(newestItemVersion) ==
  /\ phase = "down"
  /\ committedVersion' = newestItemVersion
  /\ appVersion' = newestItemVersion
  /\ phase' = "idle"
  /\ UNCHANGED writeQueue

\* initVersionState, which finishes before the server listens.
Recover(newestItemVersion) ==
  /\ phase = "down"
  /\ committedVersion' = Larger(appVersion, newestItemVersion)
  /\ appVersion' = committedVersion'
  /\ phase' = "idle"
  /\ UNCHANGED writeQueue

----------------------------------------------------------------------------
(* An invariant of the counter, whatever the modules that extend it do. *)

\* A running write has its version within the bound, and so does every
\* write that is queued behind it.
QueueBudget ==
  /\ committedVersion + Len(writeQueue) <= MaxVersion
  /\ phase \in {"write", "save", "commit"} => writeQueue # <<>>
  /\ phase = "down" => writeQueue = <<>>

CounterInv == CounterTypeOK /\ QueueBudget
============================================================================
