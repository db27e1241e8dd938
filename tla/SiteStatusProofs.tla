-------------------------- MODULE SiteStatusProofs --------------------------
(***************************************************************************)
(* Proofs about SiteStatus for any admins, tabs and setting values, any    *)
(* number of versions, any interleaving and every fault it has.            *)
(***************************************************************************)
EXTENDS SiteStatus, TLAPS

----------------------------------------------------------------------------
(* The counter. *)

LEMMA CounterKeeps ==
  ASSUME CounterInv,
         \/ \E a \in Admins : Enqueue(a)
         \/ StartWrite \/ WriteEnds \/ SaveCounter \/ SaveFails \/ Commit
         \/ Die \/ \E v \in 0..MaxVersion : Recover(v)
  PROVE  CounterInv'
<1> USE MaxVersionAssumption
    DEF CounterInv, CounterTypeOK, QueueBudget, NextVersion, Larger, Up
<1>1. ASSUME NEW a \in Admins, Enqueue(a) PROVE CounterInv'
  BY <1>1 DEF Enqueue
<1>2. CASE StartWrite \/ WriteEnds \/ SaveCounter
  BY <1>2 DEF StartWrite, WriteEnds, SaveCounter
<1>3. ASSUME writeQueue # <<>>
      PROVE  /\ Tail(writeQueue) \in Seq(Admins)
             /\ Len(Tail(writeQueue)) = Len(writeQueue) - 1
             /\ Len(writeQueue) \in Nat \ {0}
  BY <1>3
<1>4. CASE SaveFails
  BY <1>3, <1>4 DEF SaveFails
<1>5. CASE Commit
  BY <1>3, <1>5 DEF Commit
<1>6. CASE Die
  BY <1>6 DEF Die
<1>7. ASSUME NEW v \in 0..MaxVersion, Recover(v) PROVE CounterInv'
  <2>1. committedVersion' \in 0..MaxVersion /\ appVersion' \in 0..MaxVersion
    BY <1>7 DEF Recover
  <2> QED
    BY <1>7, <2>1 DEF Recover
<1> QED
  BY <1>1, <1>2, <1>4, <1>5, <1>6, <1>7

----------------------------------------------------------------------------
(* Types. *)

TypeInv == TypeOK /\ QueueBudget

LEMMA InitTypeInv == Init => TypeInv
BY MaxVersionAssumption, DefaultAssumption
DEF Init, CounterInit, TypeInv, TypeOK, CounterTypeOK, QueueBudget, NoJob,
    Job, Never

LEMMA NoJobType == NoJob \in Job
BY DefaultAssumption DEF NoJob, Job

\* Every step keeps the types.
LEMMA NextTypeInv == TypeInv /\ [Next]_vars => TypeInv'
<1> SUFFICES ASSUME TypeInv, [Next]_vars PROVE TypeInv'
  OBVIOUS
<1> USE DEF TypeInv, TypeOK
<1>0. CounterInv
  BY DEF CounterInv
<1>1. ASSUME NEW a \in Admins, AdminCalls(a) PROVE TypeInv'
  <2>1. CounterInv'
    BY <1>0, <1>1, CounterKeeps DEF AdminCalls
  <2> QED
    BY <1>1, <2>1 DEF AdminCalls, CounterInv, siteVars, tabVars
<1>2. CASE SetSetting
  <2>1. CounterInv'
    BY <1>0, <1>2, CounterKeeps DEF SetSetting
  <2>2. job' \in Job
    BY <1>2 DEF SetSetting, Job
  <2> QED
    BY <1>2, <2>1, <2>2 DEF SetSetting, CounterInv, siteVars, tabVars
<1>3. CASE WriteItems
  <2>1. CounterInv'
    BY <1>0, <1>3, CounterKeeps DEF WriteItems
  <2>2. job' \in Job
    BY <1>3, DefaultAssumption DEF WriteItems, Job
  <2> QED
    BY <1>3, <2>1, <2>2 DEF WriteItems, CounterInv, siteVars, tabVars
<1>4. CASE Store
  <2>1. NextVersion \in 0..MaxVersion
    BY <1>4, MaxVersionAssumption DEF Store, NextVersion, QueueBudget,
                                      CounterTypeOK
  <2>2. job' \in Job
    BY <1>4 DEF Store, Job
  <2>3. itemVersion' \in 0..MaxVersion
    BY <1>4, <2>1 DEF Store
  <2>4. savedSettings' \in [Kinds -> Settings]
    BY <1>4 DEF Store, Job
  <2>5. announcedBy' \in [Kinds -> 0..Never]
    BY <1>4, <2>1, MaxVersionAssumption DEF Store, Never
  <2> QED
    BY <1>4, <2>2, <2>3, <2>4, <2>5
    DEF Store, counterVars, tabVars, CounterTypeOK, QueueBudget
<1>5. CASE StoreReturns
  <2>1. CounterInv'
    BY <1>0, <1>5, CounterKeeps DEF StoreReturns
  <2>2. settings' \in [Kinds -> Settings]
    BY <1>5 DEF StoreReturns, Job
  <2> QED
    BY <1>5, <2>1, <2>2, NoJobType DEF StoreReturns, CounterInv, tabVars
<1>6. CASE StoreThrows
  <2>1. CounterInv'
    BY <1>0, <1>6, CounterKeeps DEF StoreThrows
  <2>2. announcedBy' \in [Kinds -> 0..Never]
    BY <1>6, MaxVersionAssumption DEF StoreThrows, Never
  <2> QED
    BY <1>6, <2>1, <2>2, NoJobType DEF StoreThrows, CounterInv, tabVars
<1>7. CASE CounterStep
  <2>1. CounterInv'
    BY <1>0, <1>7, CounterKeeps DEF CounterStep
  <2> QED
    BY <1>7, <2>1 DEF CounterStep, CounterInv, siteVars, tabVars
<1>8. ASSUME NEW t \in Tabs, Poll(t) PROVE TypeInv'
  <2>1. etag' \in [Tabs -> {NoEtag} \union 0..MaxVersion]
    BY <1>8 DEF Poll, CounterTypeOK
  <2>2. body' \in [Tabs -> [Kinds -> Settings]]
    BY <1>8 DEF Poll
  <2> QED
    BY <1>8, <2>1, <2>2
    DEF Poll, counterVars, siteVars, CounterTypeOK, QueueBudget
<1>9. CASE Crash
  <2>1. CounterInv'
    BY <1>0, <1>9, CounterKeeps DEF Crash
  <2> QED
    BY <1>9, <2>1, NoJobType, DefaultAssumption
    DEF Crash, CounterInv, tabVars
<1>10. CASE Boot
  <2>1. CounterInv'
    BY <1>0, <1>10, CounterKeeps DEF Boot
  <2> QED
    BY <1>10, <2>1 DEF Boot, CounterInv, tabVars
<1>11. CASE UNCHANGED vars
  BY <1>11 DEF vars, CounterTypeOK, QueueBudget
<1> QED
  BY <1>1, <1>2, <1>3, <1>4, <1>5, <1>6, <1>7, <1>8, <1>9, <1>10, <1>11
  DEF Next, WriteStep

LEMMA TypeInvAlways == Spec => []TypeInv
BY InitTypeInv, NextTypeInv, PTL DEF Spec

(***************************************************************************)
(* The states of SiteStatus have their types, and no version beyond the    *)
(* bound is handed out.                                                    *)
(***************************************************************************)
THEOREM TypeCorrect == Spec => []TypeOK
<1>1. TypeInv => TypeOK
  BY DEF TypeInv
<1> QED
  BY <1>1, TypeInvAlways, PTL

----------------------------------------------------------------------------
(* Versions, and what a running write has stored. *)

\* No tab has a version beyond the saved counter, nor beyond the counter in
\* memory while there is one: a restart hands out none of theirs again.
TabsBehind ==
  /\ \A t \in Tabs : etag[t] <= appVersion
  /\ Up => /\ committedVersion <= appVersion
           /\ \A t \in Tabs : etag[t] <= committedVersion
  /\ phase = "commit" => NextVersion <= appVersion

\* Only a running write has stored a setting that is not in force, and the
\* setting's version is then the next one.
JobStores ==
  /\ phase # "write" => job = NoJob
  /\ job.stored /\ job.kind \in Kinds =>
       /\ announcedBy[job.kind] = NextVersion
       /\ savedSettings[job.kind] = job.value

OrderInv == TabsBehind /\ JobStores

LEMMA InitOrderInv == Init => OrderInv
BY MaxVersionAssumption
DEF Init, CounterInit, OrderInv, TabsBehind, JobStores, NoJob, NoEtag,
    NextVersion, Up, Kinds

LEMMA NextTabsBehind == TypeInv /\ OrderInv /\ [Next]_vars => TabsBehind'
<1> SUFFICES ASSUME TypeInv, OrderInv, [Next]_vars PROVE TabsBehind'
  OBVIOUS
<1>0. /\ TabsBehind
      /\ committedVersion \in 0..MaxVersion /\ appVersion \in 0..MaxVersion
      /\ itemVersion \in 0..MaxVersion
      /\ etag \in [Tabs -> {NoEtag} \union 0..MaxVersion]
  BY DEF OrderInv, TypeInv, TypeOK, CounterTypeOK
<1> USE <1>0, MaxVersionAssumption DEF TabsBehind, NextVersion, Up, NoEtag
<1>1. ASSUME UNCHANGED <<committedVersion, appVersion, etag>>,
             phase' # "commit" \/ phase' = phase, Up
      PROVE  TabsBehind'
  BY <1>1
<1>2. ASSUME NEW a \in Admins, AdminCalls(a) PROVE TabsBehind'
  BY <1>1, <1>2 DEF AdminCalls, Enqueue, tabVars
<1>3. CASE SetSetting \/ WriteItems
  BY <1>1, <1>3 DEF SetSetting, WriteItems, StartWrite, tabVars
<1>4. CASE Store
  BY <1>1, <1>4 DEF Store, counterVars, tabVars
<1>5. CASE StoreReturns \/ StoreThrows
  BY <1>1, <1>5 DEF StoreReturns, StoreThrows, WriteEnds, tabVars
<1>6. CASE CounterStep
  <2>1. CASE SaveCounter
    BY <1>6, <2>1 DEF CounterStep, SaveCounter, Larger, tabVars
  <2>2. CASE SaveFails
    BY <1>6, <2>2 DEF CounterStep, SaveFails, Larger, tabVars
  <2>3. CASE Commit
    BY <1>6, <2>3 DEF CounterStep, Commit, tabVars
  <2> QED
    BY <1>6, <2>1, <2>2, <2>3 DEF CounterStep
<1>7. ASSUME NEW t \in Tabs, Poll(t) PROVE TabsBehind'
  BY <1>7 DEF Poll, counterVars
<1>8. CASE Crash
  BY <1>8 DEF Crash, Die, tabVars
<1>9. CASE Boot
  BY <1>9 DEF Boot, Recover, Larger, tabVars
<1>10. CASE UNCHANGED vars
  BY <1>10 DEF vars
<1> QED
  BY <1>2, <1>3, <1>4, <1>5, <1>6, <1>7, <1>8, <1>9, <1>10
  DEF Next, WriteStep

LEMMA NextJobStores == TypeInv /\ OrderInv /\ [Next]_vars => JobStores'
<1> SUFFICES ASSUME TypeInv, OrderInv, [Next]_vars PROVE JobStores'
  OBVIOUS
<1>0. /\ JobStores
      /\ job \in Job
      /\ savedSettings \in [Kinds -> Settings]
      /\ announcedBy \in [Kinds -> 0..Never]
  BY DEF OrderInv, TypeInv, TypeOK
<1> USE <1>0 DEF JobStores, NextVersion
<1>1. ASSUME job' = NoJob PROVE JobStores'
  BY <1>1 DEF NoJob
<1>2. ASSUME NEW a \in Admins, AdminCalls(a) PROVE JobStores'
  BY <1>2 DEF AdminCalls, Enqueue, siteVars
<1>3. CASE SetSetting \/ WriteItems
  BY <1>3 DEF SetSetting, WriteItems, StartWrite
<1>4. CASE Store
  BY <1>4 DEF Store, counterVars, Job, Kinds
<1>5. CASE StoreReturns \/ StoreThrows
  BY <1>1, <1>5 DEF StoreReturns, StoreThrows
<1>6. CASE CounterStep
  BY <1>6, <1>1 DEF CounterStep, SaveCounter, SaveFails, Commit
<1>7. ASSUME NEW t \in Tabs, Poll(t) PROVE JobStores'
  BY <1>7 DEF Poll, counterVars, siteVars
<1>8. CASE Crash
  BY <1>1, <1>8 DEF Crash
<1>9. CASE Boot
  BY <1>1, <1>9 DEF Boot, Recover
<1>10. CASE UNCHANGED vars
  BY <1>10 DEF vars
<1> QED
  BY <1>2, <1>3, <1>4, <1>5, <1>6, <1>7, <1>8, <1>9, <1>10
  DEF Next, WriteStep

LEMMA OrderInvAlways == Spec => [](TypeInv /\ OrderInv)
<1>1. TypeInv /\ OrderInv /\ [Next]_vars => OrderInv'
  BY NextTabsBehind, NextJobStores DEF OrderInv
<1> QED
  BY <1>1, InitOrderInv, TypeInvAlways, PTL DEF Spec

----------------------------------------------------------------------------
(* Bodies and settings. *)

Newest == Larger(appVersion, itemVersion)

\* A tab that would be answered with a 304 has the settings in force, or,
\* while the process is down, those that the boot will load.
BodiesCurrent ==
  \A t \in Tabs, k \in Kinds :
    /\ Up /\ etag[t] = committedVersion /\ announcedBy[k] <= committedVersion
         => body[t][k] = settings[k]
    /\ ~Up /\ etag[t] = Newest /\ announcedBy[k] <= Newest
         => body[t][k] = savedSettings[k]

\* Memory and app_state differ only in a setting that the running write has
\* stored, or one whose write threw.
SettingsSaved ==
  \A k \in Kinds :
    Up /\ announcedBy[k] # Never /\ ~(job.stored /\ job.kind = k)
      => settings[k] = savedSettings[k]

StatusInv == BodiesCurrent /\ SettingsSaved

LEMMA InitStatusInv == Init => StatusInv
BY DEF Init, CounterInit, StatusInv, BodiesCurrent, SettingsSaved, Up, NoEtag,
       Kinds

LEMMA NextBodiesCurrent ==
  TypeInv /\ OrderInv /\ StatusInv /\ [Next]_vars => BodiesCurrent'
<1> SUFFICES ASSUME TypeInv, OrderInv, StatusInv, [Next]_vars
             PROVE  BodiesCurrent'
  OBVIOUS
<1>0. /\ BodiesCurrent /\ SettingsSaved /\ TabsBehind /\ JobStores
      /\ committedVersion \in 0..MaxVersion /\ appVersion \in 0..MaxVersion
      /\ itemVersion \in 0..MaxVersion
      /\ etag \in [Tabs -> {NoEtag} \union 0..MaxVersion]
      /\ announcedBy \in [Kinds -> 0..Never]
      /\ settings \in [Kinds -> Settings]
      /\ body \in [Tabs -> [Kinds -> Settings]]
      /\ job \in Job
  BY DEF StatusInv, OrderInv, TypeInv, TypeOK, CounterTypeOK
<1> USE MaxVersionAssumption DEF Up
<1>1. ASSUME Up, phase' # "down",
             UNCHANGED <<committedVersion, etag, body, settings, announcedBy>>
      PROVE  BodiesCurrent'
  BY <1>0, <1>1 DEF BodiesCurrent
<1>2. ASSUME NEW a \in Admins, AdminCalls(a) PROVE BodiesCurrent'
  BY <1>1, <1>2 DEF AdminCalls, Enqueue, siteVars, tabVars
<1>3. CASE SetSetting \/ WriteItems
  BY <1>1, <1>3 DEF SetSetting, WriteItems, StartWrite, siteVars, tabVars
<1>4. CASE Store
  <2>1. /\ phase = "write" /\ phase' = "write"
        /\ committedVersion' = committedVersion
        /\ UNCHANGED <<etag, body, settings>>
    BY <1>4 DEF Store, counterVars, tabVars
  <2>2. ASSUME NEW k \in Kinds, announcedBy'[k] <= committedVersion
        PROVE  announcedBy'[k] = announcedBy[k]
    \* The version of what is being stored is not announced yet.
    BY <1>0, <1>4, <2>2 DEF Store, NextVersion, Job
  <2> QED
    BY <1>0, <2>1, <2>2 DEF BodiesCurrent
<1>5. CASE StoreReturns
  <2>1. /\ phase = "write" /\ phase' = "save" /\ job.stored
        /\ UNCHANGED <<committedVersion, etag, body, announcedBy>>
    BY <1>5 DEF StoreReturns, WriteEnds, tabVars
  <2>2. ASSUME NEW k \in Kinds, announcedBy[k] <= committedVersion
        PROVE  settings'[k] = settings[k]
    BY <1>0, <1>5, <2>1, <2>2 DEF StoreReturns, JobStores, NextVersion
  <2> QED
    BY <1>0, <2>1, <2>2 DEF BodiesCurrent
<1>6. CASE StoreThrows
  <2>1. /\ phase = "write" /\ phase' = "save"
        /\ UNCHANGED <<committedVersion, etag, body, settings>>
    BY <1>6 DEF StoreThrows, WriteEnds, tabVars
  <2>2. ASSUME NEW k \in Kinds, announcedBy'[k] <= committedVersion
        PROVE  announcedBy[k] <= committedVersion
    BY <1>0, <1>6, <2>2 DEF StoreThrows, Never
  <2> QED
    BY <1>0, <2>1, <2>2 DEF BodiesCurrent
<1>7. CASE CounterStep
  <2>1. CASE SaveCounter \/ SaveFails
    BY <1>1, <1>7, <2>1 DEF CounterStep, SaveCounter, SaveFails, siteVars,
                            tabVars
  <2>2. CASE Commit
    \* No tab has the new version yet.
    BY <1>0, <1>7, <2>2
    DEF CounterStep, Commit, siteVars, tabVars, TabsBehind, NextVersion,
        BodiesCurrent, NoEtag
  <2> QED
    BY <1>7, <2>1, <2>2 DEF CounterStep
<1>8. ASSUME NEW t \in Tabs, Poll(t) PROVE BodiesCurrent'
  BY <1>0, <1>8 DEF Poll, counterVars, siteVars, BodiesCurrent
<1>9. CASE Crash
  <2> SUFFICES ASSUME NEW t \in Tabs, NEW k \in Kinds,
                      etag[t] = Newest, announcedBy[k] <= Newest
               PROVE  body[t][k] = savedSettings[k]
    BY <1>9 DEF Crash, Die, tabVars, BodiesCurrent, Newest
  <2>1. etag[t] = committedVersion /\ committedVersion = Newest
    BY <1>0, <1>9 DEF Crash, Die, TabsBehind, Newest, Larger, NoEtag
  <2>2. body[t][k] = settings[k]
    BY <1>0, <1>9, <2>1 DEF Crash, Die, BodiesCurrent
  <2>3. ~(job.stored /\ job.kind = k) /\ announcedBy[k] # Never
    BY <1>0, <2>1 DEF JobStores, NextVersion, Never
  <2> QED
    BY <1>0, <1>9, <2>2, <2>3 DEF Crash, Die, SettingsSaved
<1>10. CASE Boot
  BY <1>0, <1>10 DEF Boot, Recover, tabVars, BodiesCurrent, Newest
<1>11. CASE UNCHANGED vars
  BY <1>0, <1>11 DEF vars, BodiesCurrent, Newest
<1> QED
  BY <1>2, <1>3, <1>4, <1>5, <1>6, <1>7, <1>8, <1>9, <1>10, <1>11
  DEF Next, WriteStep

LEMMA NextSettingsSaved ==
  TypeInv /\ OrderInv /\ StatusInv /\ [Next]_vars => SettingsSaved'
<1> SUFFICES ASSUME TypeInv, OrderInv, StatusInv, [Next]_vars
             PROVE  SettingsSaved'
  OBVIOUS
<1>0. /\ SettingsSaved /\ JobStores /\ job \in Job
      /\ settings \in [Kinds -> Settings]
      /\ savedSettings \in [Kinds -> Settings]
      /\ announcedBy \in [Kinds -> 0..Never]
  BY DEF StatusInv, OrderInv, TypeInv, TypeOK
<1> USE <1>0 DEF SettingsSaved, Up, NoJob
<1>1. ASSUME UNCHANGED <<settings, savedSettings, announcedBy, job>>, Up
      PROVE  SettingsSaved'
  BY <1>1
<1>2. ASSUME NEW a \in Admins, AdminCalls(a) PROVE SettingsSaved'
  BY <1>1, <1>2 DEF AdminCalls, Enqueue, siteVars
<1>3. CASE SetSetting \/ WriteItems
  BY <1>3 DEF SetSetting, WriteItems, StartWrite, JobStores, siteVars
<1>4. CASE Store
  <2>1. job'.stored /\ job'.kind = job.kind /\ Up /\ settings' = settings
    BY <1>4 DEF Store, Job, counterVars
  <2>2. ASSUME NEW k \in Kinds, job.kind # k
        PROVE  /\ savedSettings'[k] = savedSettings[k]
               /\ announcedBy'[k] = announcedBy[k]
    BY <1>4, <2>2 DEF Store
  <2> QED
    BY <2>1, <2>2
<1>5. CASE StoreReturns
  BY <1>5 DEF StoreReturns, WriteEnds, JobStores
<1>6. CASE StoreThrows
  BY <1>6 DEF StoreThrows, WriteEnds
<1>7. CASE CounterStep
  BY <1>1, <1>7 DEF CounterStep, SaveCounter, SaveFails, Commit, siteVars
<1>8. ASSUME NEW t \in Tabs, Poll(t) PROVE SettingsSaved'
  BY <1>1, <1>8 DEF Poll, siteVars, counterVars
<1>9. CASE Crash
  BY <1>9 DEF Crash, Die
<1>10. CASE Boot
  BY <1>10 DEF Boot
<1>11. CASE UNCHANGED vars
  BY <1>11 DEF vars
<1> QED
  BY <1>2, <1>3, <1>4, <1>5, <1>6, <1>7, <1>8, <1>9, <1>10, <1>11
  DEF Next, WriteStep

LEMMA StatusInvAlways == Spec => [](TypeInv /\ OrderInv /\ StatusInv)
<1>1. TypeInv /\ OrderInv /\ StatusInv /\ [Next]_vars => StatusInv'
  BY NextBodiesCurrent, NextSettingsSaved DEF StatusInv
<1> QED
  BY <1>1, InitStatusInv, OrderInvAlways, PTL DEF Spec

(***************************************************************************)
(* What the setters promise the pollers (version.service.ts:129-130), for  *)
(* every setting whose version was announced: across restarts, failing     *)
(* counter saves and writes that throw, a tab that is answered with a 304  *)
(* between writes shows the setting in force.                              *)
(***************************************************************************)
THEOREM PollersAreCurrent == Spec => []PollerCurrent
<1>1. StatusInv => PollerCurrent
  BY DEF StatusInv, BodiesCurrent, PollerCurrent, Announced, Up
<1> QED
  BY <1>1, StatusInvAlways, PTL

(***************************************************************************)
(* A setting in force between writes is the one a restart brings back      *)
(* (version.service.ts:18-19), unless its last write threw after it had    *)
(* been stored.                                                            *)
(***************************************************************************)
THEOREM SettingsSurvive == Spec => []SettingsSurviveRestart
<1>1. OrderInv /\ StatusInv => SettingsSurviveRestart
  BY DEF OrderInv, JobStores, NoJob, StatusInv, SettingsSaved,
         SettingsSurviveRestart, Up
<1> QED
  BY <1>1, StatusInvAlways, PTL
=============================================================================
