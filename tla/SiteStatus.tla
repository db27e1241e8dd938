---------------------------- MODULE SiteStatus ----------------------------
(***************************************************************************)
(* Site settings (maintenance and page notice) over the version counter:   *)
(* setMaintenance and setNotice of version.service.ts and getSiteStatus of *)
(* site.controller.ts. Every open tab polls the status; the browser keeps  *)
(* the body and revalidates it with the ETag, which is the global version. *)
(***************************************************************************)
EXTENDS VersionCounter

CONSTANTS
  Tabs,
  Settings,   \* values a setting can take
  Default     \* the value of DEFAULT_MAINTENANCE and DEFAULT_NOTICE

ASSUME DefaultAssumption == Default \in Settings

Kinds == {"maintenance", "notice"}
NoEtag == -1

VARIABLES
  settings,       \* settings[k]: in memory
  savedSettings,  \* savedSettings[k]: in app_state
  itemVersion,    \* version of the newest item
  job,            \* the running write
  etag, body,     \* what a tab's browser cached
  \* For the properties only:
  announcedBy     \* announcedBy[k]: the version that setting k was stored
                  \* under, or Never

siteVars == <<settings, savedSettings, itemVersion, announcedBy>>
tabVars == <<etag, body>>
vars == <<committedVersion, appVersion, writeQueue, phase, settings,
          savedSettings, itemVersion, job, etag, body, announcedBy>>

\* The version of a setting whose write threw after it had been stored.
Never == MaxVersion + 1

NoJob == [kind |-> "none", value |-> Default, stored |-> FALSE]
Job == [kind : Kinds \union {"none", "items"}, value : Settings,
        stored : BOOLEAN]

TypeOK ==
  /\ CounterTypeOK
  /\ settings \in [Kinds -> Settings]
  /\ savedSettings \in [Kinds -> Settings]
  /\ itemVersion \in 0..MaxVersion
  /\ job \in Job
  /\ etag \in [Tabs -> {NoEtag} \union 0..MaxVersion]
  /\ body \in [Tabs -> [Kinds -> Settings]]
  /\ announcedBy \in [Kinds -> 0..Never]

Init ==
  /\ CounterInit
  /\ settings = [k \in Kinds |-> Default]
  /\ savedSettings = [k \in Kinds |-> Default]
  /\ itemVersion = 0
  /\ job = NoJob
  /\ etag = [t \in Tabs |-> NoEtag]
  /\ body = [t \in Tabs |-> [k \in Kinds |-> Default]]
  /\ announcedBy = [k \in Kinds |-> 0]

----------------------------------------------------------------------------
AdminCalls(a) ==
  /\ Enqueue(a)
  /\ UNCHANGED <<siteVars, job, tabVars>>

\* setMaintenance or setNotice reaches the head of the queue.
SetSetting ==
  /\ StartWrite
  /\ \E k \in Kinds, v \in Settings :
       job' = [kind |-> k, value |-> v, stored |-> FALSE]
  /\ UNCHANGED <<siteVars, tabVars>>

\* An item write: for the status it is only a version of its own.
WriteItems ==
  /\ StartWrite
  /\ job' = [kind |-> "items", value |-> Default, stored |-> FALSE]
  /\ UNCHANGED <<siteVars, tabVars>>

\* The database applies the write's update.
Store ==
  /\ phase = "write"
  /\ ~job.stored
  /\ job' = [job EXCEPT !.stored = TRUE]
  /\ IF job.kind = "items"
       THEN /\ itemVersion' = NextVersion
            /\ UNCHANGED <<savedSettings, announcedBy>>
       ELSE /\ savedSettings' = [savedSettings EXCEPT ![job.kind] = job.value]
            /\ announcedBy' = [announcedBy EXCEPT ![job.kind] = NextVersion]
            /\ UNCHANGED itemVersion
  /\ UNCHANGED <<counterVars, settings, tabVars>>

\* The update is acknowledged and the setting takes effect in memory.
StoreReturns ==
  /\ job.stored
  /\ WriteEnds
  /\ settings' = [k \in Kinds |-> IF k = job.kind THEN job.value
                                                  ELSE settings[k]]
  /\ job' = NoJob
  /\ UNCHANGED <<savedSettings, itemVersion, announcedBy, tabVars>>

\* The update throws; the assignment to memory is skipped.
StoreThrows ==
  /\ job.stored => "tornWrite" \in Faults
  /\ WriteEnds
  /\ job' = NoJob
  /\ announcedBy' = IF job.stored /\ job.kind \in Kinds
                      THEN [announcedBy EXCEPT ![job.kind] = Never]
                      ELSE announcedBy
  /\ UNCHANGED <<settings, savedSettings, itemVersion, tabVars>>

CounterStep ==
  /\ SaveCounter \/ SaveFails \/ Commit
  /\ UNCHANGED <<siteVars, job, tabVars>>

\* Mutant of Poll: without `no-cache` the browser asks once.
PollOnce(t) ==
  /\ Up
  /\ etag[t] = NoEtag
  /\ etag' = [etag EXCEPT ![t] = committedVersion]
  /\ body' = [body EXCEPT ![t] = settings]
  /\ UNCHANGED <<counterVars, siteVars, job>>

\* GET /site/status: one synchronous handler. An equal ETag is a 304 and the
\* tab keeps the body it has.
Poll(t) ==
  /\ Up
  /\ etag' = [etag EXCEPT ![t] = committedVersion]
  /\ body' = [body EXCEPT ![t] = IF etag[t] = committedVersion
                                   THEN body[t] ELSE settings]
  /\ UNCHANGED <<counterVars, siteVars, job>>

\* `settings` is overwritten before anyone can ask for it again.
Crash ==
  /\ Die
  /\ job' = NoJob
  /\ settings' = [k \in Kinds |-> Default]
  /\ UNCHANGED <<savedSettings, itemVersion, announcedBy, tabVars>>

\* Mutant of Boot: the saved settings are not loaded.
BootWithDefaults ==
  /\ Recover(itemVersion)
  /\ UNCHANGED <<siteVars, job, tabVars>>

\* initVersionState.
Boot ==
  /\ Recover(itemVersion)
  /\ settings' = savedSettings
  /\ UNCHANGED <<savedSettings, itemVersion, announcedBy, job, tabVars>>

WriteStep ==
  SetSetting \/ WriteItems \/ Store \/ StoreReturns \/ StoreThrows
    \/ CounterStep

Next ==
  \/ \E a \in Admins : AdminCalls(a)
  \/ WriteStep
  \/ \E t \in Tabs : Poll(t)
  \/ Crash
  \/ Boot

Spec == Init /\ [][Next]_vars

\* The database answers, and an open tab polls.
FairSpec == Spec /\ WF_vars(WriteStep) /\ \A t \in Tabs : WF_vars(Poll(t))

----------------------------------------------------------------------------

\* Setting k is in force under a version that was announced.
Announced(k) == announcedBy[k] <= committedVersion

(***************************************************************************)
(* "Both setters bump the version, which changes the status ETag, so       *)
(* pollers pick the new state up on their next check"                      *)
(* (version.service.ts:129-130): between writes, a tab whose next check    *)
(* will be a 304 shows the settings that are in force.                     *)
(***************************************************************************)
StatusCurrent ==
  phase = "idle" =>
    \A t \in Tabs : etag[t] = committedVersion => body[t] = settings

(***************************************************************************)
(* What is left of it with restarts, failing counter saves and writes that *)
(* throw: every setting whose version was announced is shown. The others   *)
(* are those of a write that threw after it had been stored, or that has   *)
(* not been followed by a counter save yet.                                *)
(***************************************************************************)
PollerCurrent ==
  phase = "idle" =>
    \A t \in Tabs, k \in Kinds :
      etag[t] = committedVersion /\ Announced(k) => body[t][k] = settings[k]

(***************************************************************************)
(* "They're persisted to the app_state document on every change and        *)
(* reloaded at boot" (version.service.ts:18-19): between writes, a setting *)
(* in force is what a restart would bring back, unless its last write      *)
(* threw after it had been stored.                                         *)
(***************************************************************************)
SettingsSurviveRestart ==
  phase = "idle" =>
    \A k \in Kinds : announcedBy[k] # Never => settings[k] = savedSettings[k]

(***************************************************************************)
(* If the process dies finitely often, an open tab keeps coming to show    *)
(* what is in force and announced.                                         *)
(***************************************************************************)
TabsConverge ==
  <>[]Up =>
    \A t \in Tabs :
      []<>(\A k \in Kinds : Announced(k) => body[t][k] = settings[k])
===========================================================================
