---------------------------- MODULE Deployment ----------------------------
(***************************************************************************)
(* Blue/green deployment: deploy/deploy.sh replaces the color that nginx   *)
(* serves by a new one, each a process of server.ts with a version counter *)
(* and a cached list of its own, over one database. The insert script      *)
(* (local/insertPrefixMatches.ts) is one more process that loads the state *)
(* and writes once. "This server already assumes a single process"         *)
(* (version.service.ts:13-14); here is what happens while there are two.   *)
(*                                                                         *)
(* Reads are atomic here, and so is what a write does after its database   *)
(* call; ItemSync has the interleavings inside one process, its queue and  *)
(* its failures.                                                           *)
(***************************************************************************)
EXTENDS Integers

CONSTANTS
  Items, Clients,
  NoList,      \* nothing cached
  MaxVersion,  \* bound: versions handed out
  MaxWrites    \* bound: writes that reach the database

ASSUME BoundsAssumption == MaxVersion \in Nat /\ MaxWrites \in Nat

Colors == {"blue", "green"}
Script == "script"
Processes == Colors \union {Script}
Other(color) == CHOOSE c \in Colors : c # color

VARIABLES
  rows,        \* rows[i]: its version and the number of the write it holds
  app,         \* app_state: version and settings
  process,     \* process[p]: a container, or the script
  file,        \* the color in nginx's upstream file
  upstream,    \* the color nginx sends requests to
  deploy,      \* where deploy.sh is, and the color it works on
  writes,      \* writes so far; a setting's value is the number of its write
  label, replica,   \* what a client holds, see ItemSync
  \* For the properties only:
  lastSetting, \* the setting that was stored last
  behind,      \* processes that loaded a state others have changed since
  misled,      \* clients that a process answered which was behind
  staleWrite   \* a process that was behind has written what it had loaded:
               \* the saved state at boot, or an item with the next version

dbVars == <<rows, app, writes, lastSetting>>
nginxVars == <<file, upstream>>
clientVars == <<label, replica, misled>>
vars == <<rows, app, process, file, upstream, deploy, writes, label, replica,
          lastSetting, behind, misled, staleWrite>>

Lists == [Items -> 0..MaxWrites]
Versions == 0..MaxVersion

\* `job`: the write under way, before and after its database call; `open`:
\* its admin still holds the connection; `cut`: the process has reported a
\* completed shutdown while an admin had no answer.
Gone == [stage |-> "gone", version |-> 0, setting |-> 0, entry |-> NoList,
         job |-> "none", open |-> TRUE, cut |-> FALSE]
Fresh == [Gone EXCEPT !.stage = "starting"]

Process ==
  [stage : {"gone", "starting", "loaded", "serving", "closing"},
   version : Versions, setting : 0..MaxWrites,
   entry : Lists \union {NoList},
   job : {"none", "item", "setting", "itemStored", "settingStored"},
   open : BOOLEAN, cut : BOOLEAN]

Init ==
  /\ rows = [i \in Items |-> [version |-> 0, write |-> 0]]
  /\ app = [version |-> 0, setting |-> 0]
  /\ process = [p \in Processes |->
                  IF p = "blue" THEN [Fresh EXCEPT !.stage = "serving"]
                                ELSE Gone]
  /\ file = "blue" /\ upstream = "blue"
  /\ deploy = [step |-> "idle", target |-> "green"]
  /\ writes = 0 /\ lastSetting = 0
  /\ label = [c \in Clients |-> -1]
  /\ replica = [c \in Clients |-> [i \in Items |-> 0]]
  /\ behind = {} /\ misled = {} /\ staleWrite = FALSE

----------------------------------------------------------------------------
(* A process: boot and shutdown. *)

CurrentList == [i \in Items |-> rows[i].write]

Becomes(p, new) == process' = [process EXCEPT ![p] = new]

\* The processes with a loaded state, other than p.
Loaded(p) ==
  {q \in Processes \ {p} : process[q].stage \notin {"gone", "starting"}}

Larger(m, n) == IF m >= n THEN m ELSE n

\* Item.findOne().sort({ version: -1 }), or 0 without items.
IsNewestVersion(v) ==
  /\ \A i \in Items : rows[i].version <= v
  /\ v = 0 \/ \E i \in Items : rows[i].version = v

Loads(p, setting) ==
  /\ process[p].stage = "starting"
  /\ \E v \in Versions :
       /\ IsNewestVersion(v)
       /\ Becomes(p, [process[p] EXCEPT !.stage = "loaded",
                                        !.version = Larger(app.version, v),
                                        !.setting = setting])
  /\ behind' = behind \ {p}
  /\ UNCHANGED <<dbVars, nginxVars, deploy, clientVars, staleWrite>>

\* Mutant of BootLoads: the stored settings are not read.
BootLoadsDefaults(p) == Loads(p, 0)

\* initVersionState reads the counter, the settings and the newest item.
BootLoads(p) == Loads(p, app.setting)

\* It saves what it loaded with a plain $set; then the server listens.
BootSaves(p) ==
  /\ process[p].stage = "loaded"
  /\ app' = [version |-> process[p].version, setting |-> process[p].setting]
  /\ Becomes(p, [process[p] EXCEPT !.stage = "serving"])
  /\ staleWrite' = (staleWrite \/ p \in behind)
  /\ UNCHANGED <<rows, writes, lastSetting, nginxVars, deploy, clientVars,
                 behind>>

Busy(p) == process[p].job # "none"

\* The process ends.
Exits(p, new) ==
  /\ Becomes(p, new)
  /\ behind' = behind \ {p}
  /\ UNCHANGED <<dbVars, nginxVars, deploy, clientVars, staleWrite>>

Closes(p) == Exits(p, [Gone EXCEPT !.cut = Busy(p) /\ process[p].open])

\* Mutant of ServerCloses: the database is disconnected at once.
ServerClosesAtOnce(p) ==
  /\ process[p].stage = "closing"
  /\ Closes(p)

\* server.close() resolves when no connection is open, and the process exits
\* with 0 - also when a client has gone whose request is still running.
ServerCloses(p) ==
  /\ process[p].stage = "closing"
  /\ ~Busy(p) \/ ~process[p].open
  /\ Closes(p)

\* Mutant of ForcedExit: there is no timer.
ForcedExitNever(p) == FALSE /\ Exits(p, Gone)

\* SHUTDOWN_TIMEOUT_MS have passed.
ForcedExit(p) ==
  /\ process[p].stage = "closing"
  /\ Exits(p, Gone)

\* The admin's connection breaks; the handler goes on. (Before the shutdown
\* this makes no difference.)
ClientAborts(p) ==
  /\ process[p].stage = "closing"
  /\ Busy(p) /\ process[p].open
  /\ Becomes(p, [process[p] EXCEPT !.open = FALSE])
  /\ UNCHANGED <<dbVars, nginxVars, deploy, clientVars, behind, staleWrite>>

\* The container gets a SIGTERM. The first starts the shutdown; a second
\* finds it under way, returns from gracefulShutdown and exits at once.
Signalled(p) ==
  CASE process[p].stage = "gone"    -> process[p]
    [] process[p].stage = "closing" -> Gone
    [] OTHER -> [process[p] EXCEPT !.stage = "closing"]

----------------------------------------------------------------------------
(* deploy.sh. *)

At(step) == deploy.step = step
Goes(step, target) == deploy' = [step |-> step, target |-> target]

\* Replaces what compose down stops: `target` gets its SIGTERM.
StopsTarget(target) ==
  /\ Becomes(target, Signalled(target))
  /\ behind' = IF process'[target].stage = "gone" THEN behind \ {target}
                                                  ELSE behind

\* compose up --force-recreate of the color that is not in the file: a
\* container that is left of it is stopped first.
DeployStarts ==
  /\ At("idle")
  /\ process[Script] = Gone   \* bound
  /\ Goes("recreate", Other(file))
  /\ StopsTarget(Other(file))
  /\ UNCHANGED <<dbVars, nginxVars, clientVars, staleWrite>>

Recreated ==
  /\ At("recreate")
  /\ process[deploy.target].stage = "gone"
  /\ Goes("health", deploy.target)
  /\ Becomes(deploy.target, Fresh)
  /\ UNCHANGED <<dbVars, nginxVars, clientVars, behind, staleWrite>>

\* Mutant of WriteFile: without a health check.
WriteFileUnchecked ==
  /\ At("health")
  /\ Goes("written", deploy.target)
  /\ file' = deploy.target
  /\ UNCHANGED <<dbVars, process, upstream, clientVars, behind, staleWrite>>

\* GET /site/status of the new color answers: it goes into the file.
WriteFile ==
  /\ At("health")
  /\ process[deploy.target].stage = "serving"
  /\ Goes("written", deploy.target)
  /\ file' = deploy.target
  /\ UNCHANGED <<dbVars, process, upstream, clientVars, behind, staleWrite>>

\* The deadline passes, or nginx -t fails and the file is put back: the new
\* color is taken down.
GivesUp ==
  /\ At("health") \/ At("written")
  /\ Goes("down", deploy.target)
  /\ file' = Other(deploy.target)
  /\ StopsTarget(deploy.target)
  /\ UNCHANGED <<dbVars, upstream, clientVars, staleWrite>>

\* systemctl reload nginx; from here on the script is about the old color.
Reload ==
  /\ At("written")
  /\ Goes("drain", Other(deploy.target))
  /\ upstream' = file
  /\ UNCHANGED <<dbVars, process, file, clientVars, behind, staleWrite>>

\* DRAIN_S are over: compose down of the old color.
Drained ==
  /\ At("drain")
  /\ Goes("down", deploy.target)
  /\ StopsTarget(deploy.target)
  /\ UNCHANGED <<dbVars, nginxVars, clientVars, staleWrite>>

\* compose down returns.
DeployEnds ==
  /\ At("down")
  /\ process[deploy.target].stage = "gone"
  /\ Goes("idle", deploy.target)
  /\ UNCHANGED <<dbVars, process, nginxVars, clientVars, behind, staleWrite>>

\* A command fails (set -e) or the operator's shell dies; containers go on.
DeployAborted ==
  /\ ~At("idle")
  /\ Goes("idle", deploy.target)
  /\ UNCHANGED <<dbVars, process, nginxVars, clientVars, behind, staleWrite>>

DeployStep ==
  Recreated \/ WriteFile \/ GivesUp \/ Reload \/ Drained \/ DeployEnds

----------------------------------------------------------------------------
(* Writes. *)

\* A write request reaches the color that nginx serves.
Accept(p) ==
  /\ process[p].stage = "serving"
  /\ p = upstream
  /\ ~Busy(p)
  /\ \E kind \in {"item", "setting"} :
       Becomes(p, [process[p] EXCEPT !.job = kind])
  /\ UNCHANGED <<dbVars, nginxVars, deploy, clientVars, behind, staleWrite>>

\* insertPrefixMatches --run. From here it boots and writes items like a
\* server that nobody asks anything. Bound: no deployment is under way then
\* (a color that an aborted one has left may be).
ScriptRuns ==
  /\ At("idle")
  /\ process[Script] = Gone
  /\ Becomes(Script, [Fresh EXCEPT !.job = "item"])
  /\ UNCHANGED <<dbVars, nginxVars, deploy, clientVars, behind, staleWrite>>

\* It ends after its write, or the operator stops it before.
ScriptEnds ==
  /\ process[Script].stage = "serving"
  /\ process[Script].job \in {"none", "item"}
  /\ Exits(Script, Gone)

\* p changes the database: every loaded state but its own is out of date.
Outdates(p) == behind' = behind \union Loaded(p)

\* The database call of a write, also while the server is closing.
Store(p) ==
  /\ process[p].stage \in {"serving", "closing"}
  /\ process[p].version < MaxVersion /\ writes < MaxWrites
  /\ writes' = writes + 1
  /\ Outdates(p)

StoreItem(p) ==
  /\ process[p].job = "item"
  /\ Store(p)
  /\ \E i \in Items :
       rows' = [rows EXCEPT ![i] = [version |-> process[p].version + 1,
                                    write |-> writes']]
  /\ Becomes(p, [process[p] EXCEPT !.job = "itemStored"])
  /\ staleWrite' = (staleWrite \/ p \in behind)
  /\ UNCHANGED <<app, lastSetting, nginxVars, deploy, clientVars>>

\* In memory the setting changes when the call returns; nobody reads it here
\* before the write is finished.
StoreSetting(p) ==
  /\ process[p].job = "setting"
  /\ Store(p)
  /\ app' = [app EXCEPT !.setting = writes']
  /\ lastSetting' = writes'
  /\ Becomes(p, [process[p] EXCEPT !.job = "settingStored",
                                    !.setting = writes'])
  /\ UNCHANGED <<rows, nginxVars, deploy, clientVars, staleWrite>>

\* Mutant of WithoutEntry: itemsCache.invalidate() is missing.
WithEntry(p) == process[p]

WithoutEntry(p) == [process[p] EXCEPT !.entry = NoList]

\* The callback returns - a write of items drops the cache -, the counter is
\* saved with $max and advances.
Finishes(p, next) ==
  /\ process[p].job \in {"itemStored", "settingStored"}
  /\ app' = [app EXCEPT !.version = Larger(app.version,
                                             process[p].version + 1)]
  /\ LET new == IF process[p].job = "itemStored" THEN WithoutEntry(p)
                                                 ELSE process[p]
     IN  Becomes(p, [new EXCEPT !.job = "none", !.open = TRUE,
                                !.version = next])
  /\ Outdates(p)
  /\ UNCHANGED <<rows, writes, lastSetting, nginxVars, deploy, clientVars,
                 staleWrite>>

\* Mutant of FinishWrite: the version is counted twice.
FinishWriteTwice(p) == Finishes(p, process[p].version + 2)

FinishWrite(p) == Finishes(p, process[p].version + 1)

----------------------------------------------------------------------------
(* Clients. *)

Answered(c, p, list) ==
  /\ process[p].stage = "serving"
  /\ label' = [label EXCEPT ![c] = process[p].version]
  /\ replica' = [replica EXCEPT ![c] = list]

\* listItems, or listItemChanges when `since` is missing or ahead.
FullList(c) ==
  LET p == upstream
      list == IF process[p].entry = NoList THEN CurrentList
                                           ELSE process[p].entry
  IN  /\ Answered(c, p, list)
      /\ Becomes(p, [process[p] EXCEPT !.entry = list])
      /\ misled' = IF p \in behind THEN misled \union {c} ELSE misled \ {c}
      /\ UNCHANGED <<dbVars, nginxVars, deploy, behind, staleWrite>>

\* listItemChanges since the client's label.
Changes(c) ==
  /\ label[c] \in 0..process[upstream].version
  /\ Answered(c, upstream, [i \in Items |->
        IF rows[i].version > label[c] THEN rows[i].write ELSE replica[c][i]])
  /\ misled' = IF upstream \in behind THEN misled \union {c} ELSE misled
  /\ UNCHANGED <<dbVars, process, nginxVars, deploy, behind, staleWrite>>

EntryExpires(p) ==
  /\ process[p].entry # NoList
  /\ Becomes(p, [process[p] EXCEPT !.entry = NoList])
  /\ UNCHANGED <<dbVars, nginxVars, deploy, clientVars, behind, staleWrite>>

----------------------------------------------------------------------------

ProcessStep(p) ==
  \/ BootLoads(p) \/ BootSaves(p) \/ ServerCloses(p) \/ ForcedExit(p)
  \/ Accept(p) \/ ClientAborts(p) \/ StoreItem(p) \/ StoreSetting(p)
  \/ FinishWrite(p) \/ EntryExpires(p)

Next ==
  \/ DeployStarts \/ DeployStep \/ DeployAborted
  \/ ScriptRuns \/ ScriptEnds
  \/ \E p \in Processes : ProcessStep(p)
  \/ \E c \in Clients : FullList(c) \/ Changes(c)

Spec == Init /\ [][Next]_vars

\* deploy.sh runs on by itself, its waits are bounded (HEALTH_TIMEOUT_S,
\* DRAIN_S), and the shutdown timer fires. Nothing is assumed of the
\* database: a call may never settle.
Fairness ==
  /\ WF_vars(DeployStep)
  /\ \A p \in Colors : WF_vars(ForcedExit(p))

FairSpec == Spec /\ Fairness

----------------------------------------------------------------------------
(* Properties. *)

\* The state is well-formed; no process counts beyond the versions that were
\* handed out.
TypeOK ==
  /\ rows \in [Items -> [version : Versions, write : 0..MaxWrites]]
  /\ app \in [version : Versions, setting : 0..MaxWrites]
  /\ process \in [Processes -> Process]
  /\ file \in Colors /\ upstream \in Colors
  /\ deploy \in [step : {"idle", "recreate", "health", "written", "drain",
                         "down"}, target : Colors]
  /\ writes \in 0..MaxWrites /\ lastSetting \in 0..MaxWrites
  /\ label \in [Clients -> {-1} \union Versions]
  /\ replica \in [Clients -> Lists]
  /\ behind \subseteq Processes /\ misled \subseteq Clients
  /\ staleWrite \in BOOLEAN

\* Across a switch of colors a client labelled v holds every row that was
\* last written at v or before - unless the process that answered it had
\* loaded its counter before another process wrote (the old color while it
\* drains, or the script), or such a process had stamped a row or overwritten
\* the counter with what it loaded (version.service.ts:72-76, 113).
ClientCurrent ==
  ~staleWrite =>
    \A c \in Clients \ misled, i \in Items :
      rows[i].version <= label[c] => replica[c][i] = rows[i].write

\* A setting that was stored is not undone by a deployment, and the color
\* that serves shows it between writes - with the same two exceptions.
SettingsKept ==
  ~staleWrite =>
    /\ app.setting = lastSetting
    /\ process[upstream].stage = "serving" /\ upstream \notin behind
         /\ process[upstream].job = "none"
       => process[upstream].setting = lastSetting

\* deploy.sh:6-8: there is no cutoff. nginx has a color that serves, and a
\* shutdown that reports success has answered every admin who still waits -
\* unless an aborted run left a file that is ahead of nginx, so that the next
\* one recreates the color nginx serves, or a second SIGTERM came.
NoCutoff ==
  /\ upstream # deploy.target => process[upstream].stage = "serving"
  /\ \A p \in Processes : ~process[p].cut

\* A deployment comes to its end even if a database call never settles.
DeploymentEnds == ~At("idle") ~> At("idle")
===========================================================================
