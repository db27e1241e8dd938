--------------------------- MODULE DeploymentProofs ---------------------------
(***************************************************************************)
(* Proofs of the invariants of Deployment, for any number of items,        *)
(* clients, versions and writes. What makes clients current while two      *)
(* processes write is an agreement between all processes that nobody has   *)
(* left behind: no version one of them has announced is ahead of what any  *)
(* other will hand out next.                                               *)
(***************************************************************************)
EXTENDS Deployment, TLAPS

\* What a process is in, with what it has loaded.
WellFormed(p, r) ==
  /\ r.job \in {"itemStored", "settingStored"} =>
       /\ r.stage \in {"serving", "closing"}
       /\ r.version < MaxVersion
  /\ r.stage \in {"gone", "starting"} =>
       /\ r.entry = NoList
       /\ p # Script => r.job = "none"
  /\ ~r.cut

ShapeInv == TypeOK /\ \A p \in Processes : WellFormed(p, process[p])

(* nginx and deploy.sh. *)

\* The color in the file is served as soon as nginx reads it; the color
\* deploy.sh recreates is not in the file, and the one it drains is not
\* nginx's.
DeployInv ==
  /\ upstream # deploy.target => process[upstream].stage = "serving"
  /\ file = upstream => process[upstream].stage = "serving"
  /\ At("written") => /\ file = deploy.target
                      /\ process[deploy.target].stage = "serving"
  /\ At("recreate") \/ At("health") => file # deploy.target
  /\ At("drain") => upstream # deploy.target

(* The processes and the database. *)

\* A process that may still use what it has loaded. (A container that is
\* stopped while it boots has loaded nothing, but it has no job either.)
Uses(r) == \/ r.stage \in {"loaded", "serving"}
           \/ r.stage = "closing" /\ r.job # "none"

\* Those whose loaded state nobody else has changed since.
UpToDate == {p \in Processes : Uses(process[p])} \ behind

\* The highest version a process has given a row.
Reach(r) == IF r.job = "itemStored" THEN r.version + 1 ELSE r.version

\* The database knows of version n.
Covered(n) == n <= app.version \/ \E i \in Items : n <= rows[i].version

\* No process that is up to date is ahead of what p hands out next, nor are
\* the database and the clients; p's settings and its cached list are true.
ProcessSound(r) ==
  /\ \A i \in Items : rows[i].version <= Reach(r)
  /\ app.version <= Reach(r)
  /\ \A q \in UpToDate : process[q].version <= Reach(r)
  /\ \A c \in Clients \ misled : label[c] <= Reach(r)
  /\ Covered(r.version)
  /\ r.setting = app.setting
  /\ r.entry # NoList =>
       \A i \in Items : rows[i].version <= r.version =>
         r.entry[i] = rows[i].write

ClientSound(c) ==
  /\ Covered(label[c])
  /\ \A i \in Items : rows[i].version <= label[c] =>
       replica[c][i] = rows[i].write

CurrentInv ==
  ~staleWrite =>
    /\ \A p \in UpToDate : ProcessSound(process[p])
    /\ \A c \in Clients \ misled : ClientSound(c)
    /\ app.setting = lastSetting

IInv == ShapeInv /\ DeployInv /\ CurrentInv

-------------------------------------------------------------------------------
(* Steps that change one process, or none. *)

LEMMA ProcessType ==
  ASSUME ShapeInv, NEW p \in Processes
  PROVE  /\ process[p] \in Process /\ WellFormed(p, process[p])
         /\ process[p].version \in Versions
         /\ process[p].setting \in 0..MaxWrites
         /\ process[p].entry \in Lists \union {NoList}
         /\ process[p].open \in BOOLEAN /\ process[p].cut \in BOOLEAN
         /\ process[p].stage \in
              {"gone", "starting", "loaded", "serving", "closing"}
         /\ process[p].job \in
              {"none", "item", "setting", "itemStored", "settingStored"}
BY DEF ShapeInv, TypeOK, Process

LEMMA Replaced ==
  ASSUME ShapeInv, NEW p \in Processes, NEW new \in Process, Becomes(p, new),
         WellFormed(p, new)
  PROVE  /\ process'[p] = new
         /\ \A q \in Processes \ {p} : process'[q] = process[q]
         /\ process' \in [Processes -> Process]
         /\ \A q \in Processes : WellFormed(q, process'[q])
BY DEF ShapeInv, TypeOK, Becomes

\* `new` claims nothing that `old` has not claimed.
Milder(old, new) ==
  Uses(new) =>
    /\ Uses(old)
    /\ new.version = old.version /\ new.setting = old.setting
    /\ Reach(new) = Reach(old)
    /\ new.entry = old.entry \/ new.entry = NoList

LEMMA QuietStep ==
  ASSUME ShapeInv, CurrentInv, NEW p \in Processes, NEW new \in Process,
         Becomes(p, new), WellFormed(p, new), Milder(process[p], new),
         UNCHANGED <<dbVars, clientVars, staleWrite>>,
         file' \in Colors, upstream' \in Colors, deploy' \in
           [step : {"idle", "recreate", "health", "written", "drain", "down"},
            target : Colors],
         \/ behind' = behind
         \/ behind' = behind \ {p} /\ ~Uses(new)
  PROVE  ShapeInv' /\ CurrentInv'
<1>1. /\ process'[p] = new
      /\ \A q \in Processes \ {p} : process'[q] = process[q]
      /\ process' \in [Processes -> Process]
      /\ \A q \in Processes : WellFormed(q, process'[q])
  BY Replaced
<1>2. ShapeInv'
  <2>1. TypeOK'
    BY <1>1 DEF ShapeInv, TypeOK, dbVars, clientVars
  <2> QED
    BY <1>1, <2>1 DEF ShapeInv
<1>3. \A q \in UpToDate' : q \in UpToDate /\ Milder(process[q], process'[q])
  BY <1>1 DEF UpToDate, Milder
<1>4. ASSUME ~staleWrite, NEW q \in UpToDate' PROVE ProcessSound(process[q])'
  <2>1. ProcessSound(process[q]) /\ Milder(process[q], process'[q])
    BY <1>3, <1>4 DEF CurrentInv
  <2>2. Uses(process'[q])
    BY <1>4 DEF UpToDate
  <2>3. \A x \in UpToDate' : /\ x \in UpToDate
                             /\ process'[x].version = process[x].version
    BY <1>3 DEF UpToDate, Milder
  <2> QED
    BY <2>1, <2>2, <2>3
    DEF ProcessSound, Milder, Covered, dbVars, clientVars
<1>5. CurrentInv'
  BY <1>4 DEF CurrentInv, ClientSound, Covered, dbVars, clientVars
<1> QED
  BY <1>2, <1>5

\* No process changes.
LEMMA NoProcess ==
  ASSUME ShapeInv, CurrentInv,
         UNCHANGED <<dbVars, process, clientVars, behind, staleWrite>>,
         file' \in Colors, upstream' \in Colors, deploy' \in
           [step : {"idle", "recreate", "health", "written", "drain", "down"},
            target : Colors]
  PROVE  ShapeInv' /\ CurrentInv'
<1>1. "blue" \in Processes
  BY DEF Processes, Colors
<1>2. PICK new \in Process : new = process["blue"]
  BY <1>1, ProcessType
<1>3. Becomes("blue", new) /\ WellFormed("blue", new)
  BY <1>1, <1>2, ProcessType DEF Becomes, ShapeInv, TypeOK
<1>4. Milder(process["blue"], new)
  BY <1>2 DEF Milder
<1> QED
  BY <1>1, <1>3, <1>4, QuietStep

-------------------------------------------------------------------------------
(* Boot, shutdown and deployment, but for what boot reads and saves. *)

DeployTypes ==
  [step : {"idle", "recreate", "health", "written", "drain", "down"},
   target : Colors]

LEMMA Gones ==
  /\ Gone \in Process /\ Gone.stage = "gone" /\ Gone.job = "none"
  /\ Gone.entry = NoList /\ ~Gone.cut /\ ~Uses(Gone)
  /\ Fresh \in Process /\ Fresh.stage = "starting" /\ Fresh.job = "none"
  /\ Fresh.entry = NoList /\ ~Fresh.cut /\ ~Uses(Fresh)
  /\ \A p \in Processes : WellFormed(p, Gone) /\ WellFormed(p, Fresh)
<1>1. 0 \in Versions /\ 0 \in 0..MaxWrites
  BY BoundsAssumption DEF Versions
<1> QED
  BY <1>1 DEF Gone, Fresh, Process, Uses, WellFormed

LEMMA Rest ==
  ASSUME ShapeInv
  PROVE  /\ file \in Colors /\ upstream \in Colors /\ deploy \in DeployTypes
         /\ deploy.step \in
              {"idle", "recreate", "health", "written", "drain", "down"}
         /\ deploy.target \in Colors
         /\ Colors \subseteq Processes /\ Script \notin Colors
         /\ \A color \in Colors : Other(color) \in Colors \ {color}
<1>1. \A color \in Colors : Other(color) \in Colors \ {color}
  BY DEF Other, Colors
<1> QED
  BY <1>1 DEF ShapeInv, TypeOK, DeployTypes, Processes, Colors, Script

LEMMA ExitStep ==
  ASSUME ShapeInv, CurrentInv, NEW p \in Processes, Exits(p, Gone)
  PROVE  ShapeInv' /\ CurrentInv'
<1>1. Milder(process[p], Gone)
  BY Gones DEF Milder
<1> QED
  BY <1>1, Gones, Rest, QuietStep DEF Exits, nginxVars, DeployTypes

LEMMA ShutdownStep ==
  ASSUME ShapeInv, CurrentInv, NEW p \in Processes,
         ServerCloses(p) \/ ForcedExit(p) \/ (p = Script /\ ScriptEnds)
  PROVE  ShapeInv' /\ CurrentInv'
<1>1. CASE ServerCloses(p)
  <2>1. (Busy(p) /\ process[p].open) = FALSE
    BY <1>1, ProcessType DEF ServerCloses
  <2>2. [Gone EXCEPT !.cut = FALSE] = Gone
    <3>1. Gone \in Process /\ Gone.cut = FALSE
      BY Gones DEF Gone
    <3> QED
      BY <3>1 DEF Process
  <2>3. [Gone EXCEPT !.cut = Busy(p) /\ process[p].open] = Gone
    BY <2>1, <2>2, Zenon
  <2>4. Exits(p, [Gone EXCEPT !.cut = Busy(p) /\ process[p].open])
    BY <1>1, Zenon DEF ServerCloses, Closes
  <2>5. Exits(p, Gone)
    BY <2>3, <2>4, Zenon DEF Exits, Becomes
  <2> QED
    BY <2>5, ExitStep
<1>2. CASE ForcedExit(p)
  BY <1>2, ExitStep DEF ForcedExit
<1>3. CASE p = Script /\ ScriptEnds
  BY <1>3, ExitStep DEF ScriptEnds
<1> QED
  BY <1>1, <1>2, <1>3

LEMMA ServingStep ==
  ASSUME ShapeInv, CurrentInv, NEW p \in Processes,
         Accept(p) \/ ClientAborts(p) \/ EntryExpires(p)
  PROVE  ShapeInv' /\ CurrentInv'
<1> USE Rest, QuietStep DEF DeployTypes
<1>1. CASE Accept(p)
  <2>1. PICK kind \in {"item", "setting"} :
          Becomes(p, [process[p] EXCEPT !.job = kind])
    BY <1>1 DEF Accept
  <2> DEFINE new == [process[p] EXCEPT !.job = kind]
  <2>2. /\ new \in Process /\ WellFormed(p, new) /\ Milder(process[p], new)
    BY <1>1, ProcessType
    DEF Accept, Busy, Process, WellFormed, Milder, Uses, Reach
  <2> QED
    BY <1>1, <2>1, <2>2 DEF Accept, nginxVars
<1>2. CASE ClientAborts(p)
  <2> DEFINE new == [process[p] EXCEPT !.open = FALSE]
  <2>1. /\ new \in Process /\ WellFormed(p, new) /\ Milder(process[p], new)
    BY ProcessType DEF Process, WellFormed, Milder, Uses, Reach
  <2> QED
    BY <1>2, <2>1 DEF ClientAborts, nginxVars
<1>3. CASE EntryExpires(p)
  <2> DEFINE new == [process[p] EXCEPT !.entry = NoList]
  <2>1. /\ new \in Process /\ WellFormed(p, new) /\ Milder(process[p], new)
    BY ProcessType DEF Process, WellFormed, Milder, Uses, Reach
  <2> QED
    BY <1>3, <2>1 DEF EntryExpires, nginxVars
<1> QED
  BY <1>1, <1>2, <1>3

LEMMA ScriptRunsStep ==
  ASSUME ShapeInv, CurrentInv, ScriptRuns
  PROVE  ShapeInv' /\ CurrentInv'
<1> DEFINE new == [Fresh EXCEPT !.job = "item"]
<1>1. /\ new \in Process /\ new.stage = "starting" /\ new.job = "item"
      /\ new.entry = NoList /\ ~new.cut
  <2>1. 0 \in Versions /\ 0 \in 0..MaxWrites
    BY BoundsAssumption DEF Versions
  <2> QED
    BY <2>1 DEF Gone, Fresh, Process
<1>2. WellFormed(Script, new) /\ Milder(process[Script], new)
  BY <1>1 DEF WellFormed, Milder, Uses
<1>3. Script \in Processes
  BY DEF Processes
<1> QED
  BY <1>1, <1>2, <1>3, Rest, QuietStep DEF ScriptRuns, nginxVars, DeployTypes

\* A signal ends a process or lets it close.
LEMMA SignalledMilder ==
  ASSUME ShapeInv, NEW p \in Colors
  PROVE  /\ p \in Processes
         /\ Signalled(p) \in Process
         /\ WellFormed(p, Signalled(p))
         /\ Milder(process[p], Signalled(p))
         /\ Signalled(p).stage \in {"gone", "closing"}
<1>1. p \in Processes /\ p # Script
  BY Rest
<1>2. CASE process[p].stage = "gone"
  BY <1>1, <1>2, ProcessType DEF Signalled, Milder
<1>3. CASE process[p].stage = "closing"
  <2>1. Signalled(p) = Gone
    BY <1>3 DEF Signalled
  <2> QED
    BY <1>1, <2>1, Gones DEF Milder
<1>4. CASE process[p].stage \notin {"gone", "closing"}
  <2> DEFINE new == [process[p] EXCEPT !.stage = "closing"]
  <2>1. Signalled(p) = new
    BY <1>4 DEF Signalled
  <2>2. /\ new \in Process /\ new.stage = "closing"
        /\ new.job = process[p].job /\ new.version = process[p].version
        /\ new.setting = process[p].setting /\ new.entry = process[p].entry
        /\ new.cut = process[p].cut
    BY <1>1, ProcessType DEF Process
  <2> HIDE DEF new
  <2>3. WellFormed(p, new)
    BY <1>1, <2>2, ProcessType DEF WellFormed
  <2>4. Milder(process[p], new)
    BY <1>1, <1>4, <2>2, ProcessType DEF Milder, Uses, Reach, WellFormed
  <2> QED
    BY <1>1, <2>1, <2>2, <2>3, <2>4
<1> QED
  BY <1>2, <1>3, <1>4

LEMMA StopsTargetStep ==
  ASSUME ShapeInv, CurrentInv, NEW target \in Colors, StopsTarget(target),
         UNCHANGED <<dbVars, clientVars, staleWrite>>,
         file' \in Colors, upstream' \in Colors, deploy' \in DeployTypes
  PROVE  ShapeInv' /\ CurrentInv'
<1>1. PICK new \in Process : new = Signalled(target)
  BY SignalledMilder
<1>2. /\ target \in Processes /\ Becomes(target, new)
      /\ WellFormed(target, new) /\ Milder(process[target], new)
  BY <1>1, SignalledMilder DEF StopsTarget, Becomes
<1>3. process'[target] = new
  BY <1>2, Replaced
<1>4. \/ behind' = behind
      \/ behind' = behind \ {target} /\ ~Uses(new)
  BY <1>3 DEF StopsTarget, Uses
<1> QED
  BY <1>2, <1>4, QuietStep DEF DeployTypes

LEMMA DeploymentStep ==
  ASSUME ShapeInv, CurrentInv, DeployStarts \/ DeployStep \/ DeployAborted
  PROVE  ShapeInv' /\ CurrentInv'
<1>1. ASSUME NEW step \in {"idle", "recreate", "health", "written", "drain",
                           "down"}, NEW target \in Colors, Goes(step, target)
      PROVE  deploy' \in DeployTypes
  BY <1>1 DEF Goes, DeployTypes
<1>2. CASE DeployStarts
  BY <1>1, <1>2, Rest, StopsTargetStep DEF DeployStarts, nginxVars
<1>3. CASE Recreated
  <2>1. Milder(process[deploy.target], Fresh)
    BY Gones DEF Milder
  <2>2. PICK t \in Colors : t = deploy.target
    BY Rest
  <2>3. deploy' \in DeployTypes
    BY <1>1, <1>3, Rest DEF Recreated
  <2> QED
    BY <1>3, <2>1, <2>2, <2>3, Rest, Gones, QuietStep
    DEF Recreated, nginxVars, DeployTypes
<1>4. CASE GivesUp \/ Drained
  <2>1. PICK t \in Colors : t = deploy.target
    BY Rest
  <2>2. StopsTarget(t) /\ deploy' \in DeployTypes
    BY <1>1, <1>4, <2>1, Rest DEF GivesUp, Drained, StopsTarget
  <2>3. file' \in Colors /\ upstream' \in Colors
    BY <1>4, Rest DEF GivesUp, Drained, nginxVars
  <2> QED
    BY <1>4, <2>2, <2>3, StopsTargetStep DEF GivesUp, Drained
<1>5. CASE WriteFile \/ Reload \/ DeployEnds \/ DeployAborted
  <2>1. deploy' \in DeployTypes
    BY <1>1, <1>5, Rest DEF WriteFile, Reload, DeployEnds, DeployAborted
  <2>2. file' \in Colors /\ upstream' \in Colors
    BY <1>5, Rest DEF WriteFile, Reload, DeployEnds, DeployAborted, nginxVars
  <2> QED
    BY <1>5, <2>1, <2>2, NoProcess
    DEF WriteFile, Reload, DeployEnds, DeployAborted, nginxVars, DeployTypes
<1> QED
  BY <1>2, <1>3, <1>4, <1>5 DEF DeployStep

-------------------------------------------------------------------------------
(* Boot. *)

LEMMA DbTypes ==
  ASSUME ShapeInv
  PROVE  /\ app.version \in Versions /\ app.setting \in 0..MaxWrites
         /\ \A i \in Items : /\ rows[i].version \in Versions
                             /\ rows[i].write \in 0..MaxWrites
         /\ \A c \in Clients : /\ label[c] \in {-1} \union Versions
                               /\ replica[c] \in Lists
         /\ staleWrite \in BOOLEAN
         /\ Versions \subseteq Nat /\ 0..MaxWrites \subseteq Nat
         /\ app \in [version : Versions, setting : 0..MaxWrites]
BY BoundsAssumption DEF ShapeInv, TypeOK, Versions

LEMMA ReachType ==
  ASSUME ShapeInv, NEW p \in Processes
  PROVE  /\ Reach(process[p]) \in Nat
         /\ process[p].version \in Nat
         /\ process[p].version <= Reach(process[p])
         /\ Reach(process[p]) <= process[p].version + 1
BY ProcessType, DbTypes DEF Reach

LEMMA CoveredByLargest ==
  ASSUME ShapeInv, NEW v \in Versions, IsNewestVersion(v), NEW n \in Int,
         Covered(n)
  PROVE  n <= Larger(app.version, v)
BY DbTypes DEF IsNewestVersion, Covered, Larger

LEMMA BootLoadsStep ==
  ASSUME ShapeInv, CurrentInv, NEW p \in Processes, BootLoads(p)
  PROVE  ShapeInv' /\ CurrentInv'
<1>1. PICK v \in Versions :
        /\ IsNewestVersion(v)
        /\ Becomes(p, [process[p] EXCEPT !.stage = "loaded",
                                         !.version = Larger(app.version, v),
                                         !.setting = app.setting])
  BY DEF BootLoads, Loads
<1> DEFINE new == [process[p] EXCEPT !.stage = "loaded",
                                     !.version = Larger(app.version, v),
                                     !.setting = app.setting]
<1>2. /\ process[p].stage = "starting" /\ behind' = behind \ {p}
      /\ UNCHANGED <<dbVars, nginxVars, deploy, clientVars, staleWrite>>
  BY DEF BootLoads, Loads
<1>3. /\ Larger(app.version, v) \in Versions
      /\ app.version <= Larger(app.version, v) /\ v <= Larger(app.version, v)
  BY DbTypes DEF Larger
<1>4. /\ new \in Process /\ new.stage = "loaded"
      /\ new.version = Larger(app.version, v) /\ new.setting = app.setting
      /\ new.entry = process[p].entry /\ new.job = process[p].job
      /\ new.cut = process[p].cut
  BY <1>3, ProcessType, DbTypes DEF Process
<1>5. Becomes(p, new)
  BY <1>1
<1> HIDE DEF new
<1>6. new.entry = NoList /\ new.job \notin {"itemStored", "settingStored"}
  BY <1>2, <1>4, ProcessType DEF WellFormed
<1>7. WellFormed(p, new) /\ Reach(new) = new.version
  BY <1>4, <1>6, ProcessType DEF WellFormed, Reach
<1>8. /\ process'[p] = new
      /\ \A q \in Processes \ {p} : process'[q] = process[q]
      /\ process' \in [Processes -> Process]
      /\ \A q \in Processes : WellFormed(q, process'[q])
  BY <1>4, <1>5, <1>7, Replaced
<1>9. ShapeInv'
  BY <1>2, <1>8 DEF ShapeInv, TypeOK, dbVars, nginxVars, clientVars
<1>10. \A q \in UpToDate' : q \in Processes /\ (q = p \/ q \in UpToDate)
  BY <1>2, <1>8 DEF UpToDate
<1>11. ASSUME ~staleWrite PROVE ProcessSound(process[p])'
  <2>1. \A i \in Items : rows[i].version <= new.version
    <3>1. PICK n \in Nat : n = Larger(app.version, v)
      BY <1>3, DbTypes
    <3>2. n = new.version /\ v <= n /\ v \in Nat
      BY <1>3, <1>4, <3>1, DbTypes
    <3>3. IsNewestVersion(v)
      BY <1>1
    <3>4. \A i \in Items : rows[i].version <= v
      BY <3>3, Zenon DEF IsNewestVersion
    <3>5. ASSUME NEW i \in Items PROVE rows[i].version <= new.version
      <4>1. PICK m \in Nat : m = rows[i].version
        BY DbTypes
      <4>2. m <= v
        BY <3>4, <4>1
      <4>3. m <= n
        BY <3>2, <4>2
      <4> QED
        BY <3>2, <4>1, <4>3
    <3> QED
      BY <3>5
  <2>2. \A q \in UpToDate' : process'[q].version <= new.version
    <3>1. ASSUME NEW q \in UpToDate PROVE process[q].version <= new.version
      <4>1. PICK n \in Int : n = process[q].version
        BY <3>1, ReachType DEF UpToDate
      <4>2. Covered(n)
        BY <1>11, <3>1, <4>1 DEF CurrentInv, ProcessSound
      <4> QED
        BY <1>1, <1>4, <4>1, <4>2, CoveredByLargest
    <3> QED
      BY <1>3, <1>4, <1>8, <1>10, <3>1, DbTypes
  <2>3. \A c \in Clients \ misled : label[c] <= new.version
    <3>1. ASSUME NEW c \in Clients \ misled PROVE label[c] <= new.version
      <4>1. PICK n \in Int : n = label[c]
        BY DbTypes
      <4>2. Covered(n)
        BY <1>11, <3>1, <4>1 DEF CurrentInv, ClientSound
      <4> QED
        BY <1>1, <1>4, <4>1, <4>2, CoveredByLargest
    <3> QED
      BY <3>1
  <2>4. Covered(new.version)
    BY <1>1, <1>4, DbTypes DEF Covered, IsNewestVersion, Larger
  <2> QED
    BY <1>2, <1>3, <1>4, <1>6, <1>7, <1>8, <2>1, <2>2, <2>3, <2>4, DbTypes
    DEF ProcessSound, Covered, dbVars, clientVars
<1>12. ASSUME ~staleWrite, NEW q \in UpToDate PROVE ProcessSound(process[q])'
  <2>1. ProcessSound(process[q]) /\ q \in Processes
    BY <1>12 DEF CurrentInv, UpToDate
  <2>2. q # p /\ process'[q] = process[q]
    BY <1>2, <1>8, <2>1 DEF UpToDate, Uses
  <2>3. new.version <= Reach(process[q])
    BY <1>1, <1>4, <2>1, ReachType DEF ProcessSound, IsNewestVersion, Larger
  <2>4. \A x \in UpToDate' : process'[x].version <= Reach(process[q])
    BY <1>8, <1>10, <2>1, <2>3 DEF ProcessSound
  <2> QED
    BY <1>2, <2>1, <2>2, <2>4 DEF ProcessSound, Covered, dbVars, clientVars
<1>13. CurrentInv'
  BY <1>2, <1>8, <1>10, <1>11, <1>12
  DEF CurrentInv, ClientSound, Covered, dbVars, clientVars
<1> QED
  BY <1>9, <1>13

LEMMA BootSavesStep ==
  ASSUME ShapeInv, CurrentInv, NEW p \in Processes, BootSaves(p)
  PROVE  ShapeInv' /\ CurrentInv'
<1> DEFINE new == [process[p] EXCEPT !.stage = "serving"]
<1>1. /\ process[p].stage = "loaded" /\ Becomes(p, new)
      /\ app' = [version |-> process[p].version,
                 setting |-> process[p].setting]
      /\ UNCHANGED <<rows, writes, lastSetting, nginxVars, deploy, clientVars,
                     behind>>
      /\ staleWrite' = (staleWrite \/ p \in behind)
  BY Zenon DEF BootSaves
<1>2. /\ new \in Process /\ new.stage = "serving"
      /\ new.version = process[p].version /\ new.setting = process[p].setting
      /\ new.entry = process[p].entry /\ new.job = process[p].job
      /\ new.cut = process[p].cut
  BY ProcessType DEF Process
<1> HIDE DEF new
<1>3. /\ WellFormed(p, new) /\ Reach(new) = Reach(process[p])
      /\ Reach(process[p]) = process[p].version
  BY <1>1, <1>2, ProcessType DEF WellFormed, Reach
<1>4. /\ process'[p] = new
      /\ \A q \in Processes \ {p} : process'[q] = process[q]
      /\ process' \in [Processes -> Process]
      /\ \A q \in Processes : WellFormed(q, process'[q])
  BY <1>1, <1>2, <1>3, Replaced
<1>5. ShapeInv'
  <2>1. app' \in [version : Versions, setting : 0..MaxWrites]
    BY <1>1, ProcessType
  <2> QED
    BY <1>1, <1>4, <2>1 DEF ShapeInv, TypeOK, nginxVars, clientVars
<1>6. ASSUME ~staleWrite'
      PROVE  /\ ~staleWrite /\ p \in UpToDate
             /\ ProcessSound(process[p])
  BY <1>1, <1>6 DEF UpToDate, Uses, CurrentInv
<1>7. \A q \in UpToDate' : /\ q \in UpToDate /\ q \in Processes
                           /\ process'[q].version = process[q].version
                           /\ process'[q].setting = process[q].setting
                           /\ process'[q].entry = process[q].entry
                           /\ Reach(process'[q]) = Reach(process[q])
  BY <1>1, <1>2, <1>3, <1>4 DEF UpToDate, Uses
<1>8. ASSUME ~staleWrite', NEW n \in Int, Covered(n) PROVE Covered(n)'
  <2>1. app.version <= process[p].version
    BY <1>3, <1>6, <1>8 DEF ProcessSound
  <2> QED
    BY <1>1, <1>8, <2>1, DbTypes, ReachType DEF Covered
<1>9. ASSUME ~staleWrite', NEW q \in UpToDate' PROVE ProcessSound(process[q])'
  <2>1. /\ ProcessSound(process[q]) /\ q \in UpToDate
        /\ process[q].version \in Int
    BY <1>6, <1>7, <1>9, ReachType DEF CurrentInv
  <2>2. app'.version <= Reach(process[q])
    BY <1>1, <1>6, <1>9, <2>1 DEF ProcessSound
  <2>3. process'[q].setting = app'.setting
    BY <1>1, <1>6, <1>7, <1>9, <2>1 DEF ProcessSound
  <2>4. Covered(process[q].version)'
    <3>1. PICK n \in Int : n = process[q].version
      BY <2>1
    <3>2. Covered(n) /\ n = process'[q].version
      BY <1>7, <1>9, <2>1, <3>1 DEF ProcessSound
    <3>3. Covered(n)'
      BY <1>8, <1>9, <3>2
    <3> QED
      BY <3>2, <3>3 DEF Covered
  <2> QED
    BY <1>1, <1>7, <1>9, <2>1, <2>2, <2>3, <2>4 DEF ProcessSound, clientVars
<1>10. ASSUME ~staleWrite', NEW c \in Clients \ misled
       PROVE  ClientSound(c)'
  <2>1. ClientSound(c)
    BY <1>6, <1>10 DEF CurrentInv
  <2>2. PICK n \in Int : n = label[c]
    BY DbTypes
  <2>3. Covered(n)'
    BY <1>8, <1>10, <2>1, <2>2 DEF ClientSound
  <2> QED
    BY <1>1, <2>1, <2>2, <2>3 DEF ClientSound, Covered, clientVars
<1>11. CurrentInv'
  BY <1>1, <1>6, <1>9, <1>10 DEF CurrentInv, ProcessSound, clientVars
<1> QED
  BY <1>5, <1>11

-------------------------------------------------------------------------------
(* Writes. *)

\* Once p has changed the database, nobody else is up to date.
LEMMA OthersAreBehind ==
  ASSUME ShapeInv, NEW p \in Processes, NEW new \in Process, Becomes(p, new),
         Outdates(p)
  PROVE  /\ UpToDate' \subseteq {p}
         /\ p \in UpToDate' => Uses(new) /\ p \notin behind
         /\ behind' \subseteq Processes
<1>1. /\ process'[p] = new
      /\ \A q \in Processes \ {p} : process'[q] = process[q]
  BY DEF ShapeInv, TypeOK, Becomes
<1> QED
  BY <1>1 DEF Outdates, Loaded, UpToDate, Uses, ShapeInv, TypeOK

LEMMA StoreItemStep ==
  ASSUME ShapeInv, CurrentInv, NEW p \in Processes, StoreItem(p)
  PROVE  ShapeInv' /\ CurrentInv'
<1> DEFINE new == [process[p] EXCEPT !.job = "itemStored"]
<1>1. /\ process[p].job = "item" /\ process[p].stage \in {"serving", "closing"}
      /\ process[p].version < MaxVersion /\ writes < MaxWrites
      /\ writes' = writes + 1 /\ Outdates(p) /\ Becomes(p, new)
      /\ UNCHANGED <<app, lastSetting, nginxVars, deploy, clientVars>>
  BY DEF StoreItem, Store
<1>2. staleWrite' = (staleWrite \/ p \in behind)
  BY Zenon DEF StoreItem
<1>3. PICK i \in Items :
        rows' = [rows EXCEPT ![i] = [version |-> process[p].version + 1,
                                     write |-> writes']]
  BY DEF StoreItem
<1>4. /\ new \in Process /\ new.stage = process[p].stage
      /\ new.version = process[p].version /\ new.setting = process[p].setting
      /\ new.entry = process[p].entry /\ new.job = "itemStored"
      /\ new.cut = process[p].cut
  BY ProcessType DEF Process
<1> HIDE DEF new
<1>5. /\ WellFormed(p, new) /\ Reach(new) = process[p].version + 1
      /\ Reach(process[p]) = process[p].version
  BY <1>1, <1>4, ProcessType DEF WellFormed, Reach
<1>6. /\ process'[p] = new
      /\ process' \in [Processes -> Process]
      /\ \A q \in Processes : WellFormed(q, process'[q])
  BY <1>1, <1>4, <1>5, Replaced
<1>7. /\ process[p].version + 1 \in Versions /\ writes' \in 0..MaxWrites
      /\ writes + 1 \in Nat
  BY <1>1, ProcessType, BoundsAssumption DEF ShapeInv, TypeOK, Versions
<1>8. /\ rows' \in [Items -> [version : Versions, write : 0..MaxWrites]]
      /\ rows'[i].version = process[p].version + 1
      /\ \A j \in Items \ {i} : rows'[j] = rows[j]
  BY <1>3, <1>7 DEF ShapeInv, TypeOK
<1>9. /\ UpToDate' \subseteq {p} /\ behind' \subseteq Processes
      /\ p \in UpToDate' => p \notin behind
  BY <1>1, <1>4, OthersAreBehind
<1>10. ShapeInv'
  BY <1>1, <1>2, <1>6, <1>7, <1>8, <1>9
  DEF ShapeInv, TypeOK, nginxVars, clientVars
<1>11. ASSUME ~staleWrite'
       PROVE  ~staleWrite /\ ProcessSound(process[p])
  BY <1>1, <1>2, <1>11 DEF CurrentInv, UpToDate, Uses
<1>12. ASSUME ~staleWrite' PROVE ProcessSound(process[p])'
  <2>1. PICK n \in Nat : n = process[p].version
    BY ReachType
  <2>2. \A j \in Items : rows'[j].version <= n + 1
    BY <1>5, <1>8, <1>11, <1>12, <2>1, DbTypes DEF ProcessSound
  <2>3. /\ app'.version <= n + 1
        /\ \A c \in Clients \ misled : label[c] <= n + 1
    BY <1>1, <1>5, <1>11, <1>12, <2>1, DbTypes DEF ProcessSound
  <2>4. \A q \in UpToDate' : process'[q].version <= n + 1
    BY <1>4, <1>6, <1>9, <2>1
  <2>5. \E j \in Items : n <= rows'[j].version
    BY <1>8, <2>1
  <2>6. \A j \in Items : rows'[j].version <= n => j # i
    BY <1>8, <2>1
  <2> QED
    BY <1>1, <1>4, <1>5, <1>6, <1>8, <1>11, <1>12, <2>1, <2>2, <2>3, <2>4,
       <2>5, <2>6
    DEF ProcessSound, Covered, clientVars
<1>13. ASSUME ~staleWrite', NEW c \in Clients \ misled PROVE ClientSound(c)'
  <2>1. ClientSound(c) /\ label[c] <= process[p].version
    BY <1>5, <1>11, <1>13 DEF CurrentInv, ProcessSound
  <2>2. label[c] < rows'[i].version
    BY <1>8, <2>1, DbTypes, ReachType
  <2> QED
    BY <1>1, <1>8, <2>1, <2>2, DbTypes DEF ClientSound, Covered, clientVars
<1>14. CurrentInv'
  BY <1>1, <1>9, <1>11, <1>12, <1>13 DEF CurrentInv, clientVars
<1> QED
  BY <1>10, <1>14

LEMMA StoreSettingStep ==
  ASSUME ShapeInv, CurrentInv, NEW p \in Processes, StoreSetting(p)
  PROVE  ShapeInv' /\ CurrentInv'
<1>1. /\ process[p].job = "setting"
      /\ process[p].stage \in {"serving", "closing"}
      /\ process[p].version < MaxVersion /\ writes < MaxWrites
      /\ writes' = writes + 1 /\ Outdates(p)
      /\ app' = [app EXCEPT !.setting = writes'] /\ lastSetting' = writes'
      /\ UNCHANGED <<rows, nginxVars, deploy, clientVars, staleWrite>>
  BY DEF StoreSetting, Store
<1>2. writes' \in 0..MaxWrites
  BY <1>1, BoundsAssumption DEF ShapeInv, TypeOK
<1>3. PICK n \in 0..MaxWrites : n = writes'
  BY <1>2
<1> DEFINE new == [process[p] EXCEPT !.job = "settingStored", !.setting = n]
<1>4. Becomes(p, new)
  BY <1>3 DEF StoreSetting
<1>5. /\ new \in Process /\ new.stage = process[p].stage
      /\ new.version = process[p].version /\ new.setting = n
      /\ new.entry = process[p].entry /\ new.job = "settingStored"
      /\ new.cut = process[p].cut
  BY ProcessType DEF Process
<1> HIDE DEF new
<1>6. WellFormed(p, new) /\ Reach(new) = Reach(process[p])
  BY <1>1, <1>5, ProcessType DEF WellFormed, Reach
<1>7. /\ process'[p] = new
      /\ process' \in [Processes -> Process]
      /\ \A q \in Processes : WellFormed(q, process'[q])
  BY <1>4, <1>5, <1>6, Replaced
<1>8. /\ UpToDate' \subseteq {p} /\ behind' \subseteq Processes
      /\ p \in UpToDate' => p \notin behind
  BY <1>1, <1>4, <1>5, OthersAreBehind
<1>9. /\ app' \in [version : Versions, setting : 0..MaxWrites]
      /\ app'.version = app.version /\ app'.setting = n
  BY <1>1, <1>3, DbTypes
<1>10. ShapeInv'
  BY <1>1, <1>2, <1>7, <1>8, <1>9 DEF ShapeInv, TypeOK, nginxVars, clientVars
<1>11. ASSUME ~staleWrite, p \in UpToDate' PROVE ProcessSound(process[p])'
  <2>1. ProcessSound(process[p])
    BY <1>1, <1>8, <1>11 DEF CurrentInv, UpToDate, Uses
  <2>2. \A q \in UpToDate' : process'[q].version <= Reach(new)
    BY <1>5, <1>6, <1>7, <1>8, ReachType
  <2> QED
    BY <1>1, <1>5, <1>6, <1>7, <1>9, <2>1, <2>2
    DEF ProcessSound, Covered, clientVars
<1>12. CurrentInv'
  BY <1>1, <1>3, <1>8, <1>9, <1>11
  DEF CurrentInv, ClientSound, Covered, clientVars
<1> QED
  BY <1>10, <1>12

LEMMA FinishWriteStep ==
  ASSUME ShapeInv, CurrentInv, NEW p \in Processes, FinishWrite(p)
  PROVE  ShapeInv' /\ CurrentInv'
<1>1. /\ process[p].job \in {"itemStored", "settingStored"}
      /\ Outdates(p)
      /\ app' = [app EXCEPT !.version = Larger(app.version,
                                               process[p].version + 1)]
      /\ UNCHANGED <<rows, writes, lastSetting, nginxVars, deploy, clientVars,
                     staleWrite>>
  BY DEF FinishWrite, Finishes
<1>2. process[p].version < MaxVersion
      /\ process[p].stage \in {"serving", "closing"}
  BY <1>1, ProcessType DEF WellFormed
<1>3. PICK v \in Nat : v = process[p].version
  BY ReachType
<1>4. v + 1 \in Versions /\ v + 1 \in Nat
  BY <1>2, <1>3, BoundsAssumption DEF Versions
<1> DEFINE new == [(IF process[p].job = "itemStored" THEN WithoutEntry(p)
                                                     ELSE process[p])
                     EXCEPT !.job = "none", !.open = TRUE, !.version = v + 1]
<1>5. Becomes(p, new)
  BY <1>3 DEF FinishWrite, Finishes
<1>6. /\ new \in Process /\ new.stage = process[p].stage
      /\ new.version = v + 1 /\ new.setting = process[p].setting
      /\ new.job = "none" /\ new.cut = process[p].cut
      /\ new.entry = IF process[p].job = "itemStored" THEN NoList
                                                      ELSE process[p].entry
  BY <1>4, ProcessType DEF Process, WithoutEntry
<1> HIDE DEF new
<1>7. WellFormed(p, new) /\ Reach(new) = v + 1
  BY <1>2, <1>6, ProcessType DEF WellFormed, Reach
<1>8. /\ process'[p] = new
      /\ process' \in [Processes -> Process]
      /\ \A q \in Processes : WellFormed(q, process'[q])
  BY <1>5, <1>6, <1>7, Replaced
<1>9. /\ UpToDate' \subseteq {p} /\ behind' \subseteq Processes
      /\ p \in UpToDate' => p \notin behind
  BY <1>1, <1>5, <1>6, OthersAreBehind
<1>10. /\ app' \in [version : Versions, setting : 0..MaxWrites]
       /\ app'.version = Larger(app.version, v + 1)
       /\ app'.setting = app.setting
  BY <1>1, <1>3, <1>4, DbTypes DEF Larger
<1>11. ShapeInv'
  BY <1>1, <1>8, <1>9, <1>10 DEF ShapeInv, TypeOK, nginxVars, clientVars
<1>12. ASSUME ~staleWrite, p \in UpToDate' PROVE ProcessSound(process[p])'
  <2>1. ProcessSound(process[p])
    BY <1>1, <1>2, <1>9, <1>12 DEF CurrentInv, UpToDate, Uses
  <2>2. PICK n \in Nat : n = Reach(process[p]) /\ n <= v + 1
    BY <1>3, ReachType
  <2>3. /\ \A i \in Items : rows'[i].version <= v + 1
        /\ \A c \in Clients \ misled : label[c] <= v + 1
    BY <1>1, <2>1, <2>2, DbTypes DEF ProcessSound
  <2>4. app'.version = v + 1
    BY <1>10, <2>1, <2>2, DbTypes DEF ProcessSound, Larger
  <2>5. \A q \in UpToDate' : process'[q].version <= v + 1
    BY <1>6, <1>8, <1>9
  <2>6. ASSUME new.entry # NoList, NEW i \in Items
        PROVE  new.entry[i] = rows'[i].write
    <3>1. new.entry = process[p].entry /\ process[p].job = "settingStored"
      BY <1>1, <1>6, <2>6
    <3>2. rows[i].version <= process[p].version
      BY <2>1, <3>1 DEF ProcessSound, Reach
    <3> QED
      BY <1>1, <2>1, <2>6, <3>1, <3>2 DEF ProcessSound
  <2> QED
    BY <1>1, <1>6, <1>7, <1>8, <1>10, <2>1, <2>3, <2>4, <2>5, <2>6
    DEF ProcessSound, Covered, clientVars
<1>13. ASSUME ~staleWrite, NEW c \in Clients \ misled PROVE ClientSound(c)'
  <2>1. ClientSound(c)
    BY <1>13 DEF CurrentInv
  <2>2. app.version <= app'.version /\ app'.version \in Nat
    BY <1>4, <1>10, DbTypes DEF Larger
  <2> QED
    BY <1>1, <2>1, <2>2, DbTypes DEF ClientSound, Covered, clientVars
<1>14. CurrentInv'
  BY <1>1, <1>9, <1>10, <1>12, <1>13 DEF CurrentInv, clientVars
<1> QED
  BY <1>11, <1>14

-------------------------------------------------------------------------------
(* Clients. *)

LEMMA FullListStep ==
  ASSUME ShapeInv, CurrentInv, NEW c \in Clients, FullList(c)
  PROVE  ShapeInv' /\ CurrentInv'
<1>1. PICK p \in Processes : p = upstream
  BY Rest
<1>2. PICK list \in Lists :
        list = IF process[p].entry = NoList THEN CurrentList
                                            ELSE process[p].entry
  BY <1>1, ProcessType, DbTypes DEF CurrentList, Lists
<1> DEFINE new == [process[p] EXCEPT !.entry = list]
<1>3. /\ Answered(c, p, list) /\ Becomes(p, new)
      /\ misled' = IF p \in behind THEN misled \union {c} ELSE misled \ {c}
      /\ UNCHANGED <<dbVars, nginxVars, deploy, behind, staleWrite>>
  BY <1>1, <1>2 DEF FullList
<1>4. /\ new \in Process /\ new.stage = process[p].stage
      /\ new.version = process[p].version /\ new.setting = process[p].setting
      /\ new.job = process[p].job /\ new.cut = process[p].cut
      /\ new.entry = list
  BY ProcessType DEF Process
<1> HIDE DEF new
<1>5. PICK v \in Versions : v = process[p].version
  BY ProcessType
<1>6. /\ process[p].stage = "serving"
      /\ label' = [label EXCEPT ![c] = v]
      /\ replica' = [replica EXCEPT ![c] = list]
  BY <1>3, <1>5 DEF Answered
<1>7. WellFormed(p, new) /\ Reach(new) = Reach(process[p])
  BY <1>4, <1>6, ProcessType DEF WellFormed, Reach
<1>8. /\ process'[p] = new
      /\ \A q \in Processes \ {p} : process'[q] = process[q]
      /\ process' \in [Processes -> Process]
      /\ \A q \in Processes : WellFormed(q, process'[q])
  BY <1>3, <1>4, <1>7, Replaced
<1>9. /\ label' \in [Clients -> {-1} \union Versions] /\ label'[c] = v
      /\ replica' \in [Clients -> Lists] /\ replica'[c] = list
      /\ \A d \in Clients \ {c} :
           label'[d] = label[d] /\ replica'[d] = replica[d]
  BY <1>6 DEF ShapeInv, TypeOK
<1>10. ShapeInv'
  <2>1. misled' \subseteq Clients
    BY <1>3 DEF ShapeInv, TypeOK
  <2> QED
    BY <1>3, <1>8, <1>9, <2>1 DEF ShapeInv, TypeOK, dbVars, nginxVars
<1>11. /\ \A q \in Processes : /\ process'[q].version = process[q].version
                               /\ process'[q].setting = process[q].setting
                               /\ Reach(process'[q]) = Reach(process[q])
                               /\ Uses(process'[q]) <=> Uses(process[q])
       /\ UpToDate' = UpToDate
  <2>1. Uses(new) <=> Uses(process[p])
    BY <1>4 DEF Uses
  <2>2. \A q \in Processes : /\ process'[q].version = process[q].version
                             /\ process'[q].setting = process[q].setting
                             /\ Reach(process'[q]) = Reach(process[q])
                             /\ Uses(process'[q]) <=> Uses(process[q])
    BY <1>4, <1>7, <1>8, <2>1
  <2> QED
    BY <1>3, <2>2 DEF UpToDate
<1>12. ASSUME ~staleWrite, p \notin behind
       PROVE  /\ p \in UpToDate /\ Covered(v)
              /\ \A i \in Items : rows[i].version <= v =>
                   list[i] = rows[i].write
  <2>1. p \in UpToDate
    BY <1>6, <1>12 DEF UpToDate, Uses
  <2>2. ProcessSound(process[p])
    BY <1>12, <2>1 DEF CurrentInv
  <2>3. Covered(v)
    BY <1>5, <2>2 DEF ProcessSound
  <2> QED
    BY <1>2, <1>5, <2>1, <2>2, <2>3 DEF ProcessSound, CurrentList
<1>13. ASSUME ~staleWrite, NEW q \in UpToDate PROVE ProcessSound(process[q])'
  <2>1. ProcessSound(process[q]) /\ q \in Processes
    BY <1>13 DEF CurrentInv, UpToDate
  <2>2. \A d \in Clients \ misled' : label'[d] <= Reach(process[q])
    <3>1. p \notin behind => v <= Reach(process[q])
      BY <1>5, <1>12, <1>13, <2>1 DEF ProcessSound
    <3> QED
      BY <1>3, <1>9, <2>1, <3>1 DEF ProcessSound
  <2>3. process'[q].entry # NoList =>
          \A i \in Items : rows[i].version <= process[q].version =>
            process'[q].entry[i] = rows[i].write
    <3>1. CASE q = p
      <4>1. p \notin behind
        BY <1>13, <3>1 DEF UpToDate
      <4> QED
        BY <1>4, <1>5, <1>8, <1>12, <1>13, <3>1, <4>1
    <3>2. CASE q # p
      BY <1>8, <2>1, <3>2 DEF ProcessSound
    <3> QED
      BY <3>1, <3>2
  <2>4. \A x \in UpToDate' : process'[x].version <= Reach(process[q])
    BY <1>11, <2>1 DEF ProcessSound, UpToDate
  <2> QED
    BY <1>3, <1>11, <2>1, <2>2, <2>3, <2>4 DEF ProcessSound, Covered, dbVars
<1>14. ASSUME ~staleWrite, NEW d \in Clients \ misled' PROVE ClientSound(d)'
  <2>1. CASE d = c
    <3>1. p \notin behind
      BY <1>3, <1>14, <2>1
    <3> QED
      BY <1>3, <1>9, <1>12, <1>14, <2>1, <3>1
      DEF ClientSound, Covered, dbVars
  <2>2. CASE d # c
    <3>1. ClientSound(d)
      BY <1>3, <1>14, <2>2 DEF CurrentInv
    <3> QED
      BY <1>3, <1>9, <1>14, <2>2, <3>1 DEF ClientSound, Covered, dbVars
  <2> QED
    BY <2>1, <2>2
<1>15. CurrentInv'
  BY <1>3, <1>11, <1>13, <1>14 DEF CurrentInv, dbVars
<1> QED
  BY <1>10, <1>15

LEMMA ChangesStep ==
  ASSUME ShapeInv, CurrentInv, NEW c \in Clients, Changes(c)
  PROVE  ShapeInv' /\ CurrentInv'
<1>1. PICK p \in Processes : p = upstream
  BY Rest
<1>2. PICK v \in Versions : v = process[p].version
  BY ProcessType
<1> DEFINE list == [i \in Items |-> IF rows[i].version > label[c]
                                      THEN rows[i].write ELSE replica[c][i]]
<1>3. /\ process[p].stage = "serving"
      /\ label' = [label EXCEPT ![c] = v]
      /\ replica' = [replica EXCEPT ![c] = list]
      /\ misled' = IF p \in behind THEN misled \union {c} ELSE misled
      /\ UNCHANGED <<dbVars, process, nginxVars, deploy, behind, staleWrite>>
  BY <1>1, <1>2 DEF Changes, Answered
<1>4. list \in Lists
  BY DbTypes DEF Lists
<1>5. /\ label' \in [Clients -> {-1} \union Versions] /\ label'[c] = v
      /\ replica' \in [Clients -> Lists] /\ replica'[c] = list
      /\ \A d \in Clients \ {c} :
           label'[d] = label[d] /\ replica'[d] = replica[d]
  BY <1>3, <1>4 DEF ShapeInv, TypeOK
<1>6. ShapeInv'
  <2>1. misled' \subseteq Clients
    BY <1>3 DEF ShapeInv, TypeOK
  <2> QED
    BY <1>3, <1>5, <2>1 DEF ShapeInv, TypeOK, dbVars, nginxVars
<1>7. UpToDate' = UpToDate
  BY <1>3 DEF UpToDate
<1>8. ASSUME ~staleWrite, c \notin misled'
      PROVE  p \in UpToDate /\ ProcessSound(process[p]) /\ ClientSound(c)
  BY <1>3, <1>8 DEF CurrentInv, UpToDate, Uses
<1>9. ASSUME ~staleWrite, NEW q \in UpToDate PROVE ProcessSound(process[q])'
  <2>1. ProcessSound(process[q])
    BY <1>9 DEF CurrentInv
  <2>2. c \notin misled' => v <= Reach(process[q])
    BY <1>2, <1>8, <1>9, <2>1 DEF ProcessSound
  <2>3. \A d \in Clients \ misled' : label'[d] <= Reach(process[q])
    BY <1>3, <1>5, <2>1, <2>2 DEF ProcessSound
  <2> QED
    BY <1>3, <1>7, <2>1, <2>3 DEF ProcessSound, Covered, dbVars
<1>10. ASSUME ~staleWrite, NEW d \in Clients \ misled' PROVE ClientSound(d)'
  <2>1. CASE d = c
    <3>1. ProcessSound(process[p]) /\ ClientSound(c)
      BY <1>8, <1>10, <2>1
    <3>2. Covered(v)
      BY <1>2, <3>1 DEF ProcessSound
    <3>3. ASSUME NEW i \in Items PROVE list[i] = rows[i].write
      BY <3>1, DbTypes DEF ClientSound
    <3> HIDE DEF list
    <3> QED
      BY <1>3, <1>5, <2>1, <3>2, <3>3 DEF ClientSound, Covered, dbVars
  <2>2. CASE d # c
    <3>1. ClientSound(d)
      BY <1>3, <1>10, <2>2 DEF CurrentInv
    <3> QED
      BY <1>3, <1>5, <1>10, <2>2, <3>1 DEF ClientSound, Covered, dbVars
  <2> QED
    BY <2>1, <2>2
<1>11. CurrentInv'
  BY <1>3, <1>7, <1>9, <1>10 DEF CurrentInv, dbVars
<1> QED
  BY <1>6, <1>11

-------------------------------------------------------------------------------
(* Nobody but deploy.sh takes a color down. *)

LEMMA ServesOn ==
  ASSUME ShapeInv, NEW p \in Processes, ProcessStep(p)
  PROVE  /\ UNCHANGED <<nginxVars, deploy>>
         /\ \A q \in Colors : process[q].stage = "serving" =>
              process'[q].stage = "serving"
<1>1. ASSUME NEW new, Becomes(p, new),
             process[p].stage = "serving" => new.stage = "serving"
      PROVE  \A q \in Colors : process[q].stage = "serving" =>
               process'[q].stage = "serving"
  BY <1>1 DEF Becomes, ShapeInv, TypeOK, Processes
<1>2. CASE BootLoads(p) \/ ServerCloses(p) \/ ForcedExit(p)
  <2>1. process[p].stage # "serving" /\ \E new : Becomes(p, new)
    BY <1>2
    DEF BootLoads, Loads, ServerCloses, Closes, ForcedExit, Exits
  <2>2. UNCHANGED <<nginxVars, deploy>>
    BY <1>2
    DEF BootLoads, Loads, ServerCloses, Closes, ForcedExit, Exits
  <2> QED
    BY <1>1, <2>1, <2>2
<1>3. CASE BootSaves(p)
  <2> DEFINE new == [process[p] EXCEPT !.stage = "serving"]
  <2>1. Becomes(p, new) /\ new.stage = "serving"
    BY <1>3, ProcessType DEF BootSaves, Process
  <2> QED
    BY <1>1, <1>3, <2>1 DEF BootSaves
<1>4. CASE Accept(p) \/ ClientAborts(p) \/ EntryExpires(p)
  <2>1. /\ \A kind \in {"item", "setting"} :
             [process[p] EXCEPT !.job = kind].stage = process[p].stage
        /\ [process[p] EXCEPT !.open = FALSE].stage = process[p].stage
        /\ [process[p] EXCEPT !.entry = NoList].stage = process[p].stage
    BY ProcessType DEF Process
  <2>2. \E new : Becomes(p, new) /\ new.stage = process[p].stage
    BY <1>4, <2>1 DEF Accept, ClientAborts, EntryExpires
  <2> QED
    BY <1>1, <1>4, <2>2 DEF Accept, ClientAborts, EntryExpires
<1>5. CASE StoreItem(p)
  <2> DEFINE new == [process[p] EXCEPT !.job = "itemStored"]
  <2>1. Becomes(p, new) /\ new.stage = process[p].stage
    BY <1>5, ProcessType DEF StoreItem, Process
  <2> QED
    BY <1>1, <1>5, <2>1 DEF StoreItem
<1>6. CASE StoreSetting(p)
  <2>1. PICK n : n = writes'
    OBVIOUS
  <2> DEFINE new == [process[p] EXCEPT !.job = "settingStored", !.setting = n]
  <2>2. Becomes(p, new) /\ new.stage = process[p].stage
    BY <1>6, <2>1, ProcessType DEF StoreSetting, Process
  <2> QED
    BY <1>1, <1>6, <2>2 DEF StoreSetting
<1>7. CASE FinishWrite(p)
  <2> DEFINE old == IF process[p].job = "itemStored" THEN WithoutEntry(p)
                                                     ELSE process[p]
             new == [old EXCEPT !.job = "none", !.open = TRUE,
                                !.version = process[p].version + 1]
  <2>1. Becomes(p, new)
    BY <1>7 DEF FinishWrite, Finishes
  <2>2. new.stage = process[p].stage
    BY ProcessType DEF WithoutEntry, Process
  <2> QED
    BY <1>1, <1>7, <2>1, <2>2 DEF FinishWrite, Finishes
<1> QED
  BY <1>2, <1>3, <1>4, <1>5, <1>6, <1>7 DEF ProcessStep

LEMMA DeployKept ==
  ASSUME DeployInv, ShapeInv, UNCHANGED <<nginxVars, deploy>>,
         \A q \in Colors : process[q].stage = "serving" =>
           process'[q].stage = "serving"
  PROVE  DeployInv'
BY Rest DEF DeployInv, At, nginxVars

LEMMA OtherColors ==
  ASSUME ShapeInv, NEW target \in Colors, NEW new, Becomes(target, new)
  PROVE  \A q \in Colors \ {target} : process'[q] = process[q]
BY Rest DEF Becomes, ShapeInv, TypeOK

LEMMA DeployInvStep ==
  ASSUME DeployInv, ShapeInv, DeployStarts \/ DeployStep \/ DeployAborted
  PROVE  DeployInv'
<1>1. PICK t \in Colors : t = deploy.target
  BY Rest
<1>2. /\ Other(t) \in Colors \ {t} /\ Other(file) \in Colors \ {file}
      /\ upstream \in Colors /\ file \in Colors
      /\ \A a, b, c \in Colors : a # b /\ b # c => a = c
  BY Rest DEF Colors
<1>3. ASSUME NEW target \in Colors, StopsTarget(target)
      PROVE  \A q \in Colors \ {target} : process'[q] = process[q]
  BY <1>3, OtherColors DEF StopsTarget
<1>4. CASE DeployStarts
  <2>1. /\ deploy'.step = "recreate" /\ deploy'.target = Other(file)
        /\ UNCHANGED nginxVars
    BY <1>4 DEF DeployStarts, Goes
  <2>2. PICK target \in Colors : target = Other(file)
    BY <1>2
  <2>3. \A q \in Colors \ {target} : process'[q] = process[q]
    BY <1>3, <1>4, <2>2 DEF DeployStarts
  <2> QED
    BY <1>2, <2>1, <2>2, <2>3 DEF DeployInv, At, nginxVars
<1>5. CASE Recreated
  <2>1. /\ deploy'.step = "health" /\ deploy'.target = t
        /\ deploy.step = "recreate" /\ UNCHANGED nginxVars
        /\ Becomes(t, Fresh)
    BY <1>1, <1>5 DEF Recreated, Goes, At
  <2>2. \A q \in Colors \ {t} : process'[q] = process[q]
    BY <2>1, OtherColors
  <2> QED
    BY <1>1, <1>2, <2>1, <2>2 DEF DeployInv, At, nginxVars
<1>6. CASE WriteFile
  <2>1. /\ deploy'.step = "written" /\ deploy'.target = t
        /\ process[t].stage = "serving"
        /\ file' = t /\ UNCHANGED <<process, upstream>>
    BY <1>1, <1>6 DEF WriteFile, Goes
  <2> QED
    BY <1>1, <1>2, <2>1 DEF DeployInv, At
<1>7. CASE GivesUp
  <2>1. /\ deploy'.step = "down" /\ deploy'.target = t
        /\ file' = Other(t) /\ UNCHANGED upstream
        /\ StopsTarget(t)
    BY <1>1, <1>7 DEF GivesUp, Goes, StopsTarget
  <2>2. \A q \in Colors \ {t} : process'[q] = process[q]
    BY <1>3, <2>1
  <2> QED
    BY <1>1, <1>2, <2>1, <2>2 DEF DeployInv, At
<1>8. CASE Reload
  <2>1. /\ deploy'.step = "drain" /\ deploy'.target = Other(t)
        /\ deploy.step = "written"
        /\ upstream' = file /\ UNCHANGED <<process, file>>
    BY <1>1, <1>8 DEF Reload, Goes, At
  <2> QED
    BY <1>1, <1>2, <2>1 DEF DeployInv, At
<1>9. CASE Drained
  <2>1. /\ deploy'.step = "down" /\ deploy'.target = t
        /\ deploy.step = "drain" /\ UNCHANGED nginxVars
        /\ StopsTarget(t)
    BY <1>1, <1>9 DEF Drained, Goes, At, StopsTarget
  <2>2. \A q \in Colors \ {t} : process'[q] = process[q]
    BY <1>3, <2>1
  <2> QED
    BY <1>1, <1>2, <2>1, <2>2 DEF DeployInv, At, nginxVars
<1>10. CASE DeployEnds \/ DeployAborted
  <2>1. /\ deploy'.step = "idle" /\ deploy'.target = t
        /\ UNCHANGED <<process, nginxVars>>
    BY <1>1, <1>10 DEF DeployEnds, DeployAborted, Goes
  <2> QED
    BY <1>1, <2>1 DEF DeployInv, At, nginxVars
<1> QED
  BY <1>4, <1>5, <1>6, <1>7, <1>8, <1>9, <1>10 DEF DeployStep

-------------------------------------------------------------------------------
(* The invariant. *)

LEMMA Initially == Init => IInv
<1> SUFFICES ASSUME Init PROVE IInv
  OBVIOUS
<1>1. /\ 0 \in Versions /\ 0 \in 0..MaxWrites /\ -1 < 0
      /\ "blue" \in Colors /\ "green" \in Colors /\ "blue" # "green"
      /\ Colors \subseteq Processes
  BY BoundsAssumption DEF Versions, Colors, Processes
<1> DEFINE new == [Fresh EXCEPT !.stage = "serving"]
<1>2. /\ new \in Process /\ new.stage = "serving" /\ new.job = "none"
      /\ new.version = 0 /\ new.setting = 0 /\ new.entry = NoList /\ ~new.cut
  BY <1>1 DEF Fresh, Gone, Process
<1>3. process = [p \in Processes |-> IF p = "blue" THEN new ELSE Gone]
  BY DEF Init
<1> HIDE DEF new
<1>4. /\ process["blue"] = new /\ process \in [Processes -> Process]
      /\ \A p \in Processes \ {"blue"} : process[p] = Gone
  BY <1>1, <1>2, <1>3, Gones
<1>5. \A p \in Processes : WellFormed(p, process[p])
  BY <1>2, <1>4, Gones DEF WellFormed
<1>6. TypeOK
  <2>1. /\ rows \in [Items -> [version : Versions, write : 0..MaxWrites]]
        /\ app \in [version : Versions, setting : 0..MaxWrites]
        /\ replica \in [Clients -> Lists]
        /\ label \in [Clients -> {-1} \union Versions]
    BY <1>1 DEF Init, Lists
  <2> QED
    BY <1>1, <1>4, <2>1 DEF Init, TypeOK
<1>7. DeployInv
  BY <1>2, <1>4 DEF Init, DeployInv, At
<1>8. \A p \in UpToDate : process[p] = new
  BY <1>4, Gones DEF UpToDate
<1>9. Reach(new) = 0
  BY <1>2 DEF Reach
<1>10. ProcessSound(new)
  <2>1. \A q \in UpToDate : process[q].version <= 0
    BY <1>2, <1>8
  <2>2. /\ \A i \in Items : rows[i].version = 0
        /\ \A c \in Clients : label[c] = -1
        /\ app.version = 0 /\ app.setting = 0
    BY DEF Init
  <2> QED
    BY <1>2, <1>9, <2>1, <2>2 DEF ProcessSound, Covered
<1>11. CurrentInv
  <2>1. ASSUME NEW c \in Clients PROVE ClientSound(c)
    <3>1. label[c] = -1 /\ app.version = 0 /\ app.setting = lastSetting
          /\ \A i \in Items : rows[i].version = 0
      BY DEF Init
    <3> QED
      BY <3>1 DEF ClientSound, Covered
  <2>2. app.setting = lastSetting
    BY DEF Init
  <2> QED
    BY <1>8, <1>10, <2>1, <2>2 DEF CurrentInv
<1> QED
  BY <1>5, <1>6, <1>7, <1>11 DEF IInv, ShapeInv

LEMMA Stutters == IInv /\ UNCHANGED vars => IInv'
<1> SUFFICES ASSUME IInv, UNCHANGED vars PROVE IInv'
  OBVIOUS
<1> USE DEF IInv, vars
<1>1. ShapeInv' /\ CurrentInv'
  BY NoProcess, Rest DEF DeployTypes, dbVars, clientVars
<1>2. DeployInv'
  BY DeployKept DEF nginxVars
<1> QED
  BY <1>1, <1>2

LEMMA Steps == IInv /\ Next => IInv'
<1> SUFFICES ASSUME IInv, Next PROVE IInv'
  OBVIOUS
<1> USE DEF IInv
<1>1. CASE DeployStarts \/ DeployStep \/ DeployAborted
  BY <1>1, DeploymentStep, DeployInvStep
<1>2. CASE ScriptRuns \/ ScriptEnds
  <2>1. ShapeInv' /\ CurrentInv'
    BY <1>2, ScriptRunsStep, ShutdownStep DEF Processes
  <2>2. /\ UNCHANGED <<nginxVars, deploy>>
        /\ \A q \in Colors : process'[q] = process[q]
    BY <1>2, Rest
    DEF ScriptRuns, ScriptEnds, Exits, Becomes, ShapeInv, TypeOK
  <2>3. DeployInv'
    BY <2>2, DeployKept
  <2> QED
    BY <2>1, <2>3
<1>3. ASSUME NEW p \in Processes, ProcessStep(p) PROVE IInv'
  <2>1. ShapeInv' /\ CurrentInv'
    BY <1>3, BootLoadsStep, BootSavesStep, ShutdownStep, ServingStep,
       StoreItemStep, StoreSettingStep, FinishWriteStep
    DEF ProcessStep
  <2>2. DeployInv'
    BY <1>3, ServesOn, DeployKept
  <2> QED
    BY <2>1, <2>2
<1>4. ASSUME NEW c \in Clients, FullList(c) \/ Changes(c) PROVE IInv'
  <2>1. ShapeInv' /\ CurrentInv'
    BY <1>4, FullListStep, ChangesStep
  <2>2. CASE FullList(c)
    <3>1. PICK p \in Processes : p = upstream
      BY Rest
    <3> DEFINE list == IF process[p].entry = NoList THEN CurrentList
                                                    ELSE process[p].entry
               new == [process[p] EXCEPT !.entry = list]
    <3>2. Becomes(p, new) /\ UNCHANGED <<nginxVars, deploy>>
      BY <2>2, <3>1 DEF FullList
    <3>3. new.stage = process[p].stage
      BY ProcessType DEF Process
    <3> HIDE DEF new
    <3>4. \A q \in Colors : process'[q].stage = process[q].stage
      BY <3>2, <3>3 DEF Becomes, ShapeInv, TypeOK, Processes
    <3> QED
      BY <2>1, <3>2, <3>4, DeployKept
  <2>3. CASE Changes(c)
    BY <2>1, <2>3, DeployKept DEF Changes
  <2> QED
    BY <1>4, <2>2, <2>3
<1> QED
  BY <1>1, <1>2, <1>3, <1>4 DEF Next

LEMMA Invariance == Spec => []IInv
BY Initially, Steps, Stutters, PTL DEF Spec

-------------------------------------------------------------------------------
(* Theorems. *)

\* No process counts beyond the versions that were handed out, and the saved
\* counter stays in their range, through boots, writes and deployments.
THEOREM TypeCorrect == Spec => []TypeOK
<1>1. IInv => TypeOK
  BY DEF IInv, ShapeInv
<1> QED
  BY <1>1, Invariance, PTL

\* A client stays current across a switch of colors, however many there are,
\* unless a process answered it or wrote that had loaded its state before
\* another one wrote (version.service.ts: getCurrentVersion, withNextVersion).
THEOREM ClientsAreCurrent == Spec => []ClientCurrent
<1>1. IInv => ClientCurrent
  BY DEF IInv, CurrentInv, ClientSound, ClientCurrent
<1> QED
  BY <1>1, Invariance, PTL

\* What initVersionState saves at boot undoes no setting, and the color that
\* serves shows the stored one, with the same exceptions.
THEOREM SettingsAreKept == Spec => []SettingsKept
<1>1. IInv => SettingsKept
  <2> SUFFICES ASSUME IInv, ~staleWrite PROVE SettingsKept
    BY DEF SettingsKept
  <2>1. app.setting = lastSetting
    BY DEF IInv, CurrentInv
  <2>2. ASSUME process[upstream].stage = "serving", upstream \notin behind
        PROVE  process[upstream].setting = app.setting
    <3>1. upstream \in UpToDate
      BY <2>2, Rest DEF IInv, UpToDate, Uses
    <3> QED
      BY <3>1 DEF IInv, CurrentInv, ProcessSound
  <2> QED
    BY <2>1, <2>2 DEF SettingsKept
<1> QED
  BY <1>1, Invariance, PTL

\* deploy.sh leaves nginx with a color that serves, aborted runs included but
\* for what NoCutoff says of them, and gracefulShutdown reports no success
\* while an admin waits for an answer.
THEOREM NobodyIsCutOff == Spec => []NoCutoff
<1>1. IInv => NoCutoff
  BY DEF IInv, ShapeInv, WellFormed, DeployInv, NoCutoff
<1> QED
  BY <1>1, Invariance, PTL
===============================================================================
