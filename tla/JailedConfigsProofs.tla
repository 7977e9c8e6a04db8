-------------------------- MODULE JailedConfigsProofs --------------------------
(***************************************************************************)
(* The conditions of the JailedConfigs hold: the two invariants about them *)
(* are preserved by every step.                                            *)
(***************************************************************************)
EXTENDS SlurmConfigsProofs

-----------------------------------------------------------------------------
(* FilesWritten.                                                           *)

LEMMA PassGroupDue ==
    ASSUME Shape, pass.config \subseteq configQueue', NEW c \in pass.group
    PROVE  Due(c)'
  BY DEF Shape, PassShape, Idle, Due

LEMMA WrittenStep ==
    ASSUME Readers # {}, Shape, WrittenInv, [Next]_vars
    PROVE  WrittenInv'
<1> SUFFICES ASSUME "bad" \notin happened'
             PROVE  \A c \in jailed' : Due(c)' \/ (Good(c)' /\ InProgress(c)')
  <2>1. "bad" \notin happened' => Renderable'
    BY HappenedGrows, RenderableStep, Zenon DEF WrittenInv
  <2> QED
    BY <2>1 DEF WrittenInv
<1>0. /\ Renderable
      /\ \A c \in jailed : Due(c) \/ (Good(c) /\ InProgress(c))
      /\ jailed \subseteq Configs
  BY HappenedGrows, Zenon DEF WrittenInv, Shape, ConfigShape
<1>1. ASSUME UNCHANGED <<jailed, configMaps, file, written>>, configQueue \subseteq configQueue',
             pass'.current \subseteq pass.current, pass'.files = pass.files, pass'.data = pass.data
      PROVE  \A c \in jailed' : Due(c)' \/ (Good(c)' /\ InProgress(c)')
  BY <1>0, <1>1 DEF Due, Good, InJail, InProgress
<1>2. CASE ConfigMapsChange \/ WorkerTopologyController
  <2>1. PICK c \in Configs : MapChanges(c)
    BY <1>2, MapWriters, Zenon DEF Shape
  <2>2. UNCHANGED <<file, written, pass>>
    BY <1>2, Zenon DEF ConfigMapsChange, WorkerTopologyController, EnsureWorkerTopologyConfigMap,
                ReconcileTopology, fileVars
  <2>3. Due(c)' /\ jailed' = jailed \cup {c} /\ \A e \in Configs : Due(e) => Due(e)'
    BY <2>1, ZenonT(40) DEF MapChanges, Due
  <2>4. \A e \in jailed \ {c} : (Good(e) => Good(e)') /\ (InProgress(e) => InProgress(e)')
    BY <1>0, <2>1, <2>2 DEF MapChanges, Good, InJail, InProgress
  <2> QED
    BY <1>0, <2>3, <2>4, Zenon
<1>3. ASSUME Aborts, pass.config \subseteq configQueue'
      PROVE  \A c \in jailed' : Due(c)' \/ (Good(c)' /\ InProgress(c)')
  <2> SUFFICES ASSUME NEW c \in jailed PROVE Due(c)' \/ (Good(c)' /\ InProgress(c)')
    BY <1>3, Zenon DEF Aborts
  <2>1. CASE c \in pass.group \/ Due(c)
    BY <1>3, <2>1, PassGroupDue DEF Aborts, Due
  <2>2. CASE c \notin pass.group /\ Good(c)
    <3>1. \A p \in FilesOf[c] : p \in Paths /\ \A e \in Configs \ {c} : p \notin FilesOf[e]
      BY <1>0, ConfigsAssumption, Zenon
    <3>2. pass.group \subseteq Configs
      BY Zenon DEF Shape, PassShape, ConfigShape
    <3>3. \A p \in FilesOf[c] : temp[p] = Missing
      BY <2>2, <3>1, <3>2, ZenonT(40) DEF Shape, PassMarks
    <3>4. \A p \in FilesOf[c] : file'[p] = file[p]
      BY <1>3, <3>1, <3>3, Zenon DEF Aborts
    <3>5. Good(c)'
      BY <1>3, <2>2, <3>4, Zenon DEF Good, InJail, Aborts
    <3>6. InProgress(c)'
      BY <1>3, Zenon DEF Aborts, InProgress, Idle
    <3> QED
      BY <3>5, <3>6
  <2> QED
    BY <1>0, <2>1, <2>2, Zenon
<1>4. CASE ConfigController
  <2>1. ASSUME NEW c \in Configs, Reconcile(c)
        PROVE  \A e \in jailed' : Due(e)' \/ (Good(e)' /\ InProgress(e)')
    <3>1. PICK group : Starts(c, group)
      BY <2>1, ReconcileStarts, Zenon
    <3> SUFFICES ASSUME NEW e \in jailed PROVE Due(e)' \/ (Good(e)' /\ InProgress(e)')
      BY <3>1, Zenon DEF Starts
    <3>2. InProgress(e)'
      <4>1. CASE e \notin pass'.current
        BY <4>1, Zenon DEF InProgress
      <4>2. CASE e \in pass'.current
        <5>1. pass'.current = {c} /\ pass'.files = FilesOf[c] /\ pass'.data = configMaps[c].data
          BY <3>1, <4>2 DEF Starts, Idle
        <5>2. configMaps' = configMaps
          BY <3>1, Zenon DEF Starts
        <5> QED
          BY <4>2, <5>1, <5>2, ZenonT(40) DEF InProgress
      <4> QED
        BY <4>1, <4>2, Zenon
    <3>3. CASE e \in group
      BY <1>0, <3>1, <3>2, <3>3, ZenonT(40) DEF Starts, Good
    <3>4. CASE e \notin group /\ e = c
      BY <1>0, <3>1, <3>2, <3>4, ZenonT(40) DEF Starts, Good
    <3>5. CASE e \notin group /\ e # c
      <4>1. Due(e) => Due(e)'
        BY <3>1, <3>5 DEF Starts, Due, Shape, ConfigShape
      <4>2. Good(e) => Good(e)'
        BY <1>0, <3>1, <3>5, ZenonT(40) DEF Starts, Good, InJail, fileVars
      <4> QED
        BY <1>0, <3>2, <4>1, <4>2, ZenonT(40)
    <3> QED
      BY <3>3, <3>4, <3>5
  <2>2. ASSUME NEW c \in Configs, NextConfig(c)
        PROVE  \A e \in jailed' : Due(e)' \/ (Good(e)' /\ InProgress(e)')
    <3>1. UNCHANGED <<jailed, configMaps, file, written, configQueue>>
      BY <2>2, LoopSteps, ZenonT(40) DEF Loops, fileVars
    <3>2. \A e \in jailed : InProgress(e)'
      BY <2>2, <3>1, LoopSteps DEF InProgress
    <3> QED
      BY <1>0, <3>1, <3>2, Zenon DEF Due, Good, InJail
  <2>3. ASSUME NEW c \in Configs, ConfigMapMissing(c) \/ FilesAreWritten(c)
        PROVE  \A e \in jailed' : Due(e)' \/ (Good(e)' /\ InProgress(e)')
    <3>1. UNCHANGED <<jailed, configMaps, file, configQueue>> /\ pass'.current = {}
      BY <2>3, LoopSteps, Zenon DEF Loops, fileVars
    <3>2. \A e \in jailed : InProgress(e)' /\ (Due(e) => Due(e)')
      BY <3>1, Zenon DEF InProgress, Due
    <3>3. \A e \in jailed \ {c} : Good(e) => Good(e)'
      BY <1>0, <2>3, <3>1, LoopSteps, ZenonT(40) DEF Good, InJail
    <3>4. CASE ConfigMapMissing(c)
      BY <1>0, <3>1, <3>2, <3>3, <3>4, LoopSteps, ZenonT(40) DEF Good
    <3>5. CASE FilesAreWritten(c)
      <4>1. InProgress(c) => Good(c)'
        BY <3>1, <3>5, LoopSteps, SMTT(30) DEF InProgress, Good, InJail
      <4> QED
        BY <1>0, <3>1, <3>2, <3>3, <4>1, ZenonT(40)
    <3> QED
      BY <2>3, <3>4, <3>5, Zenon
  <2>4. ASSUME NEW p \in Paths, WriteFile(p)
        PROVE  \A e \in jailed' : Due(e)' \/ (Good(e)' /\ InProgress(e)')
    <3>1. PICK c \in Configs : Writes(p, c)
      BY <2>4, WriteFileWrites
    <3>2. UNCHANGED <<jailed, configMaps, configQueue, written>>
      BY <3>1, ZenonT(40) DEF Writes, Loops
    <3>3. \A e \in jailed \ {c} : (Good(e) => Good(e)') /\ InProgress(e)'
      <4>1. \A e \in jailed \ {c} : \A q \in FilesOf[e] : q \in Paths \ {p}
        BY <1>0, <3>1, ConfigsAssumption, ZenonT(40) DEF Writes
      <4>2. \A e \in jailed \ {c} : \A q \in FilesOf[e] : file'[q] = file[q]
        BY <3>1, <4>1, Zenon DEF Writes
      <4> QED
        BY <1>0, <3>1, <3>2, <4>2 DEF Writes, Good, InJail, InProgress
    <3>4. Good(c)'
      <4>1. written[c] = "False"
        BY <3>1, ZenonT(40) DEF Writes, Shape, PassShape, PassMarks
      <4> QED
        BY <3>2, <4>1, Zenon DEF Good
    <3>5. InProgress(c) => InProgress(c)'
      <4>1. FilesOf[c] \subseteq Paths
        BY ConfigsAssumption, Zenon
      <4> QED
        BY <3>1, <3>2, <4>1 DEF Writes, InProgress
    <3> QED
      BY <1>0, <3>2, <3>3, <3>4, <3>5, ZenonT(40) DEF Due
  <2>5. CASE FinishStarts \/ FinishRemoves
    <3>1. /\ pass'.current = pass.current /\ pass'.files = pass.files /\ pass'.data = pass.data
      BY <2>5, ZenonT(40) DEF FinishStarts, FinishRemoves, Shape, PassShape, PassFields
    <3> QED
      BY <1>1, <2>5, <3>1, SMTT(30) DEF FinishStarts, FinishRemoves, RemoveTempFiles, fileVars
  <2>6. CASE ActionsCompleted
    <3>1. UNCHANGED <<jailed, configMaps, file, written, configQueue>> /\ pass'.current = {}
      BY <2>6, Zenon DEF ActionsCompleted, fileVars, Idle
    <3> QED
      BY <1>0, <3>1 DEF Due, Good, InJail, InProgress
  <2> QED
    BY <1>0, <1>4, <2>1, <2>2, <2>3, <2>4, <2>5, <2>6, NoneIsInvalid, SMTT(30) DEF ConfigController
<1>5. CASE ConfigFaults
  <2>1. CASE PollFails
    <3>1. /\ pass'.current = pass.current /\ pass'.files = pass.files /\ pass'.data = pass.data
      BY <2>1, Zenon DEF PollFails, Shape, PassShape, PassFields
    <3> QED
      BY <1>1, <2>1, <3>1 DEF PollFails, fileVars
  <2> QED
    BY <1>3, <1>5, <2>1, FaultsAbort, ZenonT(40)
<1>6. CASE FinishWaits \/ Reconfigure
  <2>1. /\ pass'.current = pass.current /\ pass'.files = pass.files /\ pass'.data = pass.data
    BY <1>6, ZenonT(40) DEF FinishWaits, FinishSyncs, Reconfigure, ReadStartTimes, RequestReconfigure,
                pollSlurmNodesRestart, Shape, PassShape, PassFields
  <2>2. UNCHANGED <<jailed, configMaps, file, written, configQueue>>
    BY <1>6, ZenonT(40) DEF FinishWaits, FinishSyncs, SyncCaches, Reconfigure, ReadStartTimes,
                RequestReconfigure, pollSlurmNodesRestart, fileVars
  <2> QED
    BY <1>1, <2>1, <2>2
<1>7. CASE Pods \/ Caches \/ \E n \in Readers : Slurmd(n) \/ Silence(n)
  BY <1>1, <1>7 DEF Pods, Caches, EntryExpires, Slurmd, Silence, fileVars, configVars
<1> QED
  BY <1>1, <1>2, <1>4, <1>5, <1>6, <1>7, OtherSteps, ZenonT(40) DEF Next, fileVars, configVars

-----------------------------------------------------------------------------
(* UpdateActionsCompleted.                                                 *)

\* A pass that has just started has written no file.
LEMMA StartedWroteNothing ==
    ASSUME NEW c, NEW group, Starts(c, group)
    PROVE  /\ \A p : ~WrittenByPass(p)'
           /\ pass.pc = "idle" /\ pass'.pc \notin {"complete", "request", "poll"}
<1>1. pass.pc = "idle" /\ pass'.pc \notin {"complete", "request", "poll"}
  BY DEF Starts, Idle
<1>2. CASE pass' = Idle
  BY <1>1, <1>2, Zenon DEF WrittenByPass, Idle
<1>3. CASE pass' # Idle
  <2>1. /\ pass'.todo = pass'.group
        /\ \/ pass'.current = {}
           \/ pass'.current = {c} /\ pass'.files = FilesOf[c]
    BY <1>3, Zenon DEF Starts
  <2> QED
    BY <1>1, <2>1, Zenon DEF WrittenByPass
<1> QED
  BY <1>1, <1>2, <1>3, ZenonT(40)

\* Nothing disturbs a file that is read as it is in the jail, and a daemon that
\* finishes reading has it.
CleanStays(p) ==
  Clean(p) => /\ Clean(p)'
              /\ \A n \in Readers : /\ slurmd'[n].phase = "up"
                                    /\ slurmd[n].phase = "up" => slurmd[n].loaded[p] = file[p]
                                    => slurmd'[n].loaded[p] = file'[p]

LEMMA ReaderKeepsClean ==
    ASSUME NEW n \in Readers, ReaderStep(n), UNCHANGED fileVars, "silent" \notin happened',
           \A m \in Readers : slurmd[m].phase # "silent", NEW p \in SlurmdFiles
    PROVE  CleanStays(p)
<1> SUFFICES ASSUME Clean(p)
             PROVE  /\ Clean(p)'
                    /\ \A m \in Readers : /\ slurmd'[m].phase = "up"
                                          /\ slurmd[m].phase = "up" => slurmd[m].loaded[p] = file[p]
                                          => slurmd'[m].loaded[p] = file'[p]
  BY DEF CleanStays
<1>1. UNCHANGED <<file, cache>> /\ Opens(n, p) = file[p]
  BY Zenon DEF fileVars, Clean, Opens
<1>2. Clean(p)'
  BY <1>1 DEF Clean, ReaderStep, Reading
<1>3. ASSUME NEW m \in Readers, slurmd'[m].phase = "up",
             slurmd[m].phase = "up" => slurmd[m].loaded[p] = file[p]
      PROVE  slurmd'[m].loaded[p] = file'[p]
  BY <1>1, <1>3, Zenon DEF Clean, ReaderStep, Reading
<1> QED
  BY <1>2, <1>3, ZenonT(40)

LEMMA ReaderCompleted ==
    ASSUME Shape, CompletedInv, NEW n \in Readers, ReaderStep(n),
           UNCHANGED <<fileVars, configVars>>, happened \subseteq happened'
    PROVE  CompletedInv'
<1> SUFFICES ASSUME happened' \cap {"poll", "silent"} = {}
             PROVE  /\ NewFilesUnread' /\ PassIsClean' /\ StaleAreWaitedFor' /\ CompletedAreLoaded'
                    /\ \A m \in Readers : slurmd'[m].phase # "silent"
  BY DEF CompletedInv
<1>0. /\ NewFilesUnread /\ PassIsClean /\ StaleAreWaitedFor /\ CompletedAreLoaded
      /\ \A m \in Readers : slurmd[m].phase # "silent"
  BY DEF CompletedInv
<1>1. UNCHANGED <<file, temp, cache, pass, written, completed>>
  BY DEF fileVars, configVars
<1>2. \A p \in SlurmdFiles : CleanStays(p)
  BY <1>0, ReaderKeepsClean
<1>3. \A p : WrittenByPass(p)' = WrittenByPass(p)
  BY <1>1, ZenonT(40) DEF WrittenByPass
<1>4. NewFilesUnread'
  <2> SUFFICES ASSUME NEW p \in SlurmdFiles, NEW m \in Readers, file[p] = Missing
               PROVE  /\ cache[m][p] = Missing
                      /\ slurmd'[m].phase \in Reading => p \in slurmd'[m].toRead
    BY <1>1 DEF NewFilesUnread, Reading, SlurmdFiles
  <2>1. /\ \A k \in Readers : cache[k][p] = Missing
        /\ \A k \in Readers : slurmd[k].phase \in Reading => p \in slurmd[k].toRead
    BY <1>0 DEF NewFilesUnread, Reading
  <2>2. Opens(n, p) = Missing
    BY <2>1, ZenonT(40) DEF Opens
  <2> QED
    BY <1>0, <2>1, <2>2, SMTT(30) DEF ReaderStep, Reading
<1>5. PassIsClean'
  BY <1>0, <1>1, <1>2, <1>3, SMTT(30) DEF PassIsClean, CleanStays, SlurmdFiles
<1>6. StaleAreWaitedFor'
  <2> SUFFICES ASSUME NEW m \in Readers, NEW p \in SlurmdFiles, WrittenByPass(p),
                      slurmd'[m].phase = "up", slurmd'[m].loaded[p] # file[p]
               PROVE  /\ pass.pc # "complete"
                      /\ pass.pc \in {"request", "poll"} => m \in pass.waiting \ restarted'
    BY <1>1, <1>3 DEF StaleAreWaitedFor, SlurmdFiles
  <2>1. CASE pass.pc \in {"configs", "sync"}
    BY <2>1, Zenon
  <2>2. CASE Clean(p)
    <3>1. slurmd[m].phase = "up" /\ slurmd[m].loaded[p] # file[p]
      BY <1>1, <1>2, <2>2, SMTT(30) DEF CleanStays
    <3>2. /\ pass.pc # "complete"
          /\ pass.pc \in {"request", "poll"} => m \in pass.waiting \ restarted
      BY <1>0, <3>1, ZenonT(40) DEF StaleAreWaitedFor
    <3>3. restarted' = restarted \/ (restarted' = restarted \cup {n} /\ slurmd[n].phase \in Reading)
      BY Zenon DEF ReaderStep
    <3> QED
      BY <3>1, <3>2, <3>3, ZenonT(40) DEF Reading
  <2> QED
    BY <1>0, <2>1, <2>2 DEF PassIsClean
<1>7. CompletedAreLoaded'
  <2> SUFFICES ASSUME NEW c \in Reconfigures, completed[c] = "True", NEW p \in FilesOf[c]
               PROVE  /\ Clean(p)'
                      /\ \A m \in Readers : slurmd'[m].phase = "up" => slurmd'[m].loaded[p] = file'[p]
    BY <1>1, Zenon DEF CompletedAreLoaded
  <2>1. p \in SlurmdFiles
    BY Zenon DEF SlurmdFiles
  <2> QED
    BY <1>0, <1>2, <2>1, ZenonT(40) DEF CompletedAreLoaded, CleanStays
<1>8. \A m \in Readers : slurmd'[m].phase # "silent"
  BY <1>0, Zenon DEF ReaderStep, Reading
<1> QED
  BY <1>4, <1>5, <1>6, <1>7, <1>8, ZenonT(40)

\* The daemons stand still and caches at most expire.
Still ==
  /\ \A n \in Readers : /\ slurmd'[n].phase = slurmd[n].phase
                        /\ slurmd'[n].toRead = slurmd[n].toRead
                        /\ slurmd'[n].loaded = slurmd[n].loaded
  /\ \A n \in Readers, p \in Paths : cache[n][p] = Missing => cache'[n][p] = Missing
  /\ UNCHANGED file

LEMMA StillKeeps ==
    ASSUME Still
    PROVE  /\ \A p \in Paths : Clean(p) => Clean(p)'
           /\ SlurmdFiles \subseteq Paths /\ \A c \in Reconfigures : FilesOf[c] \subseteq SlurmdFiles
           /\ NewFilesUnread => NewFilesUnread'
<1>1. SlurmdFiles \subseteq Paths /\ \A c \in Reconfigures : FilesOf[c] \subseteq SlurmdFiles
  BY ConfigsAssumption, ZenonT(40) DEF SlurmdFiles
<1>2. \A p \in Paths : Clean(p) => Clean(p)'
  BY DEF Still, Clean
<1>3. NewFilesUnread => NewFilesUnread'
  BY <1>1, ZenonT(40) DEF Still, NewFilesUnread, SlurmdFiles
<1> QED
  BY <1>1, <1>2, <1>3

\* A step of the controller with the daemons still that writes no file and
\* completes no actions.
LEMMA StillCompleted ==
    ASSUME CompletedInv, Still, happened \subseteq happened',
           \A p \in SlurmdFiles : WrittenByPass(p)' => WrittenByPass(p),
           pass.pc \in {"configs", "sync"} =>
             \A p \in SlurmdFiles : WrittenByPass(p) /\ temp[p] # Missing =>
               Clean(p)' \/ (pass'.pc \in {"configs", "sync"} /\ temp'[p] # Missing),
           \/ pass'.pc = pass.pc /\ pass'.waiting = pass.waiting /\ restarted' = restarted
           \/ pass'.pc \notin {"complete", "request", "poll"}
           \/ StaleAreWaitedFor => StaleAreWaitedFor',
           \A c \in Reconfigures : completed'[c] = "True" => completed[c] = "True"
    PROVE  CompletedInv'
<1> SUFFICES ASSUME happened' \cap {"poll", "silent"} = {}
             PROVE  /\ NewFilesUnread' /\ PassIsClean' /\ StaleAreWaitedFor' /\ CompletedAreLoaded'
                    /\ \A m \in Readers : slurmd'[m].phase # "silent"
  BY DEF CompletedInv
<1>0. /\ NewFilesUnread /\ PassIsClean /\ StaleAreWaitedFor /\ CompletedAreLoaded
      /\ \A m \in Readers : slurmd[m].phase # "silent"
  BY Zenon DEF CompletedInv
<1>1. UNCHANGED file /\ \A p \in SlurmdFiles : Clean(p) => Clean(p)'
  BY StillKeeps, Zenon DEF Still
<1>2. PassIsClean'
  BY <1>0, <1>1, Zenon DEF PassIsClean, SlurmdFiles
<1>3. StaleAreWaitedFor'
  BY <1>0, <1>1, ZenonT(40) DEF StaleAreWaitedFor, Still, SlurmdFiles
<1>4. CompletedAreLoaded'
  BY <1>0, <1>1, StillKeeps DEF CompletedAreLoaded, Still
<1> QED
  BY <1>0, <1>2, <1>3, <1>4, StillKeeps, SMTT(30) DEF Still

LEMMA FinishCompleted ==
    ASSUME Shape, CompletedInv, happened \subseteq happened',
           FinishStarts \/ FinishSyncs \/ FinishRemoves, UNCHANGED slurmdVars
    PROVE  CompletedInv'
<1>1. /\ pass'.group = pass.group /\ pass'.todo = pass.todo /\ pass'.current = pass.current
      /\ pass'.files = pass.files /\ pass'.waiting = pass.waiting
      /\ UNCHANGED <<written, completed, slurmd, file>>
  BY DEF FinishStarts, FinishSyncs, FinishRemoves, SyncCaches, RemoveTempFiles, fileVars,
         slurmdVars, Shape, PassShape, PassFields
<1>2. \A p \in SlurmdFiles : WrittenByPass(p)' => WrittenByPass(p)
  BY <1>1, Zenon DEF WrittenByPass
<1>3. pass'.pc \in {"times", "sync", "remove"}
  BY DEF FinishStarts, FinishSyncs, FinishRemoves, Shape, PassShape, PassFields
<1>4. SlurmdFiles \subseteq Paths
  BY ConfigsAssumption, Zenon DEF SlurmdFiles
<1>5. CASE FinishStarts
  <2>1. Still /\ UNCHANGED temp
    BY <1>1, <1>5, Zenon DEF Still, FinishStarts, fileVars
  <2>2. pass'.pc = "sync" \/ \A p \in Paths : temp[p] = Missing
    BY <1>5, ZenonT(40) DEF FinishStarts, Pending, Shape, PassShape, PassFields
  <2> QED
    BY <1>1, <1>2, <1>3, <1>4, <2>1, <2>2, StillCompleted, ZenonT(40)
<1>6. CASE FinishSyncs
  <2>1. \A n \in Readers, p \in Paths : cache'[n][p] = Missing
    BY <1>6 DEF FinishSyncs, SyncCaches
  <2>2. \A n \in Readers : slurmd'[n].phase \notin {"starting", "reloading"}
    BY <1>1, <1>6, SMTT(30) DEF FinishSyncs
  <2>3. Still
    BY <1>1, <2>1 DEF Still
  <2>4. \A p \in SlurmdFiles : Clean(p)'
    BY <1>4, <2>1, <2>2, SMTT(30) DEF Clean
  <2> QED
    BY <1>1, <1>2, <1>3, <2>3, <2>4, StillCompleted, SMTT(30)
<1>7. CASE FinishRemoves
  <2>1. Still /\ pass.pc = "remove"
    BY <1>1, <1>7, SMTT(30) DEF Still, FinishRemoves, RemoveTempFiles
  <2> QED
    BY <1>1, <1>2, <1>3, <2>1, StillCompleted, SMTT(30)
<1> QED
  BY <1>5, <1>6, <1>7, ZenonT(40)

LEMMA ReconfigureCompleted ==
    ASSUME Shape, CompletedInv, happened \subseteq happened', Reconfigure
    PROVE  CompletedInv'
<1>1. /\ pass'.group = pass.group /\ pass'.todo = pass.todo /\ pass'.current = pass.current
      /\ pass'.files = pass.files
  BY Zenon DEF Reconfigure, ReadStartTimes, RequestReconfigure, pollSlurmNodesRestart,
         Shape, PassShape, PassFields
<1>2. UNCHANGED <<written, completed, file, cache, temp>> /\ pass.pc \in {"times", "request", "poll"}
  BY ZenonT(40) DEF Reconfigure, ReadStartTimes, RequestReconfigure, pollSlurmNodesRestart, fileVars
<1>3. \A p : WrittenByPass(p)' = WrittenByPass(p)
  BY <1>1, <1>2 DEF WrittenByPass
<1>4. ASSUME UNCHANGED slurmd PROVE Still
  BY <1>2, <1>4, ZenonT(40) DEF Still
<1>5. CASE ReadStartTimes
  <2>1. Still
    BY <1>4, <1>5 DEF ReadStartTimes
  <2>2. pass'.pc = "request" /\ pass'.waiting = Responding /\ restarted' = {}
    BY <1>5 DEF ReadStartTimes, Shape, PassShape, PassFields
  <2>3. StaleAreWaitedFor'
    BY <1>5, <2>2, ZenonT(40) DEF ReadStartTimes, StaleAreWaitedFor, Responding
  <2> QED
    BY <1>2, <1>3, <2>1, <2>3, StillCompleted, SMTT(30)
<1>6. CASE RequestReconfigure
  <2>1. Still
    BY <1>2, <1>6, ReloadRequested DEF RequestReconfigure, Still, Shape
  <2>2. pass.pc = "request" /\ pass'.pc = "poll" /\ pass'.waiting = pass.waiting
        /\ restarted' = restarted
    BY <1>6, Zenon DEF RequestReconfigure, Shape, PassShape, PassFields
  <2>3. StaleAreWaitedFor => StaleAreWaitedFor'
    BY <1>2, <1>3, <2>1, <2>2, ZenonT(40) DEF StaleAreWaitedFor, Still, SlurmdFiles
  <2> QED
    BY <1>2, <1>3, <2>1, <2>3, StillCompleted, ZenonT(40)
<1>7. CASE pollSlurmNodesRestart
  <2>1. Still /\ UNCHANGED <<slurmd, restarted>>
    BY <1>4, <1>7 DEF pollSlurmNodesRestart, slurmdVars
  <2>2. PICK waiting : waiting = (pass.waiting \cap Responding) \ restarted
    BY Zenon
  <2>3. /\ pass.pc = "poll" /\ pass'.waiting = waiting
        /\ pass'.pc = IF waiting = {} THEN "complete" ELSE "poll"
    BY <1>7, <2>2 DEF pollSlurmNodesRestart, Shape, PassShape, PassFields
  <2>4. StaleAreWaitedFor => StaleAreWaitedFor'
    <3> SUFFICES ASSUME StaleAreWaitedFor, NEW n \in Readers, NEW p \in SlurmdFiles,
                        WrittenByPass(p), slurmd[n].phase = "up", slurmd[n].loaded[p] # file[p]
                 PROVE  n \in waiting
      BY <1>2, <1>3, <2>1, <2>2, <2>3, ZenonT(40) DEF StaleAreWaitedFor, SlurmdFiles
    <3> QED
      BY <2>2, <2>3, ZenonT(40) DEF StaleAreWaitedFor, Responding
  <2> QED
    BY <1>2, <1>3, <2>1, <2>4, StillCompleted, SMTT(30)
<1> QED
  BY <1>5, <1>6, <1>7, SMTT(30) DEF Reconfigure

\* A config the pass does not work on keeps its files.
LEMMA OthersKeepFiles ==
    ASSUME Shape, NEW c \in Configs, c \notin pass.group, NEW p \in FilesOf[c]
    PROVE  p \in Paths /\ temp[p] = Missing
<1>1. p \in Paths /\ \A d \in Configs \ {c} : p \notin FilesOf[d]
  BY ConfigsAssumption, ZenonT(40)
<1>2. pass.group \subseteq Configs
  BY DEF Shape, PassShape, ConfigShape
<1> QED
  BY <1>1, <1>2, Zenon DEF Shape, PassMarks

LEMMA AbortCompleted ==
    ASSUME Shape, CompletedInv, happened \subseteq happened', Aborts
    PROVE  CompletedInv'
<1> SUFFICES ASSUME happened' \cap {"poll", "silent"} = {}
             PROVE  /\ NewFilesUnread' /\ PassIsClean' /\ StaleAreWaitedFor' /\ CompletedAreLoaded'
                    /\ \A m \in Readers : slurmd'[m].phase # "silent"
  BY DEF CompletedInv
<1>0. /\ NewFilesUnread /\ CompletedAreLoaded
      /\ \A m \in Readers : slurmd[m].phase # "silent"
  BY DEF CompletedInv
<1>1. SlurmdFiles \subseteq Paths
  BY ConfigsAssumption, ZenonT(40) DEF SlurmdFiles
<1>2. NewFilesUnread'
  <2> SUFFICES ASSUME NEW p \in SlurmdFiles, NEW n \in Readers, file'[p] = Missing
               PROVE  /\ cache'[n][p] = Missing
                      /\ slurmd'[n].phase \in {"starting", "reloading"} => p \in slurmd'[n].toRead
    BY Zenon DEF NewFilesUnread, SlurmdFiles
  <2>1. file[p] = Missing /\ cache'[n][p] = cache[n][p]
    BY <1>1, ZenonT(40) DEF Aborts
  <2> QED
    BY <1>0, <2>1 DEF NewFilesUnread, Aborts
<1>3. PassIsClean' /\ StaleAreWaitedFor'
  <2>1. \A p : ~WrittenByPass(p)'
    BY Zenon DEF Aborts, WrittenByPass, Idle
  <2> QED
    BY <2>1 DEF PassIsClean, StaleAreWaitedFor
<1>4. CompletedAreLoaded'
  <2> SUFFICES ASSUME NEW c \in Reconfigures, completed[c] = "True", NEW p \in FilesOf[c]
               PROVE  /\ Clean(p)'
                      /\ \A n \in Readers : slurmd'[n].phase = "up" => slurmd'[n].loaded[p] = file'[p]
    BY DEF Aborts, CompletedAreLoaded
  <2>1. c \in Configs /\ c \notin pass.group
    BY ConfigsAssumption, Zenon DEF Shape, PassMarks
  <2>2. file'[p] = file[p] /\ \A n \in Readers : cache'[n][p] = cache[n][p]
    BY <2>1, OthersKeepFiles DEF Aborts
  <2>3. /\ Clean(p)
        /\ \A n \in Readers : slurmd[n].phase = "up" => slurmd[n].loaded[p] = file[p]
    BY <1>0, Zenon DEF CompletedAreLoaded
  <2> QED
    BY <2>2, <2>3, ZenonT(40) DEF Aborts, Clean
<1>5. \A m \in Readers : slurmd'[m].phase # "silent"
  BY <1>0, Zenon DEF Aborts
<1> QED
  BY <1>2, <1>3, <1>4, <1>5, ZenonT(40)

LEMMA WriteCompleted ==
    ASSUME Shape, CompletedInv, happened \subseteq happened', UNCHANGED slurmdVars,
           NEW p \in Paths, NEW c \in Configs, Writes(p, c)
    PROVE  CompletedInv'
<1> SUFFICES ASSUME happened' \cap {"poll", "silent"} = {}
             PROVE  /\ NewFilesUnread' /\ PassIsClean' /\ StaleAreWaitedFor' /\ CompletedAreLoaded'
                    /\ \A m \in Readers : slurmd'[m].phase # "silent"
  BY DEF CompletedInv
<1>0. /\ NewFilesUnread /\ PassIsClean /\ CompletedAreLoaded
      /\ \A m \in Readers : slurmd[m].phase # "silent"
      /\ slurmd' = slurmd
  BY DEF CompletedInv, slurmdVars
<1>1. SlurmdFiles \subseteq Paths
  BY ConfigsAssumption, ZenonT(40) DEF SlurmdFiles
<1>2. \A q \in Paths \ {p} : Clean(q) => Clean(q)'
  BY <1>0, ZenonT(40) DEF Writes, Clean
<1>3. NewFilesUnread'
  BY <1>0, <1>1 DEF NewFilesUnread, Writes, SlurmdFiles
<1>4. PassIsClean'
  <2> SUFFICES ASSUME NEW q \in SlurmdFiles, WrittenByPass(q)'
               PROVE  file'[q] # Missing /\ (temp'[q] # Missing \/ Clean(q)')
    BY Zenon DEF PassIsClean, SlurmdFiles, Writes, Loops
  <2>1. CASE q = p
    <3>1. CASE file[p] # Missing
      BY <2>1, <3>1, ZenonT(40) DEF Writes
    <3>2. CASE file[p] = Missing
      BY <1>0, <2>1, <3>2, ZenonT(40) DEF Writes, NewFilesUnread, Clean
    <3> QED
      BY <3>1, <3>2, Zenon
  <2>2. CASE q # p
    <3>1. WrittenByPass(q)
      BY <2>2, Zenon DEF WrittenByPass, Writes, Loops
    <3> QED
      BY <1>0, <1>1, <1>2, <2>2, <3>1, ZenonT(40) DEF PassIsClean, Writes
  <2> QED
    BY <2>1, <2>2, ZenonT(40)
<1>5. StaleAreWaitedFor'
  BY ZenonT(40) DEF StaleAreWaitedFor, Writes, Loops
<1>6. CompletedAreLoaded'
  <2> SUFFICES ASSUME NEW d \in Reconfigures, completed[d] = "True", NEW q \in FilesOf[d]
               PROVE  /\ Clean(q)'
                      /\ \A n \in Readers : slurmd'[n].phase = "up" => slurmd'[n].loaded[q] = file'[q]
    BY Zenon DEF Writes, Loops, CompletedAreLoaded
  <2>1. c \in pass.group
    BY Zenon DEF Writes, Shape, PassShape
  <2>2. d \in Configs /\ d # c
    BY <2>1, ConfigsAssumption, ZenonT(40) DEF Shape, PassMarks
  <2>3. q \in Paths \ {p}
    BY <2>2, ConfigsAssumption DEF Writes
  <2> QED
    BY <1>0, <1>2, <2>3, SMTT(30) DEF CompletedAreLoaded, Writes
<1> QED
  BY <1>0, <1>3, <1>4, <1>5, <1>6, ZenonT(40)

\* The actions of the group are completed: its files are loaded.
LEMMA CompletionCompleted ==
    ASSUME Shape, CompletedInv, happened \subseteq happened', UNCHANGED slurmdVars,
           ActionsCompleted
    PROVE  CompletedInv'
<1> SUFFICES ASSUME happened' \cap {"poll", "silent"} = {}
             PROVE  /\ NewFilesUnread' /\ PassIsClean' /\ StaleAreWaitedFor' /\ CompletedAreLoaded'
                    /\ \A m \in Readers : slurmd'[m].phase # "silent"
  BY Zenon DEF CompletedInv
<1>0. /\ NewFilesUnread /\ PassIsClean /\ StaleAreWaitedFor /\ CompletedAreLoaded
      /\ \A m \in Readers : slurmd[m].phase # "silent"
      /\ slurmd' = slurmd /\ UNCHANGED <<file, cache>>
  BY Zenon DEF CompletedInv, slurmdVars, ActionsCompleted, fileVars
<1>1. Still
  BY <1>0, Zenon DEF Still
<1>2. PassIsClean' /\ StaleAreWaitedFor'
  <2>1. \A p : ~WrittenByPass(p)'
    BY Zenon DEF ActionsCompleted, WrittenByPass, Idle
  <2> QED
    BY <2>1, Zenon DEF PassIsClean, StaleAreWaitedFor
<1>3. CompletedAreLoaded'
  <2> SUFFICES ASSUME NEW c \in Reconfigures, completed'[c] = "True", NEW p \in FilesOf[c]
               PROVE  /\ Clean(p)
                      /\ \A n \in Readers : slurmd[n].phase = "up" => slurmd[n].loaded[p] = file[p]
    BY <1>0 DEF CompletedAreLoaded, Clean
  <2>0. c \in Configs /\ p \in SlurmdFiles
    BY ConfigsAssumption, Zenon DEF SlurmdFiles
  <2>1. CASE c \in pass.group
    <3>1. pass.pc = "complete" /\ written[c] = "True"
      BY <2>1, CompletionEnds, Zenon
    <3>2. WrittenByPass(p)
      BY <2>1, <3>1, ZenonT(40) DEF WrittenByPass, Shape, PassShape
    <3> QED
      BY <1>0, <2>0, <3>1, <3>2, ZenonT(40) DEF PassIsClean, StaleAreWaitedFor
  <2>2. CASE c \notin pass.group
    BY <1>0, <2>0, <2>2, CompletionEnds, SMTT(30) DEF CompletedAreLoaded
  <2> QED
    BY <2>1, <2>2, ZenonT(40)
<1> QED
  BY <1>0, <1>1, <1>2, <1>3, StillKeeps, ZenonT(40)

LEMMA LoopCompleted ==
    ASSUME Shape, CompletedInv, happened \subseteq happened', UNCHANGED slurmdVars,
           NEW c \in Configs,
           Reconcile(c) \/ NextConfig(c) \/ ConfigMapMissing(c) \/ FilesAreWritten(c)
    PROVE  CompletedInv'
<1>1. Still /\ UNCHANGED temp
  BY DEF Still, slurmdVars, fileVars, Reconcile, NextConfig, ConfigMapMissing, FilesAreWritten
<1>2. Reconfigures \subseteq Configs
  BY ConfigsAssumption, ZenonT(40)
<1>3. CASE Reconcile(c)
  <2>1. PICK group : Starts(c, group)
    BY <1>3, ReconcileStarts, ZenonT(40)
  <2>2. \A p \in SlurmdFiles : ~WrittenByPass(p)'
    BY <2>1, StartedWroteNothing, Zenon
  <2>3. pass.pc = "idle" /\ pass'.pc \notin {"complete", "request", "poll"}
    BY <2>1, StartedWroteNothing, Zenon
  <2>4. \A d \in Reconfigures : completed'[d] = "True" => completed[d] = "True"
    BY <1>2, <2>1, Zenon DEF Starts
  <2> QED
    BY <1>1, <2>2, <2>3, <2>4, StillCompleted, SMTT(30)
<1>4. CASE NextConfig(c) \/ ConfigMapMissing(c) \/ FilesAreWritten(c)
  <2>1. Loops
    BY <1>4, LoopSteps, ZenonT(40)
  <2>2. pass.group \subseteq Configs
    BY DEF Shape, PassShape, ConfigShape
  <2>3. ASSUME NEW p \in SlurmdFiles, WrittenByPass(p)' PROVE WrittenByPass(p)
    <3>1. PICK d \in pass.group : /\ p \in FilesOf[d]
                                  /\ \/ d \notin pass'.todo /\ written'[d] = "True"
                                     \/ d \in pass'.current /\ p \notin pass'.files
      BY <2>1, <2>3, Zenon DEF WrittenByPass, Loops
    <3> QED
      BY <1>4, <2>2, <3>1, LoopSteps, ZenonT(40) DEF WrittenByPass
  <2> QED
    BY <1>1, <2>1, <2>3, StillCompleted, ZenonT(40) DEF Loops
<1> QED
  BY <1>3, <1>4

LEMMA CompletedStep ==
    ASSUME Readers # {}, Shape, CompletedInv, [Next]_vars
    PROVE  CompletedInv'
<1>0. happened \subseteq happened'
  BY HappenedGrows, ZenonT(40)
<1>1. ASSUME Still, UNCHANGED <<written, completed, pass, temp, restarted>> PROVE CompletedInv'
  <2>1. \A p : WrittenByPass(p)' = WrittenByPass(p)
    BY <1>1, Zenon DEF WrittenByPass
  <2> QED
    BY <1>0, <1>1, <2>1, StillCompleted
<1>2. CASE ConfigMapsChange \/ WorkerTopologyController
  BY <1>1, <1>2, ZenonT(40) DEF ConfigMapsChange, WorkerTopologyController, EnsureWorkerTopologyConfigMap,
                    ReconcileTopology, fileVars, slurmdVars, Still
<1>3. CASE ConfigController
  <2>1. UNCHANGED slurmdVars
    BY <1>3, Zenon DEF ConfigController
  <2> QED
    BY <1>0, <1>3, <2>1, LoopCompleted, InvalidAborts, AbortCompleted, WriteFileWrites,
       WriteCompleted, FinishCompleted, CompletionCompleted, SMTT(30) DEF ConfigController
<1>4. CASE ConfigFaults
  BY <1>0, <1>4, FaultsAbort, AbortCompleted DEF CompletedInv
<1>5. CASE FinishWaits \/ Reconfigure
  BY <1>0, <1>5, FinishCompleted, ReconfigureCompleted DEF FinishWaits
<1>6. CASE Pods \/ \E n \in Readers : Slurmd(n) \/ Silence(n)
  BY <1>0, <1>6, SlurmdSteps, PodSteps, ReaderCompleted, ZenonT(40) DEF Shape
<1>7. CASE Caches
  <2>1. /\ UNCHANGED <<file, temp, slurmd, restarted, written, completed, pass>>
        /\ \A n \in Readers, p \in Paths : cache[n][p] = Missing => cache'[n][p] = Missing
    BY <1>7 DEF Caches, EntryExpires, slurmdVars, configVars, Shape, FilesShape
  <2> QED
    BY <1>1, <2>1 DEF Still
<1>8. CASE UNCHANGED <<fileVars, configVars, slurmdVars>>
  BY <1>1, <1>8, Zenon DEF fileVars, configVars, slurmdVars, Still
<1> QED
  BY <1>2, <1>3, <1>4, <1>5, <1>6, <1>7, <1>8, OtherSteps, Zenon DEF Next

\* The conditions of the JailedConfigs say what is so once the controller is
\* done (jailedconfig_controller.go): FilesWritten that the jail has what the
\* ConfigMap holds, UpdateActionsCompleted that the daemons have loaded it, for
\* every set of files, configs and workers and whatever fails in between.
THEOREM ConditionsAlwaysHold ==
    ASSUME Readers # {}
    PROVE  Spec => []ConditionsHold
<1> DEFINE Inv == Shape /\ WrittenInv /\ CompletedInv
<1>1. Init => Inv
  BY InitShape
<1>2. Inv /\ [Next]_vars => Inv'
  BY ShapeStep, WrittenStep, CompletedStep, ZenonT(40)
<1>3. Inv => ConditionsHold
  BY DEF Inv, WrittenInv, CompletedInv, ConditionsHold, Settled, Due, Good, CompletedAreLoaded,
         LoadedBy
<1> HIDE DEF Inv
<1> QED
  BY <1>1, <1>2, <1>3, PTL DEF Spec
=============================================================================
