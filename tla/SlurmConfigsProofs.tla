--------------------------- MODULE SlurmConfigsProofs ---------------------------
(***************************************************************************)
(* How configuration reaches the daemons: the invariants behind the proofs *)
(* and what each step does to the state they are about.  The invariants    *)
(* are in layers: the shape of the state, what the pass that runs has done *)
(* so far, and what the conditions of the JailedConfigs it does not work   *)
(* on can be relied on for.                                                *)
(***************************************************************************)
EXTENDS SlurmConfigs, TLAPS

-----------------------------------------------------------------------------
(* Shapes.                                                                 *)

FilesShape ==
  /\ DOMAIN file = Paths /\ DOMAIN temp = Paths /\ DOMAIN cache = Readers
  /\ \A n \in Readers : DOMAIN cache[n] = Paths

ConfigShape ==
  /\ jailed \subseteq Configs /\ configQueue \subseteq jailed
  /\ DOMAIN configMaps = Configs /\ DOMAIN written = Configs /\ DOMAIN completed = Configs
  /\ \A c \in Configs : /\ DOMAIN configMaps[c] = {"exists", "data"}
                        /\ DOMAIN configMaps[c].data = Paths

SlurmdShape ==
  /\ DOMAIN slurmd = Readers
  /\ \A n \in Readers : /\ DOMAIN slurmd[n] = {"phase", "toRead", "loaded", "reload"}
                        /\ DOMAIN slurmd[n].loaded = SlurmdFiles
                        /\ slurmd[n].toRead \subseteq SlurmdFiles

PassFields == {"pc", "config", "group", "todo", "current", "files", "data", "waiting"}
Steps == {"idle", "configs", "sync", "remove", "times", "request", "poll", "complete"}

\* What a pass works on: one config without the label, or configs with it.
PassShape ==
  /\ DOMAIN pass = PassFields /\ pass.pc \in Steps
  /\ pass.pc = "idle" => pass = Idle
  /\ pass.pc # "idle" =>
       \E d \in jailed : /\ pass.config = {d}
                         /\ \/ d \notin Aggregated /\ pass.group = {d}
                            \/ d \in Aggregated /\ pass.group \subseteq Aggregated
  /\ pass.group \subseteq jailed /\ pass.todo \subseteq pass.group
  /\ pass.pc # "configs" => pass.todo = {}
  /\ \A c \in pass.current : pass.current = {c} /\ c \in pass.todo
  /\ \A p \in pass.files : \E c \in pass.current : p \in FilesOf[c]

\* The conditions of what it works on, and the files it has replaced.
PassMarks ==
  /\ \A c \in pass.group : completed[c] = "False"
  /\ \A c \in pass.todo : written[c] = "False"
  /\ \A c \in pass.group \ pass.todo : written[c] \in {"True", "NotFound"}
  /\ \A c \in pass.current : \A p \in FilesOf[c] : pass.data[p] # Missing
  /\ \A p \in Paths : temp[p] # Missing =>
       /\ pass.pc \in {"configs", "sync", "remove"}
       /\ \E c \in pass.group : p \in FilesOf[c]
       /\ file[p] # Missing

Shape == FilesShape /\ ConfigShape /\ SlurmdShape /\ PassShape /\ PassMarks

-----------------------------------------------------------------------------
(* FilesWritten.                                                           *)

\* Every ConfigMap can be rendered.
Renderable ==
  \A c \in Configs : configMaps[c].exists \/ c # "topology" => PayloadOK(c)

\* A pass that refreshes the conditions of c is due.
Due(c) == c \in configQueue \/ (c \in Aggregated /\ configQueue \cap Aggregated # {})

Good(c) == written[c] = "True" /\ configMaps[c].exists => InJail(c)

\* The pass writes what the ConfigMap holds.
InProgress(c) ==
  c \in pass.current =>
    /\ configMaps[c].exists => \A p \in FilesOf[c] : pass.data[p] = configMaps[c].data[p]
    /\ \A p \in FilesOf[c] \ pass.files : file[p] = pass.data[p]

WrittenInv ==
  "bad" \notin happened =>
    Renderable /\ \A c \in jailed : Due(c) \/ (Good(c) /\ InProgress(c))

-----------------------------------------------------------------------------
(* UpdateActionsCompleted.                                                 *)

\* Whoever reads p reads the file in the jail.
Clean(p) ==
  \A n \in Readers :
    /\ cache[n][p] = Missing
    /\ slurmd[n].phase \in {"starting", "reloading"} =>
         p \in slurmd[n].toRead \/ slurmd[n].loaded[p] = file[p]

\* The pass has written p.
WrittenByPass(p) ==
  \E c \in pass.group : /\ p \in FilesOf[c]
                        /\ \/ c \notin pass.todo /\ written[c] = "True"
                           \/ c \in pass.current /\ p \notin pass.files

\* A file that was not there has not been read by a daemon that goes on.
NewFilesUnread ==
  \A p \in SlurmdFiles, n \in Readers : file[p] = Missing =>
    /\ cache[n][p] = Missing
    /\ slurmd[n].phase \in {"starting", "reloading"} => p \in slurmd[n].toRead

PassIsClean ==
  \A p \in SlurmdFiles : WrittenByPass(p) =>
    /\ file[p] # Missing
    /\ \/ pass.pc \in {"configs", "sync"} /\ temp[p] # Missing
       \/ Clean(p)

\* The nodes that have to restart are waited for.
StaleAreWaitedFor ==
  \A n \in Readers, p \in SlurmdFiles :
    /\ WrittenByPass(p) /\ slurmd[n].phase = "up" /\ slurmd[n].loaded[p] # file[p] =>
         /\ pass.pc # "complete"
         /\ pass.pc \in {"request", "poll"} => n \in pass.waiting \ restarted

CompletedAreLoaded ==
  \A c \in Reconfigures : completed[c] = "True" =>
    \A p \in FilesOf[c] :
      /\ Clean(p)
      /\ \A n \in Readers : slurmd[n].phase = "up" => slurmd[n].loaded[p] = file[p]

CompletedInv ==
  happened \cap {"poll", "silent"} = {} =>
    /\ NewFilesUnread /\ PassIsClean /\ StaleAreWaitedFor /\ CompletedAreLoaded
    /\ \A n \in Readers : slurmd[n].phase # "silent"

-----------------------------------------------------------------------------
(* Directory entries.                                                      *)

FilesInv ==
  /\ \A p \in Paths : file[p] # Gone /\ temp[p] # Gone /\ pass.data[p] # Gone
  /\ \A c \in Configs, p \in Paths : configMaps[c].data[p] # Gone
  /\ pass.pc = "remove" => \A n \in Readers, p \in Paths : cache[n][p] = Missing
  /\ happened \cap {"faults", "bad"} = {} =>
       Renderable /\ \A n \in Readers, p \in Paths : cache[n][p] # Gone

-----------------------------------------------------------------------------
(* What a pass does: it starts, goes through its configs, writes files.    *)

\* A pass starts: the conditions of its group are refreshed, or it ends at once.
Starts(c, group) ==
  /\ c \in configQueue /\ configQueue' = configQueue \ {c} /\ pass.pc = "idle"
  /\ UNCHANGED <<jailed, configMaps, fileVars>>
  /\ DOMAIN written' = Configs /\ DOMAIN completed' = Configs
  /\ \A d \in Configs : d \in group => written'[d] = "False" /\ completed'[d] = "False"
  /\ \A d \in Configs \ group : /\ written'[d] = written[d] \/ (d = c /\ written'[d] = "Unknown")
                                /\ completed'[d] \in {completed[d], "Unknown"}
  /\ \/ c \notin Aggregated /\ group = {c}
     \/ c \in Aggregated /\ group = jailed \cap Aggregated
     \/ c \notin Aggregated /\ group = {} /\ ~configMaps[c].exists
  /\ \/ pass' = Idle
     \/ /\ DOMAIN pass' = PassFields /\ pass'.pc = "configs" /\ pass'.config = {c}
        /\ pass'.group = group /\ pass'.todo = group /\ group # {}
        /\ \/ pass'.current = {} /\ pass'.files = {} /\ pass'.data = [p \in Paths |-> Missing]
           \/ /\ pass'.current = {c} /\ pass'.files = FilesOf[c] /\ group = {c}
              /\ pass'.data = configMaps[c].data /\ PayloadOK(c)

LEMMA ReconcileStarts ==
    ASSUME Shape, NEW c \in Configs, Reconcile(c)
    PROVE  \E group : Starts(c, group)
<1>0. /\ DOMAIN written = Configs /\ DOMAIN completed = Configs /\ c \in jailed
      /\ jailed \subseteq Configs
  BY DEF Shape, ConfigShape, Reconcile
<1>1. CASE reconcileIndividual(c) /\ ~configMaps[c].exists
  <2>1. /\ written' = [written EXCEPT ![c] = IF @ = "" THEN "Unknown" ELSE @]
        /\ completed' = [completed EXCEPT ![c] = IF @ = "" THEN "Unknown" ELSE @]
        /\ pass' = Idle /\ c \notin Aggregated
    BY <1>1, Zenon DEF reconcileIndividual, Initialised
  <2>2. /\ DOMAIN written' = Configs /\ DOMAIN completed' = Configs
        /\ \A d \in Configs : /\ written'[d] = written[d] \/ (d = c /\ written'[d] = "Unknown")
                              /\ completed'[d] \in {completed[d], "Unknown"}
    BY <1>0, <2>1, Zenon
  <2>3. Starts(c, {})
    BY <1>1, <2>1, <2>2, Zenon DEF Starts, Reconcile
  <2> QED
    BY <2>3
<1>2. CASE reconcileIndividual(c) /\ configMaps[c].exists
  <2>1. written' = Refresh(written, {c}) /\ completed' = Refresh(completed, {c})
    BY <1>2 DEF reconcileIndividual
  <2>2. /\ DOMAIN written' = Configs /\ DOMAIN completed' = Configs
        /\ \A d \in Configs : d \in {c} => written'[d] = "False" /\ completed'[d] = "False"
        /\ \A d \in Configs \ {c} : written'[d] = written[d] /\ completed'[d] = completed[d]
    BY <2>1 DEF Refresh
  <2>3. \/ pass' = Idle
        \/ /\ DOMAIN pass' = PassFields /\ pass'.pc = "configs" /\ pass'.config = {c}
           /\ pass'.group = {c} /\ pass'.todo = {c}
           /\ pass'.current = {c} /\ pass'.files = FilesOf[c]
           /\ pass'.data = configMaps[c].data /\ PayloadOK(c)
    BY <1>2, ZenonT(40) DEF reconcileIndividual, Idle, PassFields
  <2>4. Starts(c, {c})
    BY <1>2, <2>2, <2>3, Zenon DEF Starts, Reconcile, reconcileIndividual
  <2> QED
    BY <2>4
<1>3. CASE reconcileWithAggregation(c)
  <2> DEFINE group == jailed \cap Aggregated
  <2>1. written' = Refresh(written, group) /\ completed' = Refresh(completed, group)
    BY <1>3 DEF reconcileWithAggregation
  <2>2. /\ DOMAIN written' = Configs /\ DOMAIN completed' = Configs
        /\ \A d \in Configs : d \in group => written'[d] = "False" /\ completed'[d] = "False"
        /\ \A d \in Configs \ group : written'[d] = written[d] /\ completed'[d] = completed[d]
    BY <2>1 DEF Refresh
  <2>3. /\ DOMAIN pass' = PassFields /\ pass'.pc = "configs" /\ pass'.config = {c}
        /\ pass'.group = group /\ pass'.todo = group
        /\ pass'.current = {} /\ pass'.files = {} /\ pass'.data = [p \in Paths |-> Missing]
    BY <1>3 DEF reconcileWithAggregation, Idle, PassFields
  <2>4. group # {} /\ c \in Aggregated
    BY <1>0, <1>3, ZenonT(40) DEF reconcileWithAggregation
  <2>5. Starts(c, group)
    BY <2>2, <2>3, <2>4 DEF Starts, Reconcile
  <2> QED
    BY <2>5
<1> QED
  BY <1>1, <1>2, <1>3 DEF Reconcile

LEMMA StartShape ==
    ASSUME Shape, NEW c \in Configs, NEW group, Starts(c, group)
    PROVE  ConfigShape' /\ PassShape' /\ PassMarks'
<1>0. /\ jailed \subseteq Configs /\ c \in jailed /\ \A p \in Paths : temp'[p] = Missing
      /\ temp' = temp
  BY DEF Shape, ConfigShape, PassMarks, Starts, fileVars
<1>1. ConfigShape'
  BY DEF Shape, ConfigShape, Starts
<1>2. CASE pass' = Idle
  <2>1. DOMAIN Idle = PassFields /\ Idle.pc = "idle" /\ Idle.group = {} /\ Idle.todo = {}
        /\ Idle.current = {} /\ Idle.files = {}
    BY Zenon DEF Idle, PassFields
  <2>2. PassShape'
    BY <1>2, <2>1 DEF PassShape, Steps
  <2>3. PassMarks'
    BY <1>0, <1>2, <2>1, Zenon DEF PassMarks
  <2> QED
    BY <1>1, <2>2, <2>3
<1>3. CASE pass' # Idle
  <2>1. /\ DOMAIN pass' = PassFields /\ pass'.pc = "configs" /\ pass'.config = {c}
        /\ pass'.group = group /\ pass'.todo = group /\ group # {}
        /\ \/ pass'.current = {} /\ pass'.files = {}
           \/ /\ pass'.current = {c} /\ pass'.files = FilesOf[c] /\ group = {c}
              /\ pass'.data = configMaps[c].data /\ PayloadOK(c)
    BY <1>3, Zenon DEF Starts
  <2>2. \/ c \notin Aggregated /\ group = {c}
        \/ c \in Aggregated /\ group = jailed \cap Aggregated
    BY <2>1, Zenon DEF Starts
  <2>3. jailed' = jailed /\ \A d \in group : written'[d] = "False" /\ completed'[d] = "False"
    BY <1>0, <2>2 DEF Starts
  <2>4. PassShape'
    BY <1>0, <2>1, <2>2, <2>3, Zenon DEF PassShape, Steps
  <2>5. PassMarks'
    BY <1>0, <2>1, <2>3, ZenonT(40) DEF PassMarks, PayloadOK
  <2> QED
    BY <1>1, <2>4, <2>5
<1> QED
  BY <1>2, <1>3, ZenonT(40)

\* The loop over the group.
Loops ==
  /\ DOMAIN pass' = PassFields /\ pass.pc = "configs" /\ pass'.pc = "configs"
  /\ pass'.config = pass.config /\ pass'.group = pass.group
  /\ UNCHANGED <<jailed, configMaps, completed, configQueue>>

LEMMA LoopSteps ==
    ASSUME Shape, NEW c \in Configs
    PROVE  /\ NextConfig(c) =>
                /\ Loops /\ c \in pass.todo /\ pass.current = {}
                /\ configMaps[c].exists /\ PayloadOK(c) /\ UNCHANGED <<written, fileVars>>
                /\ pass'.todo = pass.todo /\ pass'.current = {c} /\ pass'.files = FilesOf[c]
                /\ pass'.data = configMaps[c].data
           /\ ConfigMapMissing(c) =>
                /\ Loops /\ c \in pass.todo /\ pass.current = {} /\ ~configMaps[c].exists
                /\ UNCHANGED fileVars
                /\ DOMAIN written' = Configs /\ written'[c] = "NotFound"
                /\ \A d \in Configs \ {c} : written'[d] = written[d]
                /\ pass'.todo = pass.todo \ {c} /\ pass'.current = {} /\ pass'.files = pass.files
                /\ pass'.data = pass.data
           /\ FilesAreWritten(c) =>
                /\ Loops /\ pass.current = {c} /\ pass.files = {} /\ UNCHANGED fileVars
                /\ DOMAIN written' = Configs /\ written'[c] = "True"
                /\ \A d \in Configs \ {c} : written'[d] = written[d]
                /\ pass'.todo = pass.todo \ {c} /\ pass'.current = {} /\ pass'.files = {}
                /\ pass'.data = pass.data
<1>0. DOMAIN pass = PassFields /\ DOMAIN written = Configs
  BY DEF Shape, PassShape, ConfigShape
<1>1. ASSUME NextConfig(c)
      PROVE  /\ DOMAIN pass' = PassFields /\ pass'.pc = pass.pc
             /\ pass'.config = pass.config /\ pass'.group = pass.group
             /\ pass'.todo = pass.todo /\ pass'.current = {c} /\ pass'.files = FilesOf[c]
             /\ pass'.data = configMaps[c].data
  BY <1>0, <1>1 DEF NextConfig, PassFields
<1>2. ASSUME ConfigMapMissing(c)
      PROVE  /\ DOMAIN pass' = PassFields /\ pass'.pc = pass.pc
             /\ pass'.config = pass.config /\ pass'.group = pass.group
             /\ pass'.todo = pass.todo \ {c} /\ pass'.current = pass.current
             /\ pass'.files = pass.files /\ pass'.data = pass.data
  BY <1>0, <1>2 DEF ConfigMapMissing, PassFields
<1>3. ASSUME FilesAreWritten(c)
      PROVE  /\ DOMAIN pass' = PassFields /\ pass'.pc = pass.pc
             /\ pass'.config = pass.config /\ pass'.group = pass.group
             /\ pass'.todo = pass.todo \ {c} /\ pass'.current = {}
             /\ pass'.files = pass.files /\ pass'.data = pass.data
  BY <1>0, <1>3 DEF FilesAreWritten, PassFields
<1>4. ASSUME NextConfig(c)
      PROVE  Loops /\ c \in pass.todo /\ pass.current = {} /\ configMaps[c].exists
             /\ PayloadOK(c) /\ UNCHANGED <<written, fileVars>>
  BY <1>1, <1>4 DEF NextConfig, Loops
<1>5. ASSUME ConfigMapMissing(c)
      PROVE  /\ Loops /\ c \in pass.todo /\ pass.current = {} /\ ~configMaps[c].exists
             /\ UNCHANGED fileVars
             /\ DOMAIN written' = Configs /\ written'[c] = "NotFound"
             /\ \A d \in Configs \ {c} : written'[d] = written[d]
  BY <1>0, <1>2, <1>5 DEF ConfigMapMissing, Loops
<1>6. ASSUME FilesAreWritten(c)
      PROVE  /\ Loops /\ pass.current = {c} /\ pass.files = {} /\ UNCHANGED fileVars
             /\ DOMAIN written' = Configs /\ written'[c] = "True"
             /\ \A d \in Configs \ {c} : written'[d] = written[d]
  BY <1>0, <1>3, <1>6 DEF FilesAreWritten, Loops
<1> QED
  BY <1>1, <1>2, <1>3, <1>4, <1>5, <1>6, SMTT(30)

\* A file of the config the loop is at is written.
Writes(p, c) ==
  /\ Loops /\ pass.current = {c} /\ p \in FilesOf[c] /\ p \in pass.files
  /\ UNCHANGED written
  /\ pass'.todo = pass.todo /\ pass'.current = pass.current /\ pass'.data = pass.data
  /\ pass'.files = pass.files \ {p}
  /\ file'[p] = pass.data[p] /\ pass.data[p] # Missing /\ temp'[p] = file[p]
  /\ \A q \in Paths \ {p} : /\ file'[q] = file[q] /\ temp'[q] = temp[q]
                            /\ \A n \in Readers : cache'[n][q] = cache[n][q]
  /\ \A n \in Readers : cache'[n][p] = cache[n][p] \/ (file[p] # Missing /\ cache'[n][p] = file[p])

LEMMA WriteFileWrites ==
    ASSUME Shape, NEW p \in Paths, WriteFile(p)
    PROVE  \E c \in Configs : Writes(p, c)
<1>1. PICK c \in pass.current : p \in FilesOf[c]
  BY DEF Shape, PassShape, WriteFile
<1>2. c \in Configs /\ pass.current = {c} /\ pass.data[p] # Missing
  BY <1>1 DEF Shape, PassShape, PassMarks, ConfigShape
<1>3. /\ DOMAIN pass' = PassFields /\ pass'.pc = pass.pc
      /\ pass'.config = pass.config /\ pass'.group = pass.group
      /\ pass'.todo = pass.todo /\ pass'.current = pass.current
      /\ pass'.files = pass.files \ {p} /\ pass'.data = pass.data
  BY DEF WriteFile, Shape, PassShape, PassFields
<1>4. ASSUME RenameExchange(p, pass.data[p], Mounted)
      PROVE  /\ file'[p] = pass.data[p] /\ temp'[p] = file[p]
             /\ \A q \in Paths \ {p} : /\ file'[q] = file[q] /\ temp'[q] = temp[q]
                                       /\ \A n \in Readers : cache'[n][q] = cache[n][q]
             /\ \A n \in Readers : \/ cache'[n][p] = cache[n][p]
                                   \/ file[p] # Missing /\ cache'[n][p] = file[p]
  <2>1. PICK cached :
          cache' = [n \in Readers |-> [q \in Paths |->
                     IF n \in cached /\ q \in {p} THEN file[q] ELSE cache[n][q]]]
    BY <1>4, Zenon DEF RenameExchange, Outdate
  <2>2. \A n \in Readers, q \in Paths : cache'[n][q] = cache[n][q] \/ (q = p /\ cache'[n][q] = file[q])
    BY <2>1
  <2> QED
    BY <1>4, <2>2 DEF RenameExchange, Shape, FilesShape
<1>5. ASSUME RenameNoReplace(p, pass.data[p])
      PROVE  /\ file'[p] = pass.data[p] /\ temp'[p] = file[p]
             /\ \A q \in Paths \ {p} : /\ file'[q] = file[q] /\ temp'[q] = temp[q]
                                       /\ \A n \in Readers : cache'[n][q] = cache[n][q]
             /\ \A n \in Readers : cache'[n][p] = cache[n][p]
  BY <1>5 DEF RenameNoReplace, Shape, FilesShape, PassMarks
<1>6. Writes(p, c)
  BY <1>1, <1>2, <1>3, <1>4, <1>5, SMTT(30) DEF WriteFile, Replace, Writes, Loops
<1> QED
  BY <1>2, <1>6

LEMMA LoopShape ==
    ASSUME Shape, NEW c \in Configs, NextConfig(c) \/ ConfigMapMissing(c) \/ FilesAreWritten(c)
    PROVE  ConfigShape' /\ PassShape' /\ PassMarks'
<1>0. /\ Loops /\ c \in pass.todo /\ pass.todo \subseteq pass.group /\ pass.group \subseteq Configs
      /\ UNCHANGED fileVars
  BY LoopSteps, Zenon DEF Shape, PassShape, ConfigShape
<1>1. ConfigShape'
  BY <1>0, LoopSteps, Zenon DEF Shape, ConfigShape, Loops
<1>2. PassShape'
  <2>1. pass'.todo \subseteq pass'.group /\ jailed' = jailed
    BY <1>0, LoopSteps, Zenon DEF Loops
  <2>2. \A d \in pass'.current : pass'.current = {d} /\ d \in pass'.todo
    BY <1>0, LoopSteps, Zenon
  <2>3. pass.current = {} => pass.files = {}
    BY Zenon DEF Shape, PassShape
  <2>4. \A p \in pass'.files : \E d \in pass'.current : p \in FilesOf[d]
    BY <2>3, LoopSteps, Zenon
  <2> QED
    BY <1>0, <2>1, <2>2, <2>4, Zenon DEF Shape, PassShape, Loops, Steps
<1>3. PassMarks'
  <2>1. \A d \in pass'.group : completed'[d] = "False"
    BY <1>0, ZenonT(40) DEF Shape, PassMarks, Loops
  <2>2. \A d \in pass'.todo : written'[d] = "False"
    BY <1>0, LoopSteps DEF Shape, PassMarks
  <2>3. \A d \in pass'.group \ pass'.todo : written'[d] \in {"True", "NotFound"}
    BY <1>0, LoopSteps, ZenonT(40) DEF Shape, PassMarks, Loops
  <2>4. \A d \in pass'.current : \A p \in FilesOf[d] : pass'.data[p] # Missing
    BY LoopSteps, ZenonT(40) DEF PayloadOK
  <2>5. file' = file /\ temp' = temp /\ pass'.group = pass.group /\ pass'.pc = pass.pc
    BY <1>0, Zenon DEF fileVars, Loops
  <2> QED
    BY <2>1, <2>2, <2>3, <2>4, <2>5 DEF Shape, PassMarks
<1> QED
  BY <1>1, <1>2, <1>3, Zenon

LEMMA WriteShape ==
    ASSUME Shape, NEW c \in Configs, NEW p \in Paths, Writes(p, c)
    PROVE  ConfigShape' /\ PassShape' /\ PassMarks'
<1>1. ConfigShape'
  BY ZenonT(40) DEF Shape, ConfigShape, Writes, Loops
<1>2. PassShape'
  <2>1. /\ DOMAIN pass' = PassFields /\ pass'.pc = "configs" /\ pass.pc = "configs"
        /\ pass'.config = pass.config /\ pass'.group = pass.group /\ pass'.todo = pass.todo
        /\ pass'.current = pass.current /\ pass'.files \subseteq pass.files /\ jailed' = jailed
    BY DEF Writes, Loops
  <2> QED
    BY <2>1 DEF Shape, PassShape, Steps
<1>3. PassMarks'
  <2>1. c \in pass.group
    BY DEF Shape, PassShape, Writes
  <2>2. /\ pass'.group = pass.group /\ pass'.todo = pass.todo /\ pass'.current = pass.current
        /\ pass'.data = pass.data /\ pass.pc = "configs" /\ pass'.pc = "configs"
        /\ written' = written /\ completed' = completed
    BY Zenon DEF Writes, Loops
  <2>3. ASSUME NEW q \in Paths, temp'[q] # Missing
        PROVE  (\E d \in pass.group : q \in FilesOf[d]) /\ file'[q] # Missing
    <3>1. CASE q = p
      BY <2>1, <3>1, Zenon DEF Writes
    <3>2. CASE q # p
      <4>1. file'[q] = file[q] /\ temp'[q] = temp[q]
        BY <3>2 DEF Writes
      <4> QED
        BY <2>3, <4>1, ZenonT(40) DEF Shape, PassMarks
    <3> QED
      BY <3>1, <3>2, Zenon
  <2> QED
    BY <2>2, <2>3, ZenonT(40) DEF Shape, PassMarks
<1> QED
  BY <1>1, <1>2, <1>3, Zenon

LEMMA CompletionEnds ==
    ASSUME Shape, ActionsCompleted
    PROVE  /\ pass' = Idle /\ UNCHANGED <<jailed, configMaps, written, configQueue, fileVars>>
           /\ DOMAIN completed' = Configs
           /\ \A d \in Configs \ pass.group : completed'[d] = completed[d]
           /\ \A d \in pass.group \cap Reconfigures : completed'[d] = "True" =>
                pass.pc = "complete" /\ written[d] = "True"
<1>1. \A d \in pass.group : written[d] \in {"True", "NotFound"}
  BY Zenon DEF Shape, PassShape, PassMarks, ActionsCompleted
<1>2. pass.group \subseteq Configs
  BY DEF Shape, PassShape, ConfigShape
<1> QED
  BY <1>1, <1>2, Zenon DEF ActionsCompleted, needsReconfigure

-----------------------------------------------------------------------------
(* Steps.                                                                  *)

\* Nothing that has happened is forgotten.
LEMMA HappenedGrows ==
    ASSUME [Next]_vars
    PROVE  happened \subseteq happened'
<1>1. CASE ConfigMapsChange \/ WorkerTopologyController
  BY <1>1, ZenonT(40) DEF ConfigMapsChange, WorkerTopologyController, Spend, Free
<1>2. CASE ConfigController \/ FinishWaits \/ Reconfigure \/ ConfigFaults
  BY <1>2 DEF ConfigController, FinishWaits, Reconfigure, ConfigFaults, Spend, Free
<1>3. ASSUME NEW n \in Readers, Slurmd(n) \/ Silence(n) \/ WorkerInit(n)
      PROVE  happened \subseteq happened'
  BY <1>3, Zenon DEF Slurmd, Silence, WorkerInit, Spend, Free
<1>4. CASE Caches \/ Nodes \/ DistributionFaults \/ NodeTopologyController \/ OpenKruise
  BY <1>4 DEF Caches, Nodes, DistributionFaults, NodeTopologyController, OpenKruise,
              Spend, Free
<1>5. CASE Pods \/ WorkerInitFaults \/ UNCHANGED vars
  BY <1>5, Zenon DEF Pods, WorkerInitFaults, Spend, vars
<1> QED
  BY <1>1, <1>2, <1>3, <1>4, <1>5, SMTT(30) DEF Next

\* The topology controllers before topology.conf, and worker_init.py.
LEMMA OtherSteps ==
    ASSUME \/ Nodes \/ DistributionFaults \/ NodeTopologyController \/ OpenKruise
           \/ WorkerInitFaults \/ (\E n \in Readers : WorkerInit(n)) \/ UNCHANGED vars
    PROVE  UNCHANGED <<fileVars, configVars, slurmdVars>>
  BY Zenon DEF Nodes, DistributionFaults, NodeTopologyController, OpenKruise, WorkerInitFaults,
         WorkerInit, vars

LEMMA FilesShapeStep ==
    ASSUME FilesShape, [Next]_vars
    PROVE  FilesShape'
<1>1. CASE UNCHANGED <<file, temp, cache>>
  BY <1>1 DEF FilesShape
<1>2. ASSUME NEW p \in Paths, WriteFile(p) PROVE FilesShape'
  BY <1>2 DEF WriteFile, Replace, RenameExchange, RenameNoReplace, Outdate, FilesShape
<1>3. ASSUME NEW failed, NEW kept, CleanupBut(failed, kept, Mounted) PROVE FilesShape'
  BY <1>3 DEF CleanupBut, FilesShape
<1>4. CASE FinishSyncs
  BY <1>4 DEF FinishSyncs, SyncCaches, FilesShape
<1>5. ASSUME NEW kept, RemoveTempFiles(kept) PROVE FilesShape'
  BY <1>5 DEF RemoveTempFiles, FilesShape
<1>6. CASE ControllerRestarts
  BY <1>6 DEF ControllerRestarts, AbandonBatch, FilesShape
<1>7. CASE Caches
  BY <1>7 DEF Caches, EntryExpires, FilesShape
<1>8. CASE ConfigController
  <2>1. CASE \E c \in Configs : \/ Reconcile(c) \/ NextConfig(c) \/ ConfigMapMissing(c)
                                \/ FilesAreWritten(c)
    BY <1>1, <2>1 DEF Reconcile, NextConfig, ConfigMapMissing, FilesAreWritten, fileVars
  <2>2. CASE FinishStarts \/ ActionsCompleted
    BY <1>1, <2>2 DEF FinishStarts, ActionsCompleted, fileVars
  <2>3. CASE (\E c \in Configs : PayloadInvalid(c)) \/ FinishRemoves
    BY <1>3, <1>5, <2>3, ZenonT(40) DEF PayloadInvalid, Cleanup, FinishRemoves
  <2> QED
    BY <1>2, <1>8, <2>1, <2>2, <2>3, ZenonT(40) DEF ConfigController
<1>9. CASE ConfigFaults
  <2>1. CASE ReconfigureAnswerLost \/ PollTimesOut \/ PollFails
    BY <1>1, <2>1, ZenonT(40) DEF ReconfigureAnswerLost, PollTimesOut, PollFails, fileVars
  <2>2. CASE CallFails
    BY <1>1, <1>3, <2>2 DEF CallFails, Cleanup, CleanupPartlyFails, ReplaceFails
  <2>3. CASE FinishRemoveFails
    BY <1>5, <2>3 DEF FinishRemoveFails
  <2> QED
    BY <1>6, <1>9, <2>1, <2>2, <2>3 DEF ConfigFaults
<1>10. CASE Reconfigure
  BY <1>1, <1>10, ZenonT(40) DEF Reconfigure, ReadStartTimes, RequestReconfigure, pollSlurmNodesRestart,
                     fileVars
<1>11. CASE ConfigMapsChange \/ WorkerTopologyController \/ Pods
            \/ (\E n \in Readers : Slurmd(n) \/ Silence(n))
  BY <1>1, <1>11 DEF ConfigMapsChange, WorkerTopologyController, Pods, Slurmd, Silence,
                     fileVars
<1> QED
  BY <1>1, <1>4, <1>7, <1>8, <1>9, <1>10, <1>11, OtherSteps, SMTT(30) DEF Next, FinishWaits, fileVars

-----------------------------------------------------------------------------
(* The writers of ConfigMaps.                                              *)

\* A rendered topology consists of pairs, and lists the nodes.
LEMMA RenderedTopology ==
    ASSUME Readers # {}, NEW plug, NEW labels, NEW podsByNode
    PROVE  /\ buildNodeSetTopologyConfig(plug, labels, podsByNode) # Missing
           /\ buildNodeSetTopologyConfig(plug, labels, podsByNode) # Gone
<1> DEFINE blocks == BuildTopologyBlocks(labels, podsByNode, Readers, Fabrics)
           edges == BuildTopologyGraph(labels, podsByNode, Readers, Fabrics)
<1>1. PICK w : w \in Readers
  OBVIOUS
<1>2. \E b \in blocks : TRUE
  <2> DEFINE used == {k \in DOMAIN labels : podsByNode[k] # {} /\ 0 \in DOMAIN labels[k]}
             placed == UNION {podsByNode[k] : k \in used}
             unknown == <<unknownSwitchName(fabricOf(Fabrics, w)), w>>
  <2>1. CASE w \notin placed
    <3>1. unknown \in {<<unknownSwitchName(fabricOf(Fabrics, v)), v>> : v \in Readers \ placed}
      BY <1>1, <2>1
    <3>2. unknown \in blocks
      BY <3>1 DEF BuildTopologyBlocks
    <3> QED
      BY <3>2
  <2>2. CASE w \in placed
    <3>1. PICK k \in used : w \in podsByNode[k]
      BY <2>2
    <3>2. <<labels[k][0], w>> \in {labels[k][0]} \X podsByNode[k]
      BY <3>1
    <3> DEFINE all == {{labels[j][0]} \X podsByNode[j] : j \in used}
    <3>3. {labels[k][0]} \X podsByNode[k] \in all
      BY <3>1
    <3>4. UNION all \subseteq blocks
      BY DEF BuildTopologyBlocks
    <3> HIDE DEF all, blocks
    <3> QED
      BY <3>2, <3>3, <3>4
  <2> QED
    BY <2>1, <2>2
<1>3. \E e \in edges : TRUE
  <2> DEFINE used == {k \in DOMAIN labels : podsByNode[k] # {} /\ HasPath(labels[k])}
             path == [k \in used |-> labelsToPath(labels[k])]
             placed == UNION {podsByNode[k] : k \in used}
             unplaced == {v \in Readers : v \notin placed}
             lower == (UNION {PathEdges(path[k], podsByNode[k]) : k \in used})
                      \cup {<<unknownSwitchName(fabricOf(Fabrics, v)), v>> : v \in unplaced}
  <2>1. \E e \in lower : TRUE
    <3>1. CASE w \notin placed
      <4>1. w \in unplaced
        BY <1>1, <3>1, SMTT(30)
      <4> HIDE DEF unplaced
      <4>2. <<unknownSwitchName(fabricOf(Fabrics, w)), w>> \in lower
        BY <4>1
      <4> QED
        BY <4>2, ZenonT(40)
    <3>2. CASE w \in placed
      <4>1. PICK k \in used : w \in podsByNode[k]
        BY <3>2, ZenonT(40)
      <4>2. <<path[k][1], w>> \in PathEdges(path[k], podsByNode[k])
        BY <4>1 DEF PathEdges
      <4> QED
        BY <4>1, <4>2, Zenon
    <3> QED
      BY <3>1, <3>2, Zenon
  <2>2. lower \subseteq edges
    BY Zenon DEF BuildTopologyGraph, attachFabricRoots
  <2> QED
    BY <2>1, <2>2, Zenon
<1> HIDE DEF blocks, edges
<1>4. ASSUME NEW a, NEW b PROVE <<a, b>> # <<"gone", "gone", "gone">>
  BY Len(<<a, b>>) = 2, Len(<<"gone", "gone", "gone">>) = 3
<1>5. RenderBlockLines(blocks) \notin {Missing, Gone}
  BY <1>2, <1>4, Zenon DEF RenderBlockLines, Missing, Gone
<1>6. RenderGraphLines(edges) \notin {Missing, Gone}
  BY <1>3, <1>4, Zenon DEF RenderGraphLines, Missing, Gone
<1> QED
  BY <1>5, <1>6 DEF buildNodeSetTopologyConfig, blocks, edges

\* What a writer of ConfigMaps does: it writes one of them, and its config gets
\* into the queue.
MapChanges(c) ==
  /\ jailed' = jailed \cup {c} /\ configQueue' = configQueue \cup {c}
  /\ DOMAIN configMaps' = Configs
  /\ \A d \in Configs \ {c} : configMaps'[d] = configMaps[d]
  /\ DOMAIN configMaps'[c] = {"exists", "data"} /\ DOMAIN configMaps'[c].data = Paths
  /\ \A p \in Paths : configMaps'[c].data[p] \in {configMaps[c].data[p], Missing}
                      \/ configMaps'[c].data[p] # Gone
  /\ Renderable /\ "bad" \notin happened' => Renderable'

LEMMA ContentsArePairs ==
    ASSUME NEW c \in Configs, NEW v
    PROVE  /\ DOMAIN Contents(c, v) = Paths
           /\ \A p \in Paths : Contents(c, v)[p] # Gone
           /\ \A p \in FilesOf[c] : Contents(c, v)[p] # Missing
<1>1. ASSUME NEW a, NEW b PROVE <<a, b>> # <<"gone", "gone", "gone">>
  BY Len(<<a, b>>) = 2, Len(<<"gone", "gone", "gone">>) = 3
<1>2. \A p \in Paths : {<<p, v>>} # Gone /\ Missing # Gone
  BY <1>1, Zenon DEF Gone, Missing
<1>3. FilesOf[c] \subseteq Paths
  BY ConfigsAssumption, ZenonT(40)
<1> QED
  BY <1>2, <1>3, Zenon DEF Contents, Missing

LEMMA MapWriters ==
    ASSUME Readers # {}, ConfigShape, ConfigMapsChange \/ WorkerTopologyController
    PROVE  \E c \in Configs : MapChanges(c)
<1>0. \A c \in Configs : FilesOf[c] \subseteq Paths
  BY ConfigsAssumption
<1>1. ASSUME NEW c \in Configs, c # "topology", c \notin jailed, CreateJailedConfig(c),
             configMaps' = [configMaps EXCEPT ![c].exists = TRUE]
      PROVE  MapChanges(c)
  <2>1. /\ DOMAIN configMaps' = Configs
        /\ \A d \in Configs \ {c} : configMaps'[d] = configMaps[d]
        /\ configMaps'[c] = [configMaps[c] EXCEPT !.exists = TRUE]
    BY <1>1 DEF ConfigShape
  <2>2. /\ DOMAIN configMaps'[c] = {"exists", "data"}
        /\ configMaps'[c].data = configMaps[c].data
    BY <2>1 DEF ConfigShape
  <2>3. Renderable => Renderable'
    BY <1>1, <2>1, <2>2, SMTT(30) DEF Renderable, PayloadOK
  <2> QED
    BY <1>1, <2>1, <2>2, <2>3 DEF MapChanges, CreateJailedConfig, ConfigShape
<1>2. ASSUME NEW c \in jailed, NEW data, WriteConfigMap(c, data), UNCHANGED jailed,
             DOMAIN data = Paths,
             \A p \in Paths : data[p] \in {configMaps[c].data[p], Missing} \/ data[p] # Gone,
             "bad" \in happened' \/ \A p \in FilesOf[c] : data[p] # Missing
      PROVE  MapChanges(c)
  <2>0. c \in Configs
    BY ZenonT(40) DEF ConfigShape
  <2>1. /\ DOMAIN configMaps' = Configs
        /\ \A d \in Configs \ {c} : configMaps'[d] = configMaps[d]
        /\ configMaps'[c] = [exists |-> TRUE, data |-> data]
    BY <1>2, <2>0, SMTT(30) DEF ConfigShape, WriteConfigMap
  <2>2. Renderable /\ "bad" \notin happened' => Renderable'
    BY <1>2, <2>1 DEF Renderable, PayloadOK
  <2> QED
    BY <1>2, <2>1, <2>2 DEF MapChanges, WriteConfigMap
<1>3. ASSUME NEW c \in jailed, DeleteConfigMap(c), UNCHANGED jailed
      PROVE  MapChanges(c)
  <2>0. c \in Configs
    BY DEF ConfigShape
  <2>1. /\ DOMAIN configMaps' = Configs
        /\ \A d \in Configs \ {c} : configMaps'[d] = configMaps[d]
        /\ configMaps'[c] = [configMaps[c] EXCEPT !.exists = FALSE]
    BY <1>3, <2>0 DEF ConfigShape, DeleteConfigMap
  <2>2. /\ DOMAIN configMaps'[c] = {"exists", "data"}
        /\ configMaps'[c].data = configMaps[c].data /\ ~configMaps'[c].exists
    BY <2>0, <2>1 DEF ConfigShape
  <2>3. Renderable => Renderable'
    BY <2>0, <2>1, <2>2 DEF Renderable, PayloadOK
  <2> QED
    BY <1>3, <2>0, <2>1, <2>2, <2>3, SMTT(30) DEF MapChanges, DeleteConfigMap, ConfigShape
<1>4. CASE ConfigMapsChange
  <2>1. PICK c \in Configs \ {"topology"} :
          \/ /\ c \notin jailed /\ CreateJailedConfig(c)
             /\ configMaps' = [configMaps EXCEPT ![c].exists = TRUE]
          \/ \E v \in Versions : /\ c \in jailed /\ UNCHANGED jailed
                                 /\ WriteConfigMap(c, Contents(c, v))
          \/ \E p \in FilesOf[c] :
               /\ c \in jailed /\ Spend("bad") /\ UNCHANGED jailed
               /\ WriteConfigMap(c, [configMaps[c].data EXCEPT ![p] = Missing])
          \/ c \in jailed /\ DeleteConfigMap(c) /\ UNCHANGED jailed
    BY <1>4, ZenonT(40) DEF ConfigMapsChange
  <2>2. ASSUME NEW v \in Versions, c \in jailed, UNCHANGED jailed,
               WriteConfigMap(c, Contents(c, v))
        PROVE  MapChanges(c)
    BY <1>2, <2>2, ContentsArePairs
  <2>3. ASSUME NEW p \in FilesOf[c], c \in jailed, Spend("bad"), UNCHANGED jailed,
               WriteConfigMap(c, [configMaps[c].data EXCEPT ![p] = Missing])
        PROVE  MapChanges(c)
    <3> DEFINE data == [configMaps[c].data EXCEPT ![p] = Missing]
    <3>1. DOMAIN data = Paths /\ \A q \in Paths : data[q] \in {configMaps[c].data[q], Missing}
      BY DEF ConfigShape
    <3>2. "bad" \in happened'
      BY <2>3 DEF Spend
    <3> HIDE DEF data
    <3>3. WriteConfigMap(c, data)
      BY <2>3, Zenon DEF data
    <3> QED
      BY <1>2, <2>3, <3>1, <3>2, <3>3, ZenonT(40)
  <2> QED
    BY <1>1, <1>3, <2>1, <2>2, <2>3, Zenon
<1>5. CASE EnsureWorkerTopologyConfigMap
  <2>0. "topology" \in Configs /\ FilesOf["topology"] = {TopologyPath} /\ TopologyPath \in Paths
    BY TopologyAssumption
  <2>1. \/ configMaps["topology"].exists /\ configMaps' = configMaps
        \/ configMaps' = [configMaps EXCEPT !["topology"] =
                            [exists |-> TRUE, data |-> Rendered(DefaultTopology)]]
    BY <1>5 DEF EnsureWorkerTopologyConfigMap
  <2>2. /\ DOMAIN configMaps' = Configs
        /\ \A d \in Configs \ {"topology"} : configMaps'[d] = configMaps[d]
        /\ \/ configMaps'["topology"] = configMaps["topology"] /\ configMaps["topology"].exists
           \/ configMaps'["topology"] = [exists |-> TRUE, data |-> Rendered(DefaultTopology)]
    BY <2>0, <2>1, Zenon DEF ConfigShape
  <2>3. /\ DOMAIN Rendered(DefaultTopology) = Paths
        /\ Rendered(DefaultTopology)[TopologyPath] # Missing
        /\ \A p \in Paths : Rendered(DefaultTopology)[p] # Gone
    <3>1. <<"root", "">> # <<"gone", "gone", "gone">>
      BY Len(<<"root", "">>) = 2, Len(<<"gone", "gone", "gone">>) = 3, ZenonT(40)
    <3> QED
      BY <2>0, <3>1, Zenon DEF Rendered, DefaultTopology, Missing, Gone
  <2>4. Renderable => Renderable'
    BY <2>0, <2>2, <2>3, SMTT(30) DEF Renderable, PayloadOK
  <2> QED
    BY <1>5, <2>0, <2>2, <2>3, <2>4, ZenonT(40) DEF MapChanges, EnsureWorkerTopologyConfigMap, ConfigShape
<1>6. CASE ReconcileTopology
  <2>0. "topology" \in Configs /\ FilesOf["topology"] = {TopologyPath} /\ TopologyPath \in Paths
    BY TopologyAssumption
  <2>1. DesiredTopology # Missing /\ DesiredTopology # Gone
    BY RenderedTopology DEF DesiredTopology
  <2>2. /\ DOMAIN Rendered(DesiredTopology) = Paths
        /\ Rendered(DesiredTopology)[TopologyPath] # Missing
        /\ \A p \in Paths : Rendered(DesiredTopology)[p] # Gone
    BY <2>0, <2>1, Zenon DEF Rendered, Missing, Gone
  <2> QED
    BY <1>2, <1>6, <2>0, <2>2, SMTT(30) DEF ReconcileTopology
<1> QED
  BY <1>4, <1>5, <1>6, TopologyAssumption, SMTT(30) DEF WorkerTopologyController, ConfigShape

-----------------------------------------------------------------------------
(* The daemons.                                                            *)

Reading == {"starting", "reloading"}

\* What a step of slurmd, or of its pod, does.
ReaderStep(n) ==
  /\ \A m \in Readers \ {n} : slurmd'[m] = slurmd[m]
  /\ \/ slurmd'[n].phase \in {"absent", "down"} /\ restarted' = restarted
     \/ slurmd'[n].phase = "silent" /\ "silent" \in happened' /\ restarted' = restarted
     \/ slurmd[n].phase = "silent" /\ restarted' = restarted
     \/ slurmd'[n].phase \in Reading /\ slurmd'[n].toRead = SlurmdFiles /\ restarted' = restarted
     \/ /\ slurmd[n].phase \in Reading /\ slurmd'[n].phase \in Reading
        /\ \E p \in SlurmdFiles :
             /\ slurmd'[n].toRead = slurmd[n].toRead \ {p}
             /\ \A q \in SlurmdFiles : slurmd'[n].loaded[q] =
                  IF q = p THEN Opens(n, p) ELSE slurmd[n].loaded[q]
             /\ Opens(n, p) # Missing
        /\ restarted' = restarted
     \/ /\ slurmd[n].phase \in Reading /\ slurmd'[n].phase = "up" /\ slurmd[n].toRead = {}
        /\ slurmd'[n].loaded = slurmd[n].loaded
        /\ restarted' = restarted \cup {n}

ReaderShape(n) ==
  /\ DOMAIN slurmd' = Readers
  /\ DOMAIN slurmd'[n] = {"phase", "toRead", "loaded", "reload"}
  /\ DOMAIN slurmd'[n].loaded = SlurmdFiles
  /\ slurmd'[n].toRead \subseteq SlurmdFiles

LEMMA SlurmdSteps ==
    ASSUME SlurmdShape, NEW n \in Readers, Slurmd(n) \/ Silence(n)
    PROVE  ReaderStep(n) /\ ReaderShape(n) /\ UNCHANGED <<fileVars, configVars>>
<1>0. UNCHANGED <<fileVars, configVars>>
  BY DEF Slurmd, Silence
<1>1. ASSUME NEW phase, NEW toRead \in SUBSET SlurmdFiles,
             slurmd' = [slurmd EXCEPT ![n].phase = phase, ![n].toRead = toRead, ![n].reload = FALSE]
      PROVE  /\ ReaderShape(n) /\ \A m \in Readers \ {n} : slurmd'[m] = slurmd[m]
             /\ slurmd'[n].phase = phase /\ slurmd'[n].toRead = toRead
             /\ slurmd'[n].loaded = slurmd[n].loaded
  BY <1>1 DEF SlurmdShape, ReaderShape
<1>2. CASE SlurmdStarts(n) \/ SlurmdReloads(n)
  BY <1>0, <1>1, <1>2, ZenonT(40) DEF SlurmdStarts, SlurmdReloads, ReaderStep, Reading
<1>3. ASSUME NEW phase, slurmd' = [slurmd EXCEPT ![n].phase = phase]
      PROVE  /\ ReaderShape(n) /\ \A m \in Readers \ {n} : slurmd'[m] = slurmd[m]
             /\ slurmd'[n].phase = phase /\ slurmd'[n].toRead = slurmd[n].toRead
             /\ slurmd'[n].loaded = slurmd[n].loaded
  BY <1>3 DEF SlurmdShape, ReaderShape
<1>4. CASE SlurmdRegisters(n) \/ SlurmdAnswers(n)
  BY <1>0, <1>3, <1>4 DEF SlurmdRegisters, SlurmdAnswers, ReaderStep, Reading
<1>5. CASE Silence(n)
  <2>1. slurmd' = [slurmd EXCEPT ![n].phase = "silent", ![n].reload = FALSE]
        /\ UNCHANGED restarted /\ "silent" \in happened'
    BY <1>5 DEF Silence, SlurmdIsSilent, Spend
  <2>2. /\ ReaderShape(n) /\ \A m \in Readers \ {n} : slurmd'[m] = slurmd[m]
        /\ slurmd'[n].phase = "silent"
    BY <2>1 DEF SlurmdShape, ReaderShape
  <2> QED
    BY <1>0, <2>1, <2>2, Zenon DEF ReaderStep
<1>6. ASSUME NEW p \in Paths, SlurmdReads(n, p)
      PROVE  ReaderStep(n) /\ ReaderShape(n)
  <2>0. /\ slurmd[n].phase \in Reading /\ p \in slurmd[n].toRead /\ p \in SlurmdFiles
        /\ UNCHANGED restarted
    BY <1>6, ZenonT(40) DEF SlurmdReads, Reading, SlurmdShape
  <2>1. CASE Opens(n, p) \in {Missing, Gone}
    <3>1. slurmd' = [slurmd EXCEPT ![n].phase = "down", ![n].toRead = {},
                                   ![n].loaded = NothingLoaded]
      BY <1>6, <2>1 DEF SlurmdReads
    <3>2. /\ ReaderShape(n) /\ \A m \in Readers \ {n} : slurmd'[m] = slurmd[m]
          /\ slurmd'[n].phase = "down"
      BY <3>1, ZenonT(40) DEF SlurmdShape, ReaderShape, NothingLoaded
    <3> QED
      BY <2>0, <3>2 DEF ReaderStep
  <2>2. CASE Opens(n, p) \notin {Missing, Gone}
    <3>1. PICK opened : opened = Opens(n, p)
      OBVIOUS
    <3>2. slurmd' = [slurmd EXCEPT ![n].toRead = @ \ {p}, ![n].loaded[p] = opened]
      BY <1>6, <2>2, <3>1 DEF SlurmdReads
    <3>3. /\ DOMAIN slurmd' = Readers /\ \A m \in Readers \ {n} : slurmd'[m] = slurmd[m]
          /\ DOMAIN slurmd'[n] = {"phase", "toRead", "loaded", "reload"}
          /\ slurmd'[n].phase = slurmd[n].phase
          /\ slurmd'[n].toRead = slurmd[n].toRead \ {p}
          /\ slurmd'[n].loaded = [slurmd[n].loaded EXCEPT ![p] = opened]
      BY <3>2, ZenonT(40) DEF SlurmdShape
    <3>4. /\ DOMAIN slurmd'[n].loaded = SlurmdFiles
          /\ \A q \in SlurmdFiles : slurmd'[n].loaded[q] =
               IF q = p THEN Opens(n, p) ELSE slurmd[n].loaded[q]
      BY <2>0, <3>1, <3>3 DEF SlurmdShape
    <3> QED
      BY <2>0, <2>2, <3>1, <3>3, <3>4, SMTT(30) DEF ReaderStep, ReaderShape, SlurmdShape
  <2> QED
    BY <2>1, <2>2
<1> QED
  BY <1>0, <1>2, <1>4, <1>5, <1>6, ZenonT(40) DEF Slurmd

LEMMA PodSteps ==
    ASSUME SlurmdShape, Pods
    PROVE  /\ \E n \in Readers : ReaderStep(n) /\ ReaderShape(n)
           /\ UNCHANGED <<fileVars, configVars>>
<1>1. PICK n \in Readers :
        \/ slurmd' = [slurmd EXCEPT ![n].phase = "down"]
        \/ slurmd' = [slurmd EXCEPT ![n] = [phase |-> "absent", toRead |-> {},
                                            loaded |-> NothingLoaded, reload |-> FALSE]]
  BY DEF Pods
<1>2. /\ ReaderShape(n) /\ \A m \in Readers \ {n} : slurmd'[m] = slurmd[m]
      /\ slurmd'[n].phase \in {"absent", "down"}
  BY <1>1 DEF SlurmdShape, ReaderShape, NothingLoaded
<1> QED
  BY <1>2 DEF Pods, ReaderStep

\* The request to reconfigure changes nothing but what the daemons will do.
LEMMA ReloadRequested ==
    ASSUME SlurmdShape,
           slurmd' = [n \in Readers |-> [slurmd[n] EXCEPT !.reload = @ \/ n \in Responding]]
    PROVE  /\ SlurmdShape'
           /\ \A n \in Readers : /\ slurmd'[n].phase = slurmd[n].phase
                                 /\ slurmd'[n].toRead = slurmd[n].toRead
                                 /\ slurmd'[n].loaded = slurmd[n].loaded
  BY DEF SlurmdShape, SlurmdFiles

LEMMA SlurmdShapeStep ==
    ASSUME SlurmdShape, [Next]_vars
    PROVE  SlurmdShape'
<1>1. ASSUME NEW n \in Readers, ReaderStep(n), ReaderShape(n)
      PROVE  SlurmdShape'
  BY <1>1, ZenonT(40) DEF SlurmdShape, ReaderStep, ReaderShape, SlurmdFiles
<1>2. CASE UNCHANGED slurmd
  BY <1>2 DEF SlurmdShape, SlurmdFiles
<1>3. CASE Pods \/ \E n \in Readers : Slurmd(n) \/ Silence(n)
  BY <1>1, <1>3, SlurmdSteps, PodSteps, SMTT(30)
<1>4. CASE Reconfigure \/ ConfigFaults
  BY <1>2, <1>4, ReloadRequested, ZenonT(40)
     DEF Reconfigure, ReadStartTimes, RequestReconfigure, pollSlurmNodesRestart, ConfigFaults,
         ReconfigureAnswerLost, PollTimesOut, PollFails, slurmdVars
<1>5. CASE ConfigMapsChange \/ ConfigController \/ FinishWaits \/ WorkerTopologyController
           \/ Caches
  BY <1>2, <1>5, ZenonT(40) DEF ConfigMapsChange, ConfigController, FinishWaits, WorkerTopologyController,
                    Caches, slurmdVars
<1> QED
  BY <1>2, <1>3, <1>4, <1>5, OtherSteps, ZenonT(40) DEF Next, slurmdVars

-----------------------------------------------------------------------------
(* How a pass ends, and how it goes on after it has written the files.     *)

\* The pass ends without having completed: what it replaced is put back, or
\* stays, and nothing else changes.
Aborts ==
  /\ pass' = Idle /\ UNCHANGED <<jailed, configMaps, written, completed>>
  /\ configQueue \subseteq configQueue' /\ configQueue' \subseteq jailed
  /\ \A p \in Paths :
       /\ temp'[p] = Missing
       /\ file'[p] \in {file[p], temp[p]} /\ (file'[p] = Missing => temp[p] = Missing)
       /\ temp[p] = Missing => /\ file'[p] = file[p]
                               /\ \A n \in Readers : cache'[n][p] = cache[n][p]
  /\ \A n \in Readers : /\ slurmd'[n].phase = slurmd[n].phase
                        /\ slurmd'[n].toRead = slurmd[n].toRead
                        /\ slurmd'[n].loaded = slurmd[n].loaded

LEMMA CleanupAborts ==
    ASSUME Shape, NEW failed, NEW kept, NEW readers, CleanupBut(failed, kept, readers)
    PROVE  \A p \in Paths :
             /\ temp'[p] = Missing
             /\ file'[p] \in {file[p], temp[p]} /\ (file'[p] = Missing => temp[p] = Missing)
             /\ temp[p] = Missing => /\ file'[p] = file[p]
                                     /\ \A n \in Readers : cache'[n][p] = cache[n][p]
<1>1. PICK cached :
        cache' = [n \in Readers |-> [p \in Paths |->
                   IF p \notin Pending \ failed THEN cache[n][p]
                   ELSE IF n \notin cached THEN Missing
                   ELSE IF p \in kept THEN file[p] ELSE Gone]]
  BY Zenon DEF CleanupBut
<1>2. \A p \in Paths : temp[p] = Missing => \A n \in Readers : cache'[n][p] = cache[n][p]
  BY <1>1, Zenon DEF Pending
<1> QED
  BY <1>2 DEF CleanupBut, Shape, PassMarks, Pending

LEMMA FaultsAbort ==
    ASSUME Shape, ConfigFaults
    PROVE  \/ PollFails /\ "poll" \in happened'
           \/ Aborts /\ pass.config \subseteq configQueue'
<1>0. pass.config \subseteq jailed /\ configQueue \subseteq jailed
  BY DEF Shape, PassShape, ConfigShape, Idle
<1>1. CASE PollFails /\ Spend("poll")
  BY <1>1, ZenonT(40) DEF Spend
<1>2. ASSUME UNCHANGED fileVars, pass.pc \notin {"configs", "sync", "remove"},
             PassFails(TRUE), UNCHANGED <<jailed, configMaps, written, completed>>,
             \A n \in Readers : /\ slurmd'[n].phase = slurmd[n].phase
                                /\ slurmd'[n].toRead = slurmd[n].toRead
                                /\ slurmd'[n].loaded = slurmd[n].loaded
      PROVE  Aborts /\ pass.config \subseteq configQueue'
  BY <1>0, <1>2, ZenonT(40) DEF Aborts, PassFails, fileVars, Shape, PassMarks
<1>3. CASE ReconfigureAnswerLost
  BY <1>2, <1>3, ReloadRequested DEF ReconfigureAnswerLost, Shape
<1>4. CASE PollTimesOut
  BY <1>2, <1>4, ZenonT(40) DEF PollTimesOut, slurmdVars
<1>5. CASE CallFails /\ UNCHANGED slurmdVars
  <2>1. /\ pass' = Idle /\ configQueue' = configQueue \cup pass.config
        /\ UNCHANGED <<jailed, configMaps, written, completed, slurmd>>
    BY <1>5, Zenon DEF CallFails, PassFails, slurmdVars
  <2>2. CASE \E failed, kept : CleanupBut(failed, kept, Mounted)
    BY <1>0, <2>1, <2>2, CleanupAborts, Zenon DEF Aborts
  <2>3. CASE Pending = {} /\ UNCHANGED <<file, temp, cache>>
    BY <1>0, <2>1, <2>3, ZenonT(40) DEF Aborts, Pending
  <2> QED
    BY <1>5, <2>2, <2>3 DEF CallFails, Cleanup, CleanupPartlyFails, ReplaceFails
<1>6. CASE FinishRemoveFails /\ UNCHANGED slurmdVars
  <2>1. PICK kept : RemoveTempFiles(kept)
    BY <1>6 DEF FinishRemoveFails
  <2>2. \A p \in Paths : /\ temp'[p] = Missing /\ file'[p] = file[p]
                         /\ temp[p] = Missing =>
                              \A n \in Readers : cache'[n][p] = cache[n][p]
    BY <2>1, Zenon DEF RemoveTempFiles, Pending
  <2> QED
    BY <1>0, <1>6, <2>2, SMTT(30) DEF FinishRemoveFails, PassFails, Aborts, slurmdVars, Shape, PassMarks
<1>7. CASE ControllerRestarts /\ UNCHANGED slurmdVars
  BY <1>0, <1>7, ZenonT(40) DEF ControllerRestarts, AbandonBatch, Aborts, slurmdVars, Shape, PassMarks
<1> QED
  BY <1>1, <1>3, <1>4, <1>5, <1>6, <1>7, ZenonT(40) DEF ConfigFaults

LEMMA InvalidAborts ==
    ASSUME Shape, NEW c \in Configs, PayloadInvalid(c), UNCHANGED slurmdVars
    PROVE  Aborts
<1>1. configQueue \subseteq jailed
  BY ZenonT(40) DEF Shape, ConfigShape
<1> QED
  BY <1>1, CleanupAborts, Zenon DEF PayloadInvalid, PassFails, Cleanup, Aborts, slurmdVars

\* The steps of a pass that leave the conditions and the ConfigMaps alone and
\* only go on to the next step.
GoesOn(pc, waiting) ==
  /\ pass' = [pass EXCEPT !.pc = pc, !.waiting = waiting]
  /\ UNCHANGED <<jailed, configMaps, written, completed, configQueue, file>>

LEMMA PassGoesOn ==
    ASSUME Shape, NEW pc \in {"sync", "remove", "times", "request", "poll", "complete"},
           NEW waiting, GoesOn(pc, waiting), pass.pc # "idle", pass.todo = {},
           DOMAIN temp' = Paths,
           \/ temp' = temp /\ (pc \in {"sync", "remove"} \/ \A p \in Paths : temp[p] = Missing)
           \/ \A p \in Paths : temp'[p] = Missing
    PROVE  ConfigShape' /\ PassShape' /\ PassMarks'
<1>1. /\ DOMAIN pass' = PassFields /\ pass'.pc = pc /\ pass'.config = pass.config
      /\ pass'.group = pass.group /\ pass'.todo = pass.todo /\ pass'.current = pass.current
      /\ pass'.files = pass.files /\ pass'.data = pass.data
  BY DEF GoesOn, Shape, PassShape, PassFields
<1>2. ConfigShape'
  BY DEF Shape, ConfigShape, GoesOn
<1>3. PassShape'
  BY <1>1 DEF Shape, PassShape, GoesOn, Steps
<1>4. PassMarks'
  BY <1>1 DEF Shape, PassMarks, GoesOn
<1> QED
  BY <1>2, <1>3, <1>4, SMTT(30)

LEMMA FinishGoesOn ==
    ASSUME Shape, FinishStarts \/ FinishSyncs \/ FinishRemoves
    PROVE  ConfigShape' /\ PassShape' /\ PassMarks'
<1>0. /\ pass.pc # "configs" => pass.todo = {}
      /\ DOMAIN temp = Paths
      /\ \A pc : [pass EXCEPT !.pc = pc] = [pass EXCEPT !.pc = pc, !.waiting = pass.waiting]
  BY Zenon DEF Shape, PassShape, FilesShape, PassFields
<1>1. CASE FinishStarts
  <2>1. PICK pc : pc = IF Pending = {} THEN "times" ELSE "sync"
    OBVIOUS
  <2>2. GoesOn(pc, pass.waiting) /\ pass.pc # "idle" /\ pass.todo = {} /\ temp' = temp
    BY <1>0, <1>1, <2>1, Zenon DEF FinishStarts, GoesOn, fileVars
  <2>3. pc = "sync" \/ (pc = "times" /\ \A p \in Paths : temp[p] = Missing)
    BY <2>1 DEF Pending
  <2> QED
    BY <1>0, <2>2, <2>3, PassGoesOn, ZenonT(40)
<1>2. CASE FinishSyncs
  <2>1. GoesOn("remove", pass.waiting) /\ pass.pc # "idle" /\ pass.todo = {} /\ temp' = temp
    BY <1>0, <1>2, ZenonT(40) DEF FinishSyncs, GoesOn, SyncCaches
  <2> QED
    BY <1>0, <2>1, PassGoesOn, ZenonT(40)
<1>3. CASE FinishRemoves
  <2>1. GoesOn("times", pass.waiting) /\ pass.pc # "idle" /\ pass.todo = {}
    BY <1>0, <1>3, Zenon DEF FinishRemoves, GoesOn, RemoveTempFiles
  <2>2. DOMAIN temp' = Paths /\ \A p \in Paths : temp'[p] = Missing
    BY <1>3 DEF FinishRemoves, RemoveTempFiles
  <2> QED
    BY <2>1, <2>2, PassGoesOn
<1> QED
  BY <1>1, <1>2, <1>3, ZenonT(40)

LEMMA ReconfigureGoesOn ==
    ASSUME Shape, Reconfigure \/ PollFails
    PROVE  ConfigShape' /\ PassShape' /\ PassMarks'
<1>0. /\ pass.pc # "configs" => pass.todo = {}
      /\ pass.pc \in {"times", "request", "poll"} => \A p \in Paths : temp[p] = Missing
      /\ DOMAIN temp = Paths
      /\ \A pc : [pass EXCEPT !.pc = pc] = [pass EXCEPT !.pc = pc, !.waiting = pass.waiting]
  BY Zenon DEF Shape, PassShape, PassMarks, FilesShape, PassFields
<1>1. CASE ReadStartTimes
  <2>1. GoesOn("request", Responding) /\ pass.pc = "times" /\ temp' = temp
    BY <1>1 DEF ReadStartTimes, GoesOn, fileVars
  <2> QED
    BY <1>0, <2>1, PassGoesOn, Zenon
<1>2. CASE RequestReconfigure
  <2>1. GoesOn("poll", pass.waiting) /\ pass.pc = "request" /\ temp' = temp
    BY <1>0, <1>2, Zenon DEF RequestReconfigure, GoesOn, fileVars
  <2> QED
    BY <1>0, <2>1, PassGoesOn, Zenon
<1>3. CASE pollSlurmNodesRestart
  <2>1. PICK waiting : waiting = (pass.waiting \cap Responding) \ restarted
    BY Zenon
  <2>2. PICK pc : pc = IF waiting = {} THEN "complete" ELSE "poll"
    OBVIOUS
  <2>3. GoesOn(pc, waiting) /\ pass.pc = "poll" /\ temp' = temp
    BY <1>3, <2>1, <2>2 DEF pollSlurmNodesRestart, GoesOn, fileVars
  <2>4. pc \in {"poll", "complete"}
    BY <2>2
  <2> QED
    BY <1>0, <2>3, <2>4, PassGoesOn, ZenonT(40)
<1>4. CASE PollFails
  <2>1. GoesOn("complete", pass.waiting) /\ pass.pc = "poll" /\ temp' = temp
    BY <1>0, <1>4, Zenon DEF PollFails, GoesOn, fileVars
  <2> QED
    BY <1>0, <2>1, PassGoesOn, Zenon
<1> QED
  BY <1>1, <1>2, <1>3, <1>4, SMTT(30) DEF Reconfigure

\* A pass that has ended.
LEMMA PassEnds ==
    ASSUME Shape, pass' = Idle, UNCHANGED <<jailed, configMaps, written>>,
           DOMAIN completed' = Configs, configQueue' \subseteq jailed,
           \A p \in Paths : temp'[p] = Missing
    PROVE  ConfigShape' /\ PassShape' /\ PassMarks'
<1>1. ConfigShape'
  BY DEF Shape, ConfigShape
<1>2. DOMAIN Idle = PassFields /\ Idle.pc = "idle" /\ Idle.group = {} /\ Idle.todo = {}
      /\ Idle.current = {} /\ Idle.files = {}
  BY Zenon DEF Idle, PassFields
<1>3. PassShape'
  BY <1>2, Zenon DEF PassShape, Steps
<1>4. PassMarks'
  BY <1>2, Zenon DEF PassMarks
<1> QED
  BY <1>1, <1>3, <1>4, ZenonT(40)

-----------------------------------------------------------------------------
(* Shape and files.                                                        *)

LEMMA ShapeStep ==
    ASSUME Readers # {}, Shape, [Next]_vars
    PROVE  Shape'
<1>0. FilesShape' /\ SlurmdShape'
  BY FilesShapeStep, SlurmdShapeStep DEF Shape
<1> SUFFICES ConfigShape' /\ PassShape' /\ PassMarks'
  BY <1>0 DEF Shape
<1>1. CASE UNCHANGED configVars /\ UNCHANGED <<file, temp>>
  BY <1>1, Zenon DEF Shape, ConfigShape, PassShape, PassMarks, configVars
<1>2. CASE ConfigMapsChange \/ WorkerTopologyController
  <2>1. PICK c \in Configs : MapChanges(c)
    BY <1>2, MapWriters, ZenonT(40) DEF Shape
  <2>2. UNCHANGED <<file, temp, written, completed, pass>>
    BY <1>2 DEF ConfigMapsChange, WorkerTopologyController, EnsureWorkerTopologyConfigMap,
                ReconcileTopology, fileVars
  <2>3. ConfigShape'
    BY <2>1, <2>2, Zenon DEF Shape, ConfigShape, MapChanges
  <2>4. PassShape' /\ PassMarks'
    BY <2>1, <2>2, ZenonT(40) DEF Shape, PassShape, PassMarks, MapChanges
  <2> QED
    BY <2>3, <2>4
<1>3. CASE ConfigController
  <2>1. CASE ActionsCompleted
    <3>1. /\ \A p \in Paths : temp'[p] = Missing
          /\ configQueue' \subseteq jailed
      BY <2>1, CompletionEnds, Zenon DEF Shape, ConfigShape, PassMarks, ActionsCompleted, fileVars
    <3> QED
      BY <2>1, <3>1, CompletionEnds, PassEnds, Zenon
  <2>2. ASSUME NEW c \in Configs, PayloadInvalid(c)
        PROVE  ConfigShape' /\ PassShape' /\ PassMarks'
    <3>1. Aborts
      BY <1>3, <2>2, InvalidAborts, Zenon DEF ConfigController
    <3> QED
      BY <3>1, PassEnds, Zenon DEF Aborts, Shape, ConfigShape
  <2> QED
    BY <1>3, <2>1, <2>2, ReconcileStarts, StartShape, LoopShape, WriteFileWrites, WriteShape,
       FinishGoesOn, Zenon DEF ConfigController
<1>4. CASE ConfigFaults
  <2>1. CASE Aborts
    BY <2>1, PassEnds, Zenon DEF Aborts, Shape, ConfigShape
  <2> QED
    BY <1>4, <2>1, FaultsAbort, ReconfigureGoesOn
<1>5. CASE FinishWaits \/ Reconfigure
  BY <1>5, FinishGoesOn, ReconfigureGoesOn, Zenon DEF FinishWaits
<1>6. CASE Pods \/ Caches \/ \E n \in Readers : Slurmd(n) \/ Silence(n)
  BY <1>1, <1>6, Zenon DEF Pods, Caches, EntryExpires, Slurmd, Silence, fileVars
<1> QED
  BY <1>1, <1>2, <1>3, <1>4, <1>5, <1>6, OtherSteps, ZenonT(40) DEF Next, fileVars

-----------------------------------------------------------------------------
(* Directory entries whose file has been removed.                          *)

\* A ConfigMap that can be rendered stays so unless a key is taken away.
LEMMA RenderableStep ==
    ASSUME Readers # {}, Shape, [Next]_vars, Renderable, "bad" \notin happened'
    PROVE  Renderable'
<1>1. CASE ConfigMapsChange \/ WorkerTopologyController
  BY <1>1, MapWriters DEF MapChanges, Shape
<1>2. CASE UNCHANGED configMaps
  BY <1>2 DEF Renderable, PayloadOK
<1>3. CASE ConfigController
  BY <1>2, <1>3, Zenon DEF ConfigController, Reconcile, NextConfig, ConfigMapMissing, PayloadInvalid,
     FilesAreWritten, WriteFile, FinishStarts, FinishRemoves, ActionsCompleted
<1>4. CASE ConfigFaults
  BY <1>2, <1>4, FaultsAbort DEF Aborts, PollFails
<1>5. CASE FinishWaits \/ Reconfigure
  BY <1>2, <1>5 DEF FinishWaits, FinishSyncs, Reconfigure, ReadStartTimes, RequestReconfigure,
                    pollSlurmNodesRestart
<1>6. CASE Pods \/ Caches \/ \E n \in Readers : Slurmd(n) \/ Silence(n)
  BY <1>2, <1>6 DEF Pods, Caches, Slurmd, Silence, configVars
<1> QED
  BY <1>1, <1>2, <1>3, <1>4, <1>5, <1>6, OtherSteps, ZenonT(40) DEF Next, configVars

\* With every ConfigMap renderable no pass ends for want of a key.
LEMMA NoneIsInvalid ==
    ASSUME Renderable, NEW c \in Configs
    PROVE  ~PayloadInvalid(c)
  BY Zenon DEF Renderable, PayloadInvalid

LEMMA MissingIsNotGone == Missing # Gone
  BY Zenon DEF Missing, Gone

LEMMA FilesInvStep ==
    ASSUME Readers # {}, Shape, FilesInv, [Next]_vars
    PROVE  FilesInv'
<1> DEFINE Contents0 ==
             /\ \A p \in Paths : file[p] # Gone /\ temp[p] # Gone /\ pass.data[p] # Gone
             /\ \A c \in Configs, p \in Paths : configMaps[c].data[p] # Gone
           Removes == pass.pc = "remove" => \A n \in Readers, p \in Paths : cache[n][p] = Missing
           Found == \A n \in Readers, p \in Paths : cache[n][p] # Gone
           Quiet == happened \cap {"faults", "bad"} = {}
<1>0. /\ Contents0 /\ Removes /\ (Quiet => Renderable /\ Found)
      /\ (Quiet' => Quiet) /\ (Quiet' /\ Renderable => Renderable')
  BY HappenedGrows, RenderableStep, Zenon DEF FilesInv
<1> SUFFICES Contents0' /\ Removes' /\ (Quiet' => Found')
  BY <1>0, ZenonT(40) DEF FilesInv
<1> HIDE DEF Quiet
<1>1. CASE UNCHANGED <<configVars, file, temp>>
           /\ \A n \in Readers, p \in Paths : cache'[n][p] \in {cache[n][p], Missing}
  <2>1. UNCHANGED <<configMaps, pass, file, temp>>
    BY <1>1, ZenonT(40) DEF configVars
  <2> QED
    BY <1>0, <1>1, <2>1, MissingIsNotGone
<1>2. CASE ConfigMapsChange \/ WorkerTopologyController
  <2>1. PICK c \in Configs : MapChanges(c)
    BY <1>2, MapWriters, Zenon DEF Shape
  <2>2. UNCHANGED <<file, temp, cache, pass>>
    BY <1>2, ZenonT(40) DEF ConfigMapsChange, WorkerTopologyController, EnsureWorkerTopologyConfigMap,
                ReconcileTopology, fileVars
  <2>3. \A d \in Configs, p \in Paths : configMaps'[d].data[p] # Gone
    BY <1>0, <2>1, MissingIsNotGone DEF MapChanges
  <2> QED
    BY <1>0, <2>2, <2>3
<1>3. ASSUME Aborts
      PROVE  Contents0' /\ Removes'
  <2>1. Idle.pc # "remove" /\ \A p \in Paths : Idle.data[p] = Missing
    BY ZenonT(40) DEF Idle
  <2>2. \A p \in Paths : file'[p] # Gone /\ temp'[p] # Gone
    BY <1>0, <1>3, MissingIsNotGone DEF Aborts
  <2>3. pass' = Idle /\ configMaps' = configMaps
    BY <1>3, ZenonT(40) DEF Aborts
  <2> QED
    BY <1>0, <2>1, <2>2, <2>3, MissingIsNotGone, Zenon
<1>4. ASSUME UNCHANGED <<file, temp, cache, configMaps>>, pass'.pc # "remove",
             \A p \in Paths : pass'.data[p] \in {pass.data[p], Missing}
                              \/ \E c \in Configs : pass'.data[p] = configMaps[c].data[p]
      PROVE  Contents0' /\ Removes' /\ (Quiet' => Found')
  BY <1>0, <1>4, MissingIsNotGone
<1>5. CASE ConfigController
  <2>1. CASE \E c \in Configs : Reconcile(c)
    <3>0. PICK c \in Configs : Reconcile(c)
      BY <2>1
    <3>1. PICK group : Starts(c, group)
      BY <3>0, ReconcileStarts, Zenon
    <3>2. Idle.pc # "remove" /\ \A p \in Paths : Idle.data[p] = Missing
      BY ZenonT(40) DEF Idle
    <3>3. UNCHANGED <<file, temp, cache, configMaps>>
      BY <3>1 DEF Starts, fileVars
    <3>4. /\ pass'.pc # "remove"
          /\ \/ pass' = Idle
             \/ pass'.data = [p \in Paths |-> Missing]
             \/ pass'.data = configMaps[c].data
      BY <3>1, <3>2, Zenon DEF Starts
    <3> QED
      BY <1>4, <3>2, <3>3, <3>4, SMTT(30)
  <2>2. CASE \E c \in Configs : NextConfig(c) \/ ConfigMapMissing(c) \/ FilesAreWritten(c)
    BY <1>4, <2>2, LoopSteps, Zenon DEF Loops, fileVars
  <2>3. ASSUME NEW c \in Configs, PayloadInvalid(c)
        PROVE  Contents0' /\ Removes' /\ (Quiet' => Found')
    <3>1. Aborts
      BY <1>5, <2>3, InvalidAborts, Zenon DEF ConfigController
    <3>2. ~Quiet'
      BY <1>0, <2>3, NoneIsInvalid, ZenonT(40)
    <3> QED
      BY <1>3, <3>1, <3>2, Zenon
  <2>4. ASSUME NEW p \in Paths, WriteFile(p)
        PROVE  Contents0' /\ Removes' /\ (Quiet' => Found')
    <3>1. PICK c \in Configs : Writes(p, c)
      BY <2>4, WriteFileWrites, ZenonT(40)
    <3>2. Contents0'
      BY <1>0, <3>1 DEF Writes, Loops
    <3> QED
      BY <1>0, <3>1, <3>2 DEF Writes, Loops
  <2>5. CASE FinishStarts
    <3>1. pass'.pc \in {"times", "sync"} /\ pass'.data = pass.data
      BY <2>5, Zenon DEF FinishStarts, Shape, PassShape, PassFields
    <3> QED
      BY <1>4, <2>5, <3>1, Zenon DEF FinishStarts, fileVars
  <2>6. CASE FinishRemoves
    <3>1. pass'.pc = "times" /\ pass'.data = pass.data
      BY <2>6 DEF FinishRemoves, Shape, PassShape, PassFields
    <3>2. \A n \in Readers, p \in Paths : cache[n][p] = Missing
      BY <1>0, <2>6 DEF FinishRemoves
    <3>3. /\ \A n \in Readers, p \in Paths : cache'[n][p] = Missing
          /\ \A p \in Paths : temp'[p] = Missing /\ file' = file /\ configMaps' = configMaps
      BY <2>6, <3>2, Zenon DEF FinishRemoves, RemoveTempFiles
    <3> QED
      BY <1>0, <3>1, <3>3, MissingIsNotGone, Zenon
  <2>7. CASE ActionsCompleted
    <3>1. Idle.pc # "remove" /\ \A p \in Paths : Idle.data[p] = Missing
      BY DEF Idle
    <3> QED
      BY <1>4, <2>7, <3>1, ZenonT(40) DEF ActionsCompleted, fileVars
  <2> QED
    BY <1>5, <2>1, <2>2, <2>3, <2>4, <2>5, <2>6, <2>7, ZenonT(40) DEF ConfigController
<1>6. CASE ConfigFaults
  <2>1. CASE PollFails
    <3>1. pass'.pc = "complete" /\ pass'.data = pass.data
      BY <2>1, ZenonT(40) DEF PollFails, Shape, PassShape, PassFields
    <3> QED
      BY <1>4, <2>1, <3>1 DEF PollFails, fileVars
  <2>2. CASE (CallFails \/ FinishRemoveFails) /\ Spend("faults")
    <3>1. Aborts
      <4>1. ~PollFails
        <5>1. Idle.pc = "idle" /\ pass' = Idle
          BY <2>2, Zenon DEF CallFails, FinishRemoveFails, PassFails, Idle
        <5>2. PollFails => pass'.pc = "complete"
          BY DEF PollFails, Shape, PassShape, PassFields
        <5> QED
          BY <5>1, <5>2
      <4> QED
        BY <1>6, <4>1, FaultsAbort
    <3>2. ~Quiet'
      BY <2>2 DEF Spend, Quiet
    <3> QED
      BY <1>3, <3>1, <3>2
  <2>3. CASE ReconfigureAnswerLost \/ PollTimesOut \/ ControllerRestarts
    BY <1>3, <1>0, <1>6, <2>1, <2>3, FaultsAbort, ZenonT(40)
       DEF ReconfigureAnswerLost, PollTimesOut, ControllerRestarts, AbandonBatch, fileVars
  <2> QED
    BY <1>6, <2>1, <2>2, <2>3, Zenon DEF ConfigFaults
<1>7. CASE FinishWaits
  <2>1. pass'.data = pass.data
    BY <1>7 DEF FinishWaits, FinishSyncs, Shape, PassShape, PassFields
  <2>2. \A n \in Readers, p \in Paths : cache'[n][p] = Missing
    BY <1>7 DEF FinishWaits, FinishSyncs, SyncCaches
  <2>3. UNCHANGED <<file, temp, configMaps>>
    BY <1>7 DEF FinishWaits, FinishSyncs, SyncCaches
  <2> QED
    BY <1>0, <2>1, <2>2, <2>3, MissingIsNotGone, Zenon
<1>8. CASE Reconfigure
  <2>1. pass'.data = pass.data /\ pass'.pc \in {"request", "poll", "complete"}
    BY <1>8, Zenon DEF Reconfigure, ReadStartTimes, RequestReconfigure, pollSlurmNodesRestart,
                Shape, PassShape, PassFields
  <2>2. UNCHANGED <<file, temp, cache, configMaps>>
    BY <1>8, Zenon DEF Reconfigure, ReadStartTimes, RequestReconfigure, pollSlurmNodesRestart, fileVars
  <2> QED
    BY <1>4, <2>1, <2>2, Zenon
<1>9. CASE Caches
  <2>1. \A n \in Readers, p \in Paths : cache'[n][p] \in {cache[n][p], Missing}
    BY <1>9 DEF Caches, EntryExpires, Shape, FilesShape
  <2> QED
    BY <1>1, <1>9, <2>1, ZenonT(40) DEF Caches, EntryExpires
<1>10. CASE Pods \/ \E n \in Readers : Slurmd(n) \/ Silence(n)
  BY <1>1, <1>10, Zenon DEF Pods, Slurmd, Silence, fileVars
<1> QED
  BY <1>1, <1>2, <1>5, <1>6, <1>7, <1>8, <1>9, <1>10, OtherSteps, ZenonT(40) DEF Next, fileVars

-----------------------------------------------------------------------------
(* The initial states.                                                     *)

LEMMA InitShape ==
    ASSUME Readers # {}, Init
    PROVE  Shape /\ FilesInv /\ WrittenInv /\ CompletedInv
<1> DEFINE first == CHOOSE v \in Versions : TRUE
           topology(s) == buildNodeSetTopologyConfig(s.plugin, Nothing, <<>>)
           data(s) == [c \in Configs |-> IF c # "topology" THEN Contents(c, first)
                                 ELSE Rendered(IF c \in s.jailed THEN topology(s) ELSE Missing)]
           files(s) == [p \in Paths |-> UNION {data(s)[c][p] : c \in Configs}]
<1>1. PICK s \in Scenarios :
        /\ FilesInit(files(s))
        /\ jailed = s.jailed
        /\ configMaps = [c \in Configs |-> [exists |-> c \in s.jailed, data |-> data(s)[c]]]
        /\ written = [c \in Configs |-> IF c \in s.jailed THEN "True" ELSE ""]
        /\ completed = written
        /\ configQueue = {} /\ pass = Idle
        /\ slurmd = [n \in Readers |->
             IF n \in s.running
             THEN [phase |-> "up", toRead |-> {}, loaded |-> Restrict(files(s), SlurmdFiles),
                   reload |-> FALSE]
             ELSE [phase |-> "absent", toRead |-> {}, loaded |-> NothingLoaded, reload |-> FALSE]]
        /\ happened = {}
  BY Zenon DEF Init
<1>2. PICK d : d = data(s)
  BY Zenon
<1>3. PICK f : f = files(s)
  BY Zenon
<1>4. s.jailed \subseteq Configs /\ \A c \in Configs : FilesOf[c] \subseteq Paths
  BY ScenariosAssumption, ConfigsAssumption, Zenon
<1>5. /\ DOMAIN d = Configs
      /\ \A c \in Configs : /\ DOMAIN d[c] = Paths
                            /\ \A p \in Paths : d[c][p] # Gone
                            /\ \A p \in Paths \ FilesOf[c] : d[c][p] = Missing
                            /\ c \in s.jailed \/ c # "topology" =>
                                 \A p \in FilesOf[c] : d[c][p] # Missing
  <2>1. topology(s) # Missing /\ topology(s) # Gone
    BY RenderedTopology, Zenon
  <2>2. FilesOf["topology"] = {TopologyPath} /\ TopologyPath \in Paths
    BY TopologyAssumption, Zenon
  <2> HIDE DEF topology, first
  <2>3. \A c \in Configs : d[c] = IF c # "topology" THEN Contents(c, first)
                                 ELSE Rendered(IF c \in s.jailed THEN topology(s) ELSE Missing)
    BY <1>2, ZenonT(40)
  <2>4. ASSUME NEW c \in Configs, c # "topology"
        PROVE  /\ DOMAIN d[c] = Paths
               /\ \A p \in Paths : d[c][p] # Gone
               /\ \A p \in Paths \ FilesOf[c] : d[c][p] = Missing
               /\ \A p \in FilesOf[c] : d[c][p] # Missing
    <3>1. \A p \in Paths \ FilesOf[c] : Contents(c, first)[p] = Missing
      BY Zenon DEF Contents
    <3> QED
      BY <2>3, <2>4, <3>1, ContentsArePairs, SMTT(30)
  <2>5. ASSUME NEW content, content # Gone
        PROVE  /\ DOMAIN Rendered(content) = Paths
               /\ \A p \in Paths : Rendered(content)[p] # Gone
               /\ \A p \in Paths \ {TopologyPath} : Rendered(content)[p] = Missing
               /\ Rendered(content)[TopologyPath] = content
    BY <2>2, <2>5, MissingIsNotGone, ZenonT(40) DEF Rendered
  <2>6. ASSUME NEW c \in Configs, c = "topology"
        PROVE  /\ DOMAIN d[c] = Paths
               /\ \A p \in Paths : d[c][p] # Gone
               /\ \A p \in Paths \ FilesOf[c] : d[c][p] = Missing
               /\ c \in s.jailed => \A p \in FilesOf[c] : d[c][p] # Missing
    BY <2>1, <2>2, <2>3, <2>5, <2>6, MissingIsNotGone, SMTT(30)
  <2> QED
    BY <1>2, <2>4, <2>6, Zenon
<1>6. f = [p \in Paths |-> UNION {d[c][p] : c \in Configs}]
  BY <1>2, <1>3, Zenon
<1>7. \A c \in Configs : \A p \in FilesOf[c] : f[p] = d[c][p]
  <2> SUFFICES ASSUME NEW c \in Configs, NEW p \in FilesOf[c] PROVE f[p] = d[c][p]
    BY Zenon
  <2>1. p \in Paths /\ \A e \in Configs \ {c} : p \notin FilesOf[e]
    BY ConfigsAssumption, Zenon
  <2>2. \A e \in Configs \ {c} : d[e][p] = {}
    BY <1>5, <2>1, Zenon DEF Missing
  <2>3. f[p] = UNION {d[e][p] : e \in Configs}
    BY <1>6, <2>1, Zenon
  <2> QED
    BY <2>2, <2>3
<1>8. \A p \in Paths : f[p] # Gone
  <2> SUFFICES ASSUME NEW p \in Paths PROVE f[p] # Gone
    BY ZenonT(40)
  <2>1. CASE \E c \in Configs : p \in FilesOf[c]
    BY <1>5, <1>7, <2>1
  <2>2. CASE \A c \in Configs : p \notin FilesOf[c]
    <3>1. \A c \in Configs : d[c][p] = {}
      BY <1>5, <2>2, Zenon DEF Missing
    <3>2. f[p] = UNION {d[c][p] : c \in Configs}
      BY <1>6, Zenon
    <3>3. f[p] = {}
      BY <3>1, <3>2, Zenon
    <3> QED
      BY <3>3, MissingIsNotGone, Zenon DEF Missing
  <2> QED
    BY <2>1, <2>2, Zenon
<1> HIDE DEF first, topology, data, files
<1>9. /\ file = f /\ temp = [p \in Paths |-> Missing]
      /\ cache = [n \in Readers |-> [p \in Paths |-> Missing]]
      /\ configMaps = [c \in Configs |-> [exists |-> c \in s.jailed, data |-> d[c]]]
      /\ slurmd = [n \in Readers |->
           IF n \in s.running
           THEN [phase |-> "up", toRead |-> {}, loaded |-> Restrict(f, SlurmdFiles), reload |-> FALSE]
           ELSE [phase |-> "absent", toRead |-> {}, loaded |-> NothingLoaded, reload |-> FALSE]]
  BY <1>1, <1>2, <1>3, Zenon DEF FilesInit
<1>10. /\ DOMAIN pass = PassFields /\ pass.pc = "idle" /\ pass.group = {} /\ pass.todo = {}
       /\ pass.current = {} /\ pass.files = {} /\ \A p \in Paths : pass.data[p] = Missing
  BY <1>1, Zenon DEF Idle, PassFields
<1>11. \A c \in Configs : /\ DOMAIN configMaps[c] = {"exists", "data"}
                          /\ configMaps[c].data = d[c]
                          /\ configMaps[c].exists => c \in s.jailed
  BY <1>9, ZenonT(40)
<1>12. \A n \in Readers :
         /\ DOMAIN slurmd[n] = {"phase", "toRead", "loaded", "reload"} /\ slurmd[n].toRead = {}
         /\ slurmd[n].phase \in {"up", "absent"}
         /\ DOMAIN slurmd[n].loaded = SlurmdFiles
         /\ slurmd[n].phase = "up" => \A p \in SlurmdFiles : slurmd[n].loaded[p] = f[p]
  <2> SUFFICES ASSUME NEW n \in Readers
               PROVE  /\ DOMAIN slurmd[n] = {"phase", "toRead", "loaded", "reload"}
                      /\ slurmd[n].toRead = {} /\ slurmd[n].phase \in {"up", "absent"}
                      /\ DOMAIN slurmd[n].loaded = SlurmdFiles
                      /\ slurmd[n].phase = "up" =>
                           \A p \in SlurmdFiles : slurmd[n].loaded[p] = f[p]
    OBVIOUS
  <2>1. PICK all : all = Restrict(f, SlurmdFiles)
    OBVIOUS
  <2>2. DOMAIN all = SlurmdFiles /\ \A p \in SlurmdFiles : all[p] = f[p]
    BY <2>1 DEF Restrict
  <2>3. DOMAIN NothingLoaded = SlurmdFiles
    BY DEF NothingLoaded
  <2>4. \/ slurmd[n] = [phase |-> "up", toRead |-> {}, loaded |-> all, reload |-> FALSE]
        \/ slurmd[n] = [phase |-> "absent", toRead |-> {}, loaded |-> NothingLoaded, reload |-> FALSE]
    BY <1>9, <2>1, Zenon
  <2> QED
    BY <2>2, <2>3, <2>4, SMTT(30)
<1>13. Shape
  <2>1. FilesShape
    BY <1>6, <1>9, Zenon DEF FilesShape
  <2>2. ConfigShape
    BY <1>1, <1>4, <1>5, <1>9, <1>11, Zenon DEF ConfigShape
  <2>3. SlurmdShape
    BY <1>9, <1>12, ZenonT(40) DEF SlurmdShape
  <2>4. PassShape
    BY <1>1, <1>10, Zenon DEF PassShape, Steps
  <2>5. PassMarks
    BY <1>9, <1>10, ZenonT(40) DEF PassMarks
  <2> QED
    BY <2>1, <2>2, <2>3, <2>4, <2>5 DEF Shape
<1>14. Renderable
  BY <1>5, <1>11, SMTT(30) DEF Renderable, PayloadOK
<1>15. FilesInv
  <2>1. \A p \in Paths : file[p] # Gone /\ temp[p] # Gone /\ pass.data[p] # Gone
    BY <1>8, <1>9, <1>10, MissingIsNotGone, Zenon
  <2>2. \A n \in Readers, p \in Paths : cache[n][p] = Missing
    BY <1>9, ZenonT(40)
  <2>3. \A c \in Configs, p \in Paths : configMaps[c].data[p] # Gone
    BY <1>5, <1>11
  <2> QED
    BY <1>14, <2>1, <2>2, <2>3, MissingIsNotGone, Zenon DEF FilesInv
<1>16. WrittenInv
  <2>1. \A c \in jailed : Good(c)
    <3>1. file = f /\ jailed \subseteq Configs
      BY <1>1, <1>4, <1>9, ZenonT(40)
    <3> QED
      BY <1>7, <1>11, <3>1 DEF Good, InJail
  <2>2. \A c \in jailed : InProgress(c)
    BY <1>10, Zenon DEF InProgress
  <2> QED
    BY <1>14, <2>1, <2>2, ZenonT(40) DEF WrittenInv
<1>17. CompletedInv
  <2>0. /\ \A c \in Reconfigures : FilesOf[c] \subseteq SlurmdFiles
        /\ SlurmdFiles \subseteq Paths
    BY ConfigsAssumption DEF SlurmdFiles
  <2>1. \A p \in SlurmdFiles : Clean(p)
    BY <1>9, <1>12, <2>0, Zenon DEF Clean
  <2>2. NewFilesUnread
    BY <1>9, <1>12, <2>0, Zenon DEF NewFilesUnread
  <2>3. PassIsClean /\ StaleAreWaitedFor
    BY <1>10, Zenon DEF PassIsClean, StaleAreWaitedFor, WrittenByPass
  <2>4. CompletedAreLoaded
    BY <1>9, <1>12, <2>0, <2>1, ZenonT(40) DEF CompletedAreLoaded
  <2> QED
    BY <1>12, <2>2, <2>3, <2>4, ZenonT(40) DEF CompletedInv
<1> QED
  BY <1>13, <1>15, <1>16, <1>17

\* Replaced files stay until the directory caches of the workers have expired,
\* so no daemon is left with the entry of a file that was removed
\* (replaced_files_batch.go), for every set of files, configs and workers and
\* every course of ConfigMap changes, crashes, timeouts and pod movements.
THEOREM ReadersAlwaysFindFiles ==
    ASSUME Readers # {}
    PROVE  Spec => []ReadersFindFiles
<1>1. Init => Shape /\ FilesInv
  BY InitShape
<1>2. Shape /\ FilesInv /\ [Next]_vars => (Shape /\ FilesInv)'
  BY ShapeStep, FilesInvStep
<1>3. FilesInv => ReadersFindFiles
  BY Zenon DEF FilesInv, ReadersFindFiles
<1> QED
  BY <1>1, <1>2, <1>3, PTL DEF Spec
=============================================================================
