--------------------------- MODULE JailedConfigs ---------------------------
(***************************************************************************)
(* The JailedConfig controller (sconfigcontroller): it writes the entries  *)
(* of a ConfigMap as files into the jail and, when the JailedConfig asks   *)
(* for it, has Slurm reload its configuration and waits until the slurmds  *)
(* have restarted.  JailedConfigs with an aggregation label are handled    *)
(* together.  One pass runs at a time (max-concurrent-reconciles is 1); it *)
(* is split where others can act.  slurmd and slurmctld are modelled from  *)
(* how the controller uses them.                                           *)
(***************************************************************************)
EXTENDS ReplacedFiles, Naturals

CONSTANTS
  Configs,      \* the JailedConfigs, each with a ConfigMap of its own
  FilesOf,      \* [Configs -> SUBSET Paths]: spec.items
  Aggregated,   \* the JailedConfigs with the aggregation label
  Reconfigures  \* the ones whose spec.updateActions has Reconfigure

ASSUME ConfigsAssumption ==
  /\ FilesOf \in [Configs -> SUBSET Paths]
  /\ \A c, d \in Configs : c # d => FilesOf[c] \cap FilesOf[d] = {}
  /\ Aggregated \subseteq Configs /\ Reconfigures \subseteq Configs

VARIABLES
  jailed,       \* the JailedConfigs that exist
  configMaps,   \* [Configs -> [exists, data]]: data maps the files of the
                \*   config to contents, Missing where the key is absent
  written,      \* [Configs -> status of the condition FilesWritten]
  completed,    \* [Configs -> status of UpdateActionsCompleted]
  configQueue,  \* the JailedConfigs to reconcile
  pass,         \* the pass that runs
  slurmd,       \* [Readers -> [phase, toRead, loaded, reload]]
  restarted     \* the nodes restarted since their start times were read

configVars == <<jailed, configMaps, written, completed, configQueue, pass>>
slurmdVars == <<slurmd, restarted>>

Idle == [pc |-> "idle", config |-> {}, group |-> {}, todo |-> {}, current |-> {},
         files |-> {}, data |-> [p \in Paths |-> Missing], waiting |-> {}]

-----------------------------------------------------------------------------
\* slurmd, absent without a pod that mounts the jail.  It reads its files one by one when it starts or reloads.

Mounted == {n \in Readers : slurmd[n].phase # "absent"}
SlurmdFiles == UNION {FilesOf[c] : c \in Reconfigures}
NothingLoaded == [p \in SlurmdFiles |-> Missing]

SlurmdStarts(n) ==
  /\ slurmd[n].phase = "down"
  /\ slurmd' = [slurmd EXCEPT ![n].phase = "starting", ![n].toRead = SlurmdFiles, ![n].reload = FALSE]
  /\ UNCHANGED restarted

SlurmdReloads(n) ==
  /\ slurmd[n].phase = "up" /\ slurmd[n].reload
  /\ slurmd' = [slurmd EXCEPT ![n].phase = "reloading", ![n].toRead = SlurmdFiles, ![n].reload = FALSE]
  /\ UNCHANGED restarted

\* A file that cannot be opened ends the daemon.
SlurmdReads(n, p) ==
  /\ slurmd[n].phase \in {"starting", "reloading"} /\ p \in slurmd[n].toRead
  /\ slurmd' = IF Opens(n, p) \in {Missing, Gone}
               THEN [slurmd EXCEPT ![n].phase = "down", ![n].toRead = {},
                                   ![n].loaded = NothingLoaded]
               ELSE [slurmd EXCEPT ![n].toRead = @ \ {p}, ![n].loaded[p] = Opens(n, p)]
  /\ UNCHANGED restarted

SlurmdRegisters(n) ==
  /\ slurmd[n].phase \in {"starting", "reloading"} /\ slurmd[n].toRead = {}
  /\ slurmd' = [slurmd EXCEPT ![n].phase = "up"]
  /\ restarted' = restarted \cup {n}

\* slurmctld marks a node NOT_RESPONDING that it cannot reach, and back.
SlurmdIsSilent(n) ==
  /\ slurmd[n].phase = "up"
  /\ slurmd' = [slurmd EXCEPT ![n].phase = "silent", ![n].reload = FALSE]
  /\ UNCHANGED restarted

SlurmdAnswers(n) ==
  /\ slurmd[n].phase = "silent"
  /\ slurmd' = [slurmd EXCEPT ![n].phase = "up"]
  /\ UNCHANGED restarted

\* getNodesStartTime: the nodes that are neither NOT_RESPONDING nor powered down.
Responding == {n \in Readers : slurmd[n].phase \in {"up", "reloading"}}

-----------------------------------------------------------------------------
\* The events that put a JailedConfig into the queue: its own creation and
\* every change of the ConfigMap it refers to.

CreateJailedConfig(c) ==
  /\ jailed' = jailed \cup {c}
  /\ configQueue' = configQueue \cup {c}

\* Mutant: only the creation of a ConfigMap is watched.
WriteConfigMapUnseen(c, data) ==
  /\ configMaps' = [configMaps EXCEPT ![c] = [exists |-> TRUE, data |-> data]]
  /\ configQueue' = configQueue \cup (IF configMaps[c].exists THEN {} ELSE {c} \cap jailed)

WriteConfigMap(c, data) ==
  /\ configMaps' = [configMaps EXCEPT ![c] = [exists |-> TRUE, data |-> data]]
  /\ configQueue' = configQueue \cup ({c} \cap jailed)

DeleteConfigMap(c) ==
  /\ configMaps[c].exists
  /\ configMaps' = [configMaps EXCEPT ![c].exists = FALSE]
  /\ configQueue' = configQueue \cup ({c} \cap jailed)

-----------------------------------------------------------------------------
\* makePayload fails on a key the ConfigMap does not have.
PayloadOK(c) == \A p \in FilesOf[c] : configMaps[c].data[p] # Missing

Refresh(conditions, group) ==
  [c \in Configs |-> IF c \in group THEN "False" ELSE conditions[c]]

Initialised(conditions, c) ==
  [conditions EXCEPT ![c] = IF @ = "" THEN "Unknown" ELSE @]

\* An error ends the pass and rolls the batch back; the queue gets the config
\* again unless the error is terminal.
PassFails(retry) ==
  /\ pass' = Idle
  /\ configQueue' = configQueue \cup (IF retry THEN pass.config ELSE {})

\* Reconcile of a JailedConfig without the label, up to the first file.
reconcileIndividual(c) ==
  /\ c \notin Aggregated
  /\ IF configMaps[c].exists
     THEN /\ written' = Refresh(written, {c})
          /\ completed' = Refresh(completed, {c})
          /\ pass' = IF PayloadOK(c)
                     THEN [Idle EXCEPT !.pc = "configs", !.config = {c}, !.group = {c},
                             !.todo = {c}, !.current = {c}, !.files = FilesOf[c],
                             !.data = configMaps[c].data]
                     ELSE Idle
     ELSE /\ written' = Initialised(written, c)
          /\ completed' = Initialised(completed, c)
          /\ pass' = Idle

\* Reconcile of one with the label: its whole group is refreshed.
reconcileWithAggregation(c) ==
  /\ c \in Aggregated
  /\ LET group == jailed \cap Aggregated IN
     /\ written' = Refresh(written, group)
     /\ completed' = Refresh(completed, group)
     /\ pass' = [Idle EXCEPT !.pc = "configs", !.config = {c}, !.group = group, !.todo = group]

Reconcile(c) ==
  /\ pass.pc = "idle" /\ c \in configQueue
  /\ configQueue' = configQueue \ {c}
  /\ reconcileIndividual(c) \/ reconcileWithAggregation(c)
  /\ UNCHANGED <<jailed, configMaps, fileVars>>

\* The loop over the group: the next config in some order.
NextConfig(c) ==
  /\ pass.pc = "configs" /\ pass.current = {} /\ c \in pass.todo
  /\ configMaps[c].exists /\ PayloadOK(c)
  /\ pass' = [pass EXCEPT !.current = {c}, !.files = FilesOf[c], !.data = configMaps[c].data]
  /\ UNCHANGED <<jailed, configMaps, written, completed, configQueue, fileVars>>

ConfigMapMissing(c) ==
  /\ pass.pc = "configs" /\ pass.current = {} /\ c \in pass.todo
  /\ ~configMaps[c].exists
  /\ written' = [written EXCEPT ![c] = "NotFound"]
  /\ pass' = [pass EXCEPT !.todo = @ \ {c}]
  /\ UNCHANGED <<jailed, configMaps, completed, configQueue, fileVars>>

PayloadInvalid(c) ==
  /\ pass.pc = "configs" /\ pass.current = {} /\ c \in pass.todo
  /\ configMaps[c].exists /\ ~PayloadOK(c)
  /\ PassFails(FALSE) /\ Cleanup(Mounted)
  /\ UNCHANGED <<jailed, configMaps, written, completed>>

WriteFile(p) ==
  /\ pass.pc = "configs" /\ p \in pass.files
  /\ Replace(p, pass.data[p], Mounted)
  /\ pass' = [pass EXCEPT !.files = @ \ {p}]
  /\ UNCHANGED <<jailed, configMaps, written, completed, configQueue>>

FilesAreWritten(c) ==
  /\ pass.pc = "configs" /\ pass.current = {c} /\ pass.files = {}
  /\ written' = [written EXCEPT ![c] = "True"]
  /\ pass' = [pass EXCEPT !.todo = @ \ {c}, !.current = {}]
  /\ UNCHANGED <<jailed, configMaps, completed, configQueue, fileVars>>

\* Mutant: the replaced files are removed at once.
FinishAtOnce ==
  /\ pass.pc = "configs" /\ pass.todo = {}
  /\ pass' = [pass EXCEPT !.pc = "remove"]
  /\ UNCHANGED <<jailed, configMaps, written, completed, configQueue, fileVars>>

\* Finish waits for the caches only if a file was replaced.
FinishStarts ==
  /\ pass.pc = "configs" /\ pass.todo = {}
  /\ pass' = [pass EXCEPT !.pc = IF Pending = {} THEN "times" ELSE "sync"]
  /\ UNCHANGED <<jailed, configMaps, written, completed, configQueue, fileVars>>

\* The wait is longer than a daemon takes to read its files.
FinishSyncs ==
  /\ pass.pc = "sync"
  /\ \A n \in Readers : slurmd[n].phase \notin {"starting", "reloading"}
  /\ SyncCaches
  /\ pass' = [pass EXCEPT !.pc = "remove"]
  /\ UNCHANGED <<jailed, configMaps, written, completed, configQueue>>

FinishRemoves ==
  /\ pass.pc = "remove"
  /\ RemoveTempFiles({})
  /\ pass' = [pass EXCEPT !.pc = "times"]
  /\ UNCHANGED <<jailed, configMaps, written, completed, configQueue>>

FinishRemoveFails ==
  /\ pass.pc = "remove"
  /\ \E kept \in SUBSET Pending : kept # {} /\ RemoveTempFiles(kept)
  /\ PassFails(TRUE)
  /\ UNCHANGED <<jailed, configMaps, written, completed>>

needsReconfigure == pass.group \cap Reconfigures # {}

\* reconfigureCluster: start times, request, poll.
ReadStartTimes ==
  /\ pass.pc = "times" /\ needsReconfigure
  /\ pass' = [pass EXCEPT !.pc = "request", !.waiting = Responding]
  /\ restarted' = {}
  /\ UNCHANGED <<jailed, configMaps, written, completed, configQueue, fileVars, slurmd>>

\* Mutant: the answer of the endpoint is taken for the end of the restarts.
RequestOnly ==
  /\ pass.pc = "request"
  /\ slurmd' = [n \in Readers |-> [slurmd[n] EXCEPT !.reload = @ \/ n \in Responding]]
  /\ pass' = [pass EXCEPT !.pc = "complete"]
  /\ UNCHANGED <<jailed, configMaps, written, completed, configQueue, fileVars, restarted>>

RequestReconfigure ==
  /\ pass.pc = "request"
  /\ slurmd' = [n \in Readers |-> [slurmd[n] EXCEPT !.reload = @ \/ n \in Responding]]
  /\ pass' = [pass EXCEPT !.pc = "poll"]
  /\ UNCHANGED <<jailed, configMaps, written, completed, configQueue, fileVars, restarted>>

pollSlurmNodesRestart ==
  LET waiting == (pass.waiting \cap Responding) \ restarted IN
  /\ pass.pc = "poll"
  /\ waiting # pass.waiting \/ waiting = {}
  /\ pass' = [pass EXCEPT !.pc = IF waiting = {} THEN "complete" ELSE "poll",
                          !.waiting = waiting]
  /\ UNCHANGED <<jailed, configMaps, written, completed, configQueue, fileVars, slurmdVars>>

\* Only the deadline is an error of reconfigureCluster.
PollTimesOut ==
  /\ pass.pc = "poll"
  /\ PassFails(TRUE)
  /\ UNCHANGED <<jailed, configMaps, written, completed, fileVars, slurmdVars>>

PollFails ==
  /\ pass.pc = "poll"
  /\ pass' = [pass EXCEPT !.pc = "complete"]
  /\ UNCHANGED <<jailed, configMaps, written, completed, configQueue, fileVars, slurmdVars>>

\* setUpdateActionsCompletedForConfigs, and the end of reconcileIndividual.
ActionsCompleted ==
  /\ pass.pc = "complete" \/ (pass.pc = "times" /\ ~needsReconfigure)
  /\ completed' = [c \in Configs |->
       IF c \notin pass.group THEN completed[c]
       ELSE IF needsReconfigure /\ written[c] = "NotFound" THEN "NotWritten" ELSE "True"]
  /\ pass' = Idle
  /\ UNCHANGED <<jailed, configMaps, written, configQueue, fileVars>>

\* The request reaches slurmctld but its answer is lost.
ReconfigureAnswerLost ==
  /\ pass.pc = "request"
  /\ slurmd' = [n \in Readers |-> [slurmd[n] EXCEPT !.reload = @ \/ n \in Responding]]
  /\ PassFails(TRUE)
  /\ UNCHANGED <<jailed, configMaps, written, completed, fileVars, restarted>>

\* Mutant: every error is terminal.
CallFailsForGood ==
  /\ pass.pc \in {"configs", "times", "request", "complete"}
  /\ PassFails(FALSE) /\ Cleanup(Mounted)
  /\ UNCHANGED <<jailed, configMaps, written, completed>>

\* Any call of the pass may fail: the replacement of a file, a request to
\* the API server or to Slurm.
CallFails ==
  /\ pass.pc \in {"configs", "times", "request", "complete"}
  /\ PassFails(TRUE)
  /\ UNCHANGED <<jailed, configMaps, written, completed>>
  /\ \/ Cleanup(Mounted)
     \/ CleanupPartlyFails(Mounted)
     \/ \E p \in pass.files : Pending = {} /\ ReplaceFails(p)

\* The controller stops and starts: every JailedConfig is reconciled.
ControllerRestarts ==
  /\ pass' = Idle
  /\ configQueue' = jailed
  /\ AbandonBatch(pass.files)
  /\ UNCHANGED <<jailed, configMaps, written, completed>>
=============================================================================
