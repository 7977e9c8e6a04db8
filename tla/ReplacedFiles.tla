--------------------------- MODULE ReplacedFiles ---------------------------
(***************************************************************************)
(* The files of the jail (the shared root file system of a cluster) and    *)
(* the batch with which the config controller replaces several of them     *)
(* (replaced_files_batch.go, fs.go).  A file is written under a temporary  *)
(* name and exchanged with the file it replaces; the replaced file keeps   *)
(* the temporary name until the directory entries cached by the worker VMs *)
(* have expired, because a reader with a cached entry still opens the      *)
(* replaced file.                                                          *)
(***************************************************************************)
EXTENDS FiniteSets

CONSTANTS
  Paths,     \* the config files in the jail
  Readers    \* the Slurm nodes, whose VMs cache directory entries

VARIABLES
  file,      \* [Paths -> content]: what the path holds, Missing if nothing
  temp,      \* [Paths -> content]: what its temporary name holds
             \*   (batch.pendingFiles: the paths whose temp is not Missing)
  stray,     \* the paths with a temporary file nobody will remove
  cache      \* [Readers -> [Paths -> content]]: what an outdated entry in
             \*   the VM's cache opens; Missing without such an entry

fileVars == <<file, temp, stray, cache>>

Missing == {}                           \* contents are sets of pairs
Gone    == {<<"gone", "gone", "gone">>} \* an entry of a file that was removed

Pending == {p \in Paths : temp[p] # Missing}

FilesInit(initial) ==
  /\ file = initial
  /\ temp = [p \in Paths |-> Missing]
  /\ stray = {}
  /\ cache = [n \in Readers |-> [p \in Paths |-> Missing]]

Outdate(readers, paths, opens) ==
  cache' = [n \in Readers |-> [p \in Paths |->
             IF n \in readers /\ p \in paths THEN opens[p] ELSE cache[n][p]]]

\* Exchange with the present file; any of the present readers may have its
\* entry cached.
RenameExchange(p, content, readers) ==
  /\ file[p] # Missing
  /\ temp' = [temp EXCEPT ![p] = file[p]]
  /\ file' = [file EXCEPT ![p] = content]
  /\ \E cached \in SUBSET readers : Outdate(cached, {p}, file)
  /\ UNCHANGED stray

RenameNoReplace(p, content) ==
  /\ file[p] = Missing
  /\ file' = [file EXCEPT ![p] = content]
  /\ UNCHANGED <<temp, stray, cache>>

Replace(p, content, readers) ==
  RenameExchange(p, content, readers) \/ RenameNoReplace(p, content)

\* A failing Replace removes the new file again, except after a failed
\* RenameNoReplace.
ReplaceFails(p) ==
  /\ stray' \in {stray} \cup (IF file[p] = Missing THEN {stray \cup {p}} ELSE {})
  /\ UNCHANGED <<file, temp, cache>>

\* Puts the replaced files back: failed are the paths whose exchange fails,
\* kept the ones whose temporary file cannot be removed.
CleanupBut(failed, kept, readers) ==
  LET back == Pending \ failed IN
  /\ file' = [p \in Paths |-> IF p \in back THEN temp[p] ELSE file[p]]
  /\ temp' = [p \in Paths |-> Missing]
  /\ stray' = stray \cup failed \cup kept
  /\ \E cached \in SUBSET readers :
       cache' = [n \in Readers |-> [p \in Paths |->
                  IF p \notin back THEN cache[n][p]
                  ELSE IF n \notin cached THEN Missing
                  ELSE IF p \in kept THEN file[p] ELSE Gone]]

Cleanup(readers) == CleanupBut({}, {}, readers)

CleanupPartlyFails(readers) ==
  \E failed, kept \in SUBSET Pending :
    /\ failed # {} \/ kept # {}
    /\ failed \cap kept = {}
    /\ CleanupBut(failed, kept, readers)

\* fs.SyncCaches: the entries cached before have expired.
SyncCaches ==
  /\ cache' = [n \in Readers |-> [p \in Paths |-> Missing]]
  /\ UNCHANGED <<file, temp, stray>>

\* The end of Finish; kept are the paths whose removal fails.
RemoveTempFiles(kept) ==
  /\ temp' = [p \in Paths |-> Missing]
  /\ stray' = stray \cup kept
  /\ cache' = [n \in Readers |-> [p \in Paths |->
                IF p \in Pending \ kept /\ cache[n][p] # Missing THEN Gone ELSE cache[n][p]]]
  /\ UNCHANGED file

\* The process stops: the temporary files stay, and so may the one being
\* prepared.
AbandonBatch(preparing) ==
  /\ stray' \in {stray \cup Pending \cup s : s \in SUBSET preparing}
  /\ temp' = [p \in Paths |-> Missing]
  /\ UNCHANGED <<file, cache>>

\* An entry expires after its time in the cache.
EntryExpires(n, p) ==
  /\ cache[n][p] # Missing
  /\ cache' = [cache EXCEPT ![n][p] = Missing]
  /\ UNCHANGED <<file, temp, stray>>

\* What reader n finds when it opens p.
Opens(n, p) == IF cache[n][p] # Missing THEN cache[n][p] ELSE file[p]
=============================================================================
