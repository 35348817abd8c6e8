----------------------------- MODULE SourceReset -----------------------------
(***************************************************************************)
(* What a reset leaves in search.db: the daemon with its index run, whose  *)
(* pool of open sources survives from one run to the next, and the three   *)
(* ways a source is reset (config.json, the CLI, lost auth).  A process    *)
(* that has a database open goes on reading the file after it has been     *)
(* removed, so files are told apart by how often they were replaced.       *)
(***************************************************************************)
EXTENDS Daemon

CONSTANT MaxFile    \* bound on the times a source's files are removed
ASSUME FileAssumption == MaxFile \in Nat

VARIABLES disk,      \* which database files of a source are on disk
          rows,      \* from which files its rows in search.db were read
          pool,      \* indexSourcesPool: the files each open source reads, and its config
          index,     \* the index run: sources to visit, source read but not written
          clearing,  \* reset commands that have still to delete rows
          cleared,   \* history: sources whose rows a reset has deleted, not enabled since
          settled    \* history: those whose reset ended with no rows and no run visiting them

searchVars == <<disk, rows, pool, index, clearing, cleared, settled>>
allVars == <<vars, searchVars>>

Pooled == [open : BOOLEAN, file : 0..MaxFile, config : SourceConfig]
Closed == [open |-> FALSE, file |-> 0,
           config |-> [enabled |-> FALSE, reset |-> FALSE, auth |-> 0]]
Run == [pc : {"idle", "requested", "visiting"}, todo : SUBSET Source,
        held : SingleOrNone(Source)]
NoRun == [pc |-> "idle", todo |-> {}, held |-> {}]

ResetInit ==
  /\ Init
  /\ disk = [s \in Source |-> 0] /\ rows = [s \in Source |-> {}]
  /\ pool = [s \in Source |-> Closed] /\ index = NoRun
  /\ clearing = {} /\ cleared = {} /\ settled = {}

-----------------------------------------------------------------------------
(* The daemon's steps that reach the files and search.db.                  *)

\* What is opened from now on is new.
Replaced(s) == disk[s] < MaxFile /\ disk' = [disk EXCEPT ![s] = @ + 1]

DeleteRows(s) == rows' = [rows EXCEPT ![s] = {}] /\ cleared' = cleared \cup {s}

\* The last step of a reset.
Settle(s) ==
  settled' = IF /\ s \in cleared' /\ rows'[s] = {} /\ ~config'[s].enabled
                /\ s \notin index.todo \cup index.held
             THEN settled \cup {s} ELSE settled

RemovesFiles(s) ==
  /\ \/ ResetFiles(s, TRUE)
     \/ CliReset(s)
     \/ \E i \in Goroutines(s) : AuthLostWipes(i)
  /\ Replaced(s)
  /\ clearing' = clearing \cup cli'
  /\ UNCHANGED <<rows, pool, index, cleared, settled>>

\* DeleteBySource may fail; the reset goes on.
DaemonClears(s) ==
  /\ ResetRows(s)
  /\ DeleteRows(s) \/ UNCHANGED <<rows, cleared>>
  /\ UNCHANGED <<disk, pool, index, clearing, settled>>

DaemonDisables(s) ==
  /\ ResetDisables(s)
  /\ UNCHANGED <<disk, rows, pool, index, clearing, cleared>>
  /\ Settle(s)

\* ClearSearchSource, the last step of a reset command.
CliClears(s) ==
  /\ s \in clearing \ cli
  /\ DeleteRows(s)
  /\ clearing' = clearing \ {s}
  /\ UNCHANGED <<vars, disk, pool, index>>
  /\ Settle(s)

\* requestIndex at the end of a tick: dropped when a run is in progress.
RequestsIndex ==
  /\ EndTick
  /\ index' = IF index.pc = "idle" THEN [NoRun EXCEPT !.pc = "requested"] ELSE index
  /\ UNCHANGED <<disk, rows, pool, clearing, cleared, settled>>

Enables(s) ==
  /\ EnableOrDisable(s, TRUE) \/ Login(s)
  /\ cleared' = cleared \ {s} /\ settled' = settled \ {s}
  /\ UNCHANGED <<disk, rows, pool, index, clearing>>

Dies ==
  /\ DieAndRestart
  /\ pool' = [s \in Source |-> Closed] /\ index' = NoRun
  /\ UNCHANGED <<disk, rows, clearing, cleared, settled>>

\* The steps that reach neither.
Elsewhere ==
  /\ \/ Tick \/ NextLoop
     \/ \E s \in Source :
          \/ PassBy(s) \/ ResetStops(s) \/ ResetFiles(s, FALSE)
          \/ ResetCannotDisable(s) \/ Restart(s) \/ Start(s) \/ Stop(s)
          \/ EnableOrDisable(s, FALSE) \/ ChangeAuth(s) \/ FlagReset(s) \/ CliDisables(s)
     \/ \E i \in Instance : SaveToken(i) \/ AuthLostDisables(i) \/ Return(i) \/ DeleteEntry(i)
  /\ UNCHANGED searchVars

-----------------------------------------------------------------------------
(* The index run.                                                          *)

\* Mutant of Opened: a source is kept as long as its configuration is the same.
OpenedAsBefore(s) ==
  IF pool[s].open /\ pool[s].config.auth = config[s].auth THEN pool[s]
  ELSE IF config[s].enabled /\ s \in token
       THEN [open |-> TRUE, file |-> disk[s], config |-> config[s]] ELSE Closed

\* reconcileIndexSources, for one source.
Opened(s) ==
  IF ~config[s].enabled \/ s \notin token THEN Closed
  ELSE IF pool[s].open /\ pool[s].config = config[s]
       THEN pool[s] ELSE [open |-> TRUE, file |-> disk[s], config |-> config[s]]

IndexBegins ==
  /\ index.pc = "requested"
  /\ pool' = [s \in Source |-> Opened(s)]
  /\ index' = [index EXCEPT !.pc = "visiting", !.todo = {s \in Source : Opened(s).open}]
  /\ UNCHANGED <<disk, rows, clearing, cleared, settled>>

\* The source has no changes or cannot be read.
IndexSkips(s) ==
  /\ index.held = {} /\ s \in index.todo
  /\ index' = [index EXCEPT !.todo = @ \ {s}]
  /\ UNCHANGED <<disk, rows, pool, clearing, cleared, settled>>

IndexReads(s) ==
  /\ index.held = {} /\ s \in index.todo
  /\ index' = [index EXCEPT !.todo = @ \ {s}, !.held = {s}]
  /\ UNCHANGED <<disk, rows, pool, clearing, cleared, settled>>

\* The rows that were read are written, and a full pass prunes the others.
IndexWrites(s) ==
  /\ s \in index.held
  /\ \E kept \in {rows[s], {}} : rows' = [rows EXCEPT ![s] = kept \cup {pool[s].file}]
  /\ index' = [index EXCEPT !.held = {}]
  /\ UNCHANGED <<disk, pool, clearing, cleared, settled>>

IndexEnds ==
  /\ index.pc = "visiting" /\ index.todo = {} /\ index.held = {}
  /\ index' = NoRun
  /\ UNCHANGED <<disk, rows, pool, clearing, cleared, settled>>

IndexStep ==
  /\ \/ IndexBegins \/ IndexEnds
     \/ \E s \in Source : IndexSkips(s) \/ IndexReads(s) \/ IndexWrites(s)
  /\ UNCHANGED vars

ResetNext ==
  \/ \E s \in Source : RemovesFiles(s) \/ DaemonClears(s) \/ DaemonDisables(s) \/ CliClears(s) \/ Enables(s)
  \/ RequestsIndex \/ Dies \/ Elsewhere \/ IndexStep

ResetSpec == ResetInit /\ [][ResetNext]_allVars

-----------------------------------------------------------------------------
ResetTypeOK ==
  /\ TypeOK
  /\ disk \in [Source -> 0..MaxFile] /\ rows \in [Source -> SUBSET (0..MaxFile)]
  /\ pool \in [Source -> Pooled] /\ index \in Run
  /\ index.todo # {} \/ index.held # {} => index.pc = "visiting"
  /\ \A s \in index.todo \cup index.held : pool[s].open
  /\ clearing \subseteq Source /\ cleared \subseteq Source /\ settled \subseteq cleared

\* Once a reset has ended with the source's rows gone and no index run visiting
\* it, they stay away until it is enabled again: neither a StartCore still at
\* work that saves the credentials again, nor a later run with the source in
\* its pool, brings them back.
SettledResetStays == \A s \in settled : rows[s] = {}

\* docs/spec.md on per-source resets, and the comment on handleReset: a source
\* that has been reset, and not enabled since, leaves no hits behind.
ResetLeavesNoHits == \A s \in cleared : ~config[s].enabled => rows[s] = {}
=============================================================================
