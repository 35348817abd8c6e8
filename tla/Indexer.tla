------------------------------- MODULE Indexer -------------------------------
(***************************************************************************)
(* One indexing process over search.db: the body the daemon gives to its   *)
(* indexCoordinator (runtime.go), indexSources and its helpers             *)
(* (indexer.go).  Runs never overlap (SerialRuns).                         *)
(* Around it: the sources whose local caches change at any time, the MCP   *)
(* server that opens search.db, cancellation, and a crash of the process.  *)
(***************************************************************************)
EXTENDS SearchStore

CONSTANTS Lenient,    \* sources whose stream skips what it cannot read (gsuite)
          MaxTime,    \* bound on the clock, in seconds
          MaxChanges  \* bound on the changes the sources make

ASSUME LenientAssumption == Lenient \subseteq Source
ASSUME BoundAssumption == MaxTime \in Nat \ {0} /\ MaxChanges \in Nat

VARIABLES data,      \* the rows each source's local cache would emit now
          mtime,     \* second of the last change of a source's cache files
          unseen,    \* history: keys that changed, or were skipped, since a pass last read them
          excused,   \* history: those at the time of the last stamp, or skipped since
          enabled,   \* sources that are enabled and authenticated
          now,       \* the clock, in seconds
          changes,   \* changes made so far
          run,       \* the index run in progress
          ftsSuspect \* history: a crash or a failed statement hit the FTS upkeep

sourceVars == <<data, mtime, unseen, excused, enabled, changes>>
vars == <<storeVars, sourceVars, now, run, ftsSuspect>>

\* full: a full pass.  bulk: this run entered bulk mode.  todo: sources still
\* to visit.  src: the source being visited.  left: its batches not emitted
\* yet.  keys: what collectIndexKeys has gathered.  batch: a row read, not
\* written.
Run == [pc : {"idle", "reconcile", "sources", "emit", "write", "prune", "stamp", "end", "rebuild"},
        full : BOOLEAN, canceled : BOOLEAN, bulk : BOOLEAN, todo : SUBSET Source,
        src : SUBSET Source, left : SUBSET Key, keys : SUBSET Key,
        batch : SUBSET (Key \X Text)]

NoRun == [pc |-> "idle", full |-> FALSE, canceled |-> FALSE, bulk |-> FALSE, todo |-> {},
          src |-> {}, left |-> {}, keys |-> {}, batch |-> {}]

TypeOK ==
  /\ StoreTypeOK
  /\ data \in [Source -> [Key -> Text \cup {NoText}]]
  /\ mtime \in [Source -> Nat]
  /\ unseen \in [Source -> SUBSET Key] /\ excused \in [Source -> SUBSET Key]
  /\ enabled \subseteq Source /\ now \in 1 .. MaxTime /\ changes \in 0 .. MaxChanges
  /\ run \in Run /\ ftsSuspect \in BOOLEAN
  /\ Cardinality(run.src) <= 1 /\ Cardinality(run.batch) <= 1
  /\ run.pc \in {"emit", "write", "prune", "stamp"} <=> run.src # {}
  /\ run.pc = "write" <=> run.batch # {}
  /\ bulkFTS /\ run.pc # "idle" => run.bulk \/ run.pc \in {"reconcile", "rebuild"}

Init ==
  /\ StoreInit
  /\ data \in [Source -> [Key -> Text \cup {NoText}]]
  /\ mtime = [s \in Source |-> 1]
  /\ unseen = [s \in Source |-> Key] /\ excused = [s \in Source |-> {}]
  /\ enabled = Source
  /\ now = 1 /\ changes = 0 /\ run = NoRun /\ ftsSuspect = FALSE

-----------------------------------------------------------------------------
(* The run.                                                                *)

\* The worker is called: with clearFirst the index is emptied, or the run ends.
StartRun(clearFirst, full) ==
  /\ run.pc = "idle"
  /\ \/ /\ run' = [NoRun EXCEPT !.pc = "reconcile", !.full = full \/ clearFirst]
        /\ IF clearFirst THEN Clear ELSE UNCHANGED storeVars
     \/ clearFirst /\ UNCHANGED <<storeVars, run>>
  /\ UNCHANGED <<sourceVars, now, ftsSuspect>>

\* reconcileIndexSources, then BeginBulkIndex.  A failure is logged and the
\* pass goes on row by row.
Reconcile ==
  /\ run.pc = "reconcile"
  /\ \/ /\ BeginBulkIndex
        /\ run' = [run EXCEPT !.pc = "sources", !.todo = enabled, !.bulk = TRUE]
        /\ UNCHANGED ftsSuspect
     \/ /\ BeginBulkIndexFails
        /\ run' = [run EXCEPT !.pc = "sources", !.todo = enabled]
        /\ ftsSuspect' = TRUE
  /\ UNCHANGED <<sourceVars, now>>

\* IncrementalSource.HasChangesSince(LastIndexed): file times are finer than
\* the second the watermark is cut to, so a change in that second is "after".
HasChangesSince(s) == mtime[s] >= meta[s]

\* shouldIndexSource
ShouldIndex(s) == run.full \/ HasChangesSince(s)

\* The source is done with, for whatever reason.
Leave(s) == [run EXCEPT !.pc = "sources", !.todo = @ \ {s}, !.src = {}, !.left = {},
                        !.keys = {}, !.batch = {}]

\* indexSources returns.
Abandon == [run EXCEPT !.pc = "end", !.src = {}, !.left = {}, !.keys = {}, !.batch = {}]

EnterSource(s) ==
  /\ run.pc = "sources" /\ ~run.canceled /\ s \in run.todo /\ ShouldIndex(s)
  /\ run' = [run EXCEPT !.pc = "emit", !.src = {s}, !.left = Key, !.keys = {}]
  /\ UNCHANGED <<storeVars, sourceVars, now, ftsSuspect>>

SkipSource(s) ==
  /\ run.pc = "sources" /\ ~run.canceled /\ s \in run.todo /\ ~ShouldIndex(s)
  /\ run' = Leave(s)
  /\ UNCHANGED <<storeVars, sourceVars, now, ftsSuspect>>

\* The source reads one batch from its cache and, when there is a row, hands
\* it to emit.
ReadBatch(s, k) ==
  /\ run.pc = "emit" /\ s \in run.src /\ k \in run.left
  /\ unseen' = [unseen EXCEPT ![s] = @ \ {k}]
  /\ IF data[s][k] = NoText
     THEN run' = [run EXCEPT !.left = @ \ {k}]
     ELSE run' = [run EXCEPT !.left = @ \ {k}, !.pc = "write", !.batch = {<<k, data[s][k]>>}]
  /\ UNCHANGED <<storeVars, data, mtime, excused, enabled, changes, now, ftsSuspect>>

\* gsuite's StreamSearchEntries: an app whose rows cannot be read is left out
\* and the stream goes on as if it had none.
SkipUnreadable(s, k) ==
  /\ run.pc = "emit" /\ s \in run.src \cap Lenient /\ k \in run.left
  /\ run' = [run EXCEPT !.left = @ \ {k}]
  /\ unseen' = [unseen EXCEPT ![s] = @ \cup {k}]
  /\ excused' = [excused EXCEPT ![s] = @ \cup {k}]
  /\ UNCHANGED <<storeVars, data, mtime, enabled, changes, now, ftsSuspect>>

\* emit: nothing is written for a cancelled run; otherwise the batch is
\* indexed and its key collected.
WriteBatch(s) ==
  /\ run.pc = "write" /\ s \in run.src
  /\ IF run.canceled
     THEN run' = Abandon /\ UNCHANGED storeVars
     ELSE \E b \in run.batch :
            /\ IndexEntries(s, b[1], b[2])
            /\ run' = [run EXCEPT !.pc = "emit", !.batch = {}, !.keys = @ \cup {b[1]}]
  /\ UNCHANGED <<sourceVars, now, ftsSuspect>>

\* Mutant of BatchFails: a failed batch is taken for a completed stream.
BatchFailsQuietly(s) ==
  /\ run.pc \in {"emit", "write"} /\ s \in run.src
  /\ run' = [run EXCEPT !.pc = IF run.full THEN "prune" ELSE "stamp", !.left = {}, !.batch = {}]
  /\ UNCHANGED <<storeVars, sourceVars, now, ftsSuspect>>

\* The source cannot read on, or IndexEntries fails (a busy timeout): the
\* source is left without prune and without a new watermark.
BatchFails(s) ==
  /\ run.pc \in {"emit", "write"} /\ s \in run.src
  /\ run' = IF run.canceled THEN Abandon ELSE Leave(s)
  /\ UNCHANGED <<storeVars, sourceVars, now, ftsSuspect>>

\* Mutant of StreamDone: no pass prunes.
StreamDoneUnpruned(s) ==
  /\ run.pc = "emit" /\ s \in run.src /\ run.left = {}
  /\ run' = [run EXCEPT !.pc = "stamp"]
  /\ UNCHANGED <<storeVars, sourceVars, now, ftsSuspect>>

\* The source has emitted everything (keys, true, nil).
StreamDone(s) ==
  /\ run.pc = "emit" /\ s \in run.src /\ run.left = {}
  /\ run' = [run EXCEPT !.pc = IF run.full THEN "prune" ELSE "stamp"]
  /\ UNCHANGED <<storeVars, sourceVars, now, ftsSuspect>>

\* A full pass prunes; a failed prune leaves the watermark as it was.
Prune(s) ==
  /\ run.pc = "prune" /\ s \in run.src
  /\ \/ PruneSourceKeys(s, run.keys) /\ run' = [run EXCEPT !.pc = "stamp"]
     \/ UNCHANGED storeVars /\ run' = Leave(s)
  /\ UNCHANGED <<sourceVars, now, ftsSuspect>>

Stamp(s) ==
  /\ run.pc = "stamp" /\ s \in run.src
  /\ UpdateSourceTimestamp(s, now)
  /\ run' = Leave(s)
  /\ excused' = [excused EXCEPT ![s] = unseen[s]]
  /\ UNCHANGED <<data, mtime, unseen, enabled, changes, now, ftsSuspect>>

\* Every source visited, or the cancellation seen between two of them.
SourcesDone ==
  /\ run.pc = "sources" /\ (run.todo = {} \/ run.canceled)
  /\ run' = Abandon
  /\ UNCHANGED <<storeVars, sourceVars, now, ftsSuspect>>

\* EndBulkIndex runs whether or not the pass was cancelled.  When the triggers
\* cannot be created the handle stays in bulk mode for the next run.
RestoreTriggers ==
  /\ run.pc = "end"
  /\ \/ /\ run.bulk /\ EndBulkTriggers
        /\ run' = [run EXCEPT !.pc = "rebuild"]
        /\ UNCHANGED ftsSuspect
     \/ run.bulk /\ UNCHANGED storeVars /\ run' = NoRun /\ ftsSuspect' = TRUE
     \/ ~run.bulk /\ UNCHANGED <<storeVars, ftsSuspect>> /\ run' = NoRun
  /\ UNCHANGED <<sourceVars, now>>

RebuildFTS ==
  /\ run.pc = "rebuild"
  /\ \/ EndBulkRebuild /\ ftsSuspect' = FALSE
     \/ UNCHANGED storeVars /\ ftsSuspect' = TRUE
  /\ run' = NoRun
  /\ UNCHANGED <<sourceVars, now>>

RunStep ==
  \/ Reconcile
  \/ \E s \in Source : \/ EnterSource(s) \/ SkipSource(s) \/ WriteBatch(s) \/ BatchFails(s)
                       \/ StreamDone(s) \/ Prune(s) \/ Stamp(s)
                       \/ \E k \in Key : ReadBatch(s, k) \/ SkipUnreadable(s, k)
  \/ SourcesDone \/ RestoreTriggers \/ RebuildFTS

-----------------------------------------------------------------------------
(* What happens around the run.                                            *)

\* A restart request or Stop cancels the run's context.
Cancel ==
  /\ run.pc # "idle" /\ ~run.canceled
  /\ run' = [run EXCEPT !.canceled = TRUE]
  /\ UNCHANGED <<storeVars, sourceVars, now, ftsSuspect>>

\* The process dies; the next one opens search.db and creates the triggers.
CrashAndReopen ==
  /\ CreateTriggers /\ bulkFTS' = FALSE
  /\ run' = NoRun
  /\ ftsSuspect' = (ftsSuspect \/ bulkFTS \/ run.pc = "rebuild")
  /\ UNCHANGED <<sourceVars, now>>

\* The MCP server starts and opens search.db through NewSearchStore.
OpenByMCP ==
  /\ CreateTriggers
  /\ UNCHANGED <<bulkFTS, sourceVars, now, run, ftsSuspect>>

\* A sync changes what an enabled source would emit.
SourceChanges(s, k, text) ==
  /\ changes < MaxChanges /\ changes' = changes + 1
  /\ s \in enabled /\ data[s][k] # text
  /\ data' = [data EXCEPT ![s][k] = text]
  /\ mtime' = [mtime EXCEPT ![s] = now]
  /\ unseen' = [unseen EXCEPT ![s] = @ \cup {k}]
  /\ UNCHANGED <<storeVars, excused, enabled, now, run, ftsSuspect>>

\* A reset empties the source and deletes its rows, not its watermark, whatever
\* the run is doing.
ResetSource(s) ==
  /\ changes < MaxChanges /\ changes' = changes + 1
  /\ DeleteBySource(s)
  /\ data' = [data EXCEPT ![s] = NoRows]
  /\ mtime' = [mtime EXCEPT ![s] = now]
  /\ unseen' = [unseen EXCEPT ![s] = @ \cup {k \in Key : data[s][k] # NoText}]
  /\ enabled' = enabled \ {s}
  /\ UNCHANGED <<excused, now, run, ftsSuspect>>

\* The user disables or enables a source.
Toggle(s) ==
  /\ enabled' = IF s \in enabled THEN enabled \ {s} ELSE enabled \cup {s}
  /\ UNCHANGED <<storeVars, data, mtime, unseen, excused, changes, now, run, ftsSuspect>>

ClockTick ==
  /\ now < MaxTime /\ now' = now + 1
  /\ UNCHANGED <<storeVars, sourceVars, run, ftsSuspect>>

Environment ==
  \/ \E clear, full \in BOOLEAN : StartRun(clear, full)
  \/ Cancel \/ CrashAndReopen \/ OpenByMCP \/ ClockTick
  \/ \E s \in Source : Toggle(s) \/ ResetSource(s) \/ \E k \in Key, t \in Text \cup {NoText} : SourceChanges(s, k, t)

Next == RunStep \/ Environment

Spec == Init /\ [][Next]_vars

-----------------------------------------------------------------------------
\* A source the next incremental pass would skip has all its rows in the index
\* with their current text, except those that changed while the pass that
\* stamped it was reading, or that it skipped: the watermark is never ahead of
\* what was written, whatever was cancelled, failed, pruned, cleared or crashed.
SkippableIsIndexed ==
  \A s \in Source : ~HasChangesSince(s) =>
    \A k \in Key \ excused[s] : data[s][k] # NoText => entries[s][k] = data[s][k]

\* A row disappears only by Clear or when its source does not have it, has
\* changed it since the pass read it or could not read it: an interrupted or
\* failed pass never prunes rows it did not get to.
OnlyGoneRowsArePruned ==
  [][\A s \in Source, k \in Key :
       entries[s][k] # NoText /\ entries'[s][k] = NoText
         => data'[s][k] = NoText \/ k \in unseen[s] \/ run.pc = "idle"]_vars

\* Between runs the FTS table agrees with the rows, unless a crash or a failed
\* statement hit the latest run: cancelled runs, other processes that create
\* the triggers in the middle of a bulk pass and rows written before the
\* triggers came back all leave it right.
FtsRightBetweenRuns == run.pc = "idle" /\ ~ftsSuspect => FtsMatches /\ triggers

\* After a complete full pass the index holds nothing of the source that the
\* source does not have, except what it lost since it was read.
FullPassLeavesNoStaleRow ==
  [][\A s \in Source : run.pc = "stamp" /\ run.full /\ s \in run.src /\ meta'[s] # meta[s]
       => \A k \in Key \ unseen[s] : entries[s][k] = data[s][k]]_vars

\* The comment on indexSources and docs/spec.md: an incremental pass skips
\* only a source that has not changed since it was indexed.
SkippedIsUnchanged ==
  [][\A s \in Source : SkipSource(s) => unseen[s] = {}]_vars

\* docs/spec.md on full passes: they prune stale rows, so a row a source has
\* and has not changed is not one of them.  Checked without changes.
PrunedRowsAreStale ==
  [][\A s \in Source, k \in Key :
       Prune(s) /\ entries[s][k] # NoText /\ entries'[s][k] = NoText => data[s][k] = NoText]_vars
=============================================================================
