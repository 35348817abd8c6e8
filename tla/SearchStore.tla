----------------------------- MODULE SearchStore -----------------------------
(***************************************************************************)
(* search.db and the SearchStore handle of the process that indexes:       *)
(* search_entries, the external-content FTS table search_fts, the triggers *)
(* that keep the two together, and search_meta.  Each operator is one      *)
(* SQLite statement or transaction; the modules that extend this one say   *)
(* who executes it and when.                                               *)
(***************************************************************************)
EXTENDS Naturals, FiniteSets

CONSTANTS Source,   \* the sources that are indexed globally
          Key,      \* <<source_id, content_type>> pairs of a source
          Text,     \* what a row says
          NoText    \* no such row

ASSUME StoreAssumption == NoText \notin Text

VARIABLES entries,    \* search_entries: the text of each row
          fts,        \* search_fts: the texts each row can be found by
          triggers,   \* the three search_fts_* triggers exist
          meta,       \* search_meta.last_indexed in seconds, 0 when absent
          bulkFTS     \* SearchStore.bulkFTS of the indexing process

db == <<entries, fts, triggers, meta>>
storeVars == <<db, bulkFTS>>

StoreTypeOK ==
  /\ entries \in [Source -> [Key -> Text \cup {NoText}]]
  /\ fts \in [Source -> [Key -> SUBSET Text]]
  /\ triggers \in BOOLEAN
  /\ meta \in [Source -> Nat]
  /\ bulkFTS \in BOOLEAN

NoRows == [k \in Key |-> NoText]

StoreInit ==
  /\ entries = [s \in Source |-> NoRows]
  /\ fts = [s \in Source |-> [k \in Key |-> {}]]
  /\ triggers = TRUE
  /\ meta = [s \in Source |-> 0]
  /\ bulkFTS = FALSE

-----------------------------------------------------------------------------
\* FTS5's 'rebuild' command: every row is found by its own text and no other.
Rebuilt(rows) == [s \in Source |-> [k \in Key |-> {rows[s][k]} \ {NoText}]]

\* initSearchSchema / createSearchFTSTriggers: CREATE TRIGGER IF NOT EXISTS,
\* whatever another process is doing to the same database.
CreateTriggers == triggers' = TRUE /\ UNCHANGED <<entries, fts, meta>>

\* BeginBulkIndex.  A failing DROP TRIGGER may leave the triggers dropped or
\* not, and bulkFTS clear.
BeginBulkIndex ==
  /\ triggers' = (bulkFTS /\ triggers)
  /\ bulkFTS' = TRUE
  /\ UNCHANGED <<entries, fts, meta>>

BeginBulkIndexFails ==
  /\ ~bulkFTS
  /\ triggers' \in {triggers, FALSE}
  /\ UNCHANGED <<entries, fts, meta, bulkFTS>>

\* EndBulkIndex, first half: the triggers come back, the handle leaves bulk mode.
EndBulkTriggers == CreateTriggers /\ bulkFTS' = FALSE

\* Mutant of EndBulkRebuild: the triggers alone are taken to be enough.
EndBulkNoRebuild == UNCHANGED storeVars

\* EndBulkIndex, second half: search_fts is rebuilt from search_entries.
EndBulkRebuild == fts' = Rebuilt(entries) /\ UNCHANGED <<entries, triggers, meta, bulkFTS>>

\* Clear: all rows, the FTS table and the watermarks.
Clear ==
  /\ entries' = [s \in Source |-> NoRows]
  /\ fts' = Rebuilt(entries')
  /\ meta' = [s \in Source |-> 0]
  /\ UNCHANGED <<triggers, bulkFTS>>

\* The row of key k is gone and so is its rowid, which is never used again
\* (AUTOINCREMENT): whatever search_fts still holds for it joins with no row.
WithoutRows(gone, s) ==
  /\ entries' = [entries EXCEPT ![s] = [k \in Key |-> IF k \in gone THEN NoText ELSE @[k]]]
  /\ fts' = [fts EXCEPT ![s] = [k \in Key |-> IF k \in gone THEN {} ELSE @[k]]]

\* DeleteBySource and ClearSearchSource: the rows go, search_meta stays.
DeleteBySource(s) == WithoutRows(Key, s) /\ UNCHANGED <<triggers, meta, bulkFTS>>

\* PruneSourceKeys: one transaction that deletes the rows not in `keep`.
PruneSourceKeys(s, keep) == WithoutRows(Key \ keep, s) /\ UNCHANGED <<triggers, meta, bulkFTS>>

\* rebuildFTSIfNeeded: outside bulk mode, rows but an empty FTS table.
NeedsRebuild(f) == ~bulkFTS /\ \A s \in Source, k \in Key : f[s][k] = {}

\* IndexEntries on a batch of one row.  With the triggers an update removes
\* the tokens of the old text and adds those of the new one; without them the
\* row goes on being found by what search_fts held before.
IndexEntries(s, k, text) ==
  LET old == entries[s][k]
      hits == [fts EXCEPT ![s][k] = IF triggers THEN (@ \ {old}) \cup {text} ELSE @]
  IN /\ entries' = [entries EXCEPT ![s][k] = text]
     /\ fts' = IF NeedsRebuild(hits) THEN Rebuilt(entries') ELSE hits
     /\ UNCHANGED <<triggers, meta, bulkFTS>>

\* UpdateSourceTimestamp: RFC 3339 text, so whole seconds.
UpdateSourceTimestamp(s, second) ==
  /\ meta' = [meta EXCEPT ![s] = second]
  /\ UNCHANGED <<entries, fts, triggers, bulkFTS>>

\* The search table agrees with the rows it is to find.
FtsMatches == fts = Rebuilt(entries)
=============================================================================
