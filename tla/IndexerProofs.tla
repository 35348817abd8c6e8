----------------------------- MODULE IndexerProofs -----------------------------
(***************************************************************************)
(* Proofs about Indexer for any sources, keys, texts and bounds: the       *)
(* watermark is never ahead of what is indexed, a pass prunes only what    *)
(* the source does not have, and the FTS table is right between runs       *)
(* unless a crash or a failed statement hit it.                            *)
(***************************************************************************)
EXTENDS Indexer, FiniteSetTheorems, TLAPS

\* What the rest needs of types, and where the run's locals are in use.
Types ==
  /\ entries \in [Source -> [Key -> Text \cup {NoText}]]
  /\ data \in [Source -> [Key -> Text \cup {NoText}]]
  /\ now \in Nat /\ mtime \in [Source -> Nat] /\ meta \in [Source -> Nat]
  /\ \A s \in Source : meta[s] <= now
  /\ unseen \in [Source -> SUBSET Key] /\ excused \in [Source -> SUBSET Key]
  /\ ftsSuspect \in BOOLEAN /\ bulkFTS \in BOOLEAN /\ triggers \in BOOLEAN
  /\ run \in Run /\ enabled \subseteq Source
RunOK ==
  /\ run.src # {} => run.pc \in {"emit", "write", "prune", "stamp"}
  /\ \A s, t \in run.src : s = t
  /\ run.pc \in {"prune", "stamp"} => run.left = {}
  /\ run.pc # "write" => run.batch = {}
  /\ \A b, c \in run.batch : b = c

\* A source that is not to be read again has only changed where the pass that stamped it
\* did not see it, and has the rest in the index.
StampedIsIndexed ==
  \A s \in Source : meta[s] > mtime[s] =>
    /\ unseen[s] \subseteq excused[s]
    /\ \A k \in Key \ excused[s] : data[s][k] # NoText => entries[s][k] = data[s][k]

\* What a pass has read and has not changed since is in its batch or in the index, and it has
\* collected the key.
VisitIsTrue ==
  \A s \in run.src :
    /\ \A k \in Key : k \notin run.left /\ k \notin unseen[s] /\ data[s][k] # NoText =>
         \/ <<k, data[s][k]>> \in run.batch
         \/ k \in run.keys /\ entries[s][k] = data[s][k]
    /\ \A k \in run.keys : k \notin run.left /\ (k \in unseen[s] \/ data[s][k] # NoText)
    /\ \A b \in run.batch : b[1] \notin run.left /\ (b[1] \in unseen[s] \/ b[2] = data[s][b[1]])

\* Before a full pass stamps a source it has pruned it.
StampIsPruned ==
  run.pc = "stamp" /\ run.full = TRUE =>
    \A s \in run.src : \A k \in Key \ run.keys : entries[s][k] = NoText

\* Where the FTS table and the triggers are as they should, or will be made so.
FtsIsKept ==
  /\ ftsSuspect = FALSE /\ run.pc \in {"idle", "reconcile"} =>
       FtsMatches /\ triggers = TRUE /\ bulkFTS = FALSE
  /\ ftsSuspect = FALSE /\ run.pc \notin {"idle", "reconcile", "rebuild"} =>
       run.bulk = TRUE /\ bulkFTS = TRUE
  /\ run.pc = "rebuild" => triggers = TRUE /\ bulkFTS = FALSE

PassInv == StampedIsIndexed /\ VisitIsTrue /\ StampIsPruned
PassOK == Types /\ RunOK /\ PassInv
IInv == PassOK /\ FtsIsKept

-----------------------------------------------------------------------------
(* Statements of the store.                                                *)

\* Deleting rows leaves those that are not deleted.
LEMMA RowsGone ==
  ASSUME Types, NEW s \in Source, NEW gone \in SUBSET Key, WithoutRows(gone, s)
  PROVE  /\ entries' \in [Source -> [Key -> Text \cup {NoText}]]
         /\ \A t \in Source \ {s} : entries'[t] = entries[t]
         /\ \A k \in Key : entries'[s][k] = IF k \in gone THEN NoText ELSE entries[s][k]
<1>. DEFINE rows == [k \in Key |-> IF k \in gone THEN NoText ELSE entries[s][k]]
<1>1. entries' = [entries EXCEPT ![s] = rows]
  BY DEF WithoutRows
<1>2. entries[s] \in [Key -> Text \cup {NoText}]
  BY DEF Types
<1>3. rows \in [Key -> Text \cup {NoText}]
  BY <1>2
<1>4. entries'[s] = rows /\ \A t \in Source \ {s} : entries'[t] = entries[t]
  BY <1>1 DEF Types
<1>5. \A k \in Key : rows[k] = IF k \in gone THEN NoText ELSE entries[s][k]
  OBVIOUS
<1>6. entries' \in [Source -> [Key -> Text \cup {NoText}]]
  BY <1>1, <1>3 DEF Types
<1>. QED  BY <1>4, <1>5, <1>6

\* Rows are found by their texts before a deletion as after it.
LEMMA GoneRowsAreNotFound ==
  ASSUME Types, NEW s \in Source, NEW gone \in SUBSET Key, WithoutRows(gone, s), FtsMatches
  PROVE  FtsMatches'
<1>1. fts' = [fts EXCEPT ![s] = [k \in Key |-> IF k \in gone THEN {} ELSE fts[s][k]]]
  BY DEF WithoutRows
<1>2. fts = Rebuilt(entries)
  BY DEF FtsMatches
<1>3. \A t \in Source, k \in Key :
        fts'[t][k] = IF t = s /\ k \in gone THEN {} ELSE {entries[t][k]} \ {NoText}
  BY <1>1, <1>2 DEF Rebuilt
<1>4. \A t \in Source, k \in Key : fts'[t][k] = {entries'[t][k]} \ {NoText}
  <2>1. /\ \A t \in Source \ {s} : entries'[t] = entries[t]
        /\ \A k \in Key : entries'[s][k] = IF k \in gone THEN NoText ELSE entries[s][k]
    BY RowsGone
  <2>2. \A k \in Key : fts'[s][k] = {entries'[s][k]} \ {NoText}
    BY <1>3, <2>1
  <2>3. \A t \in Source \ {s}, k \in Key : fts'[t][k] = {entries'[t][k]} \ {NoText}
    BY <1>3, <2>1
  <2>. QED  BY <2>2, <2>3
<1>5. fts' = [t \in Source |-> [k \in Key |-> fts'[t][k]]]
  BY <1>1, <1>2 DEF Rebuilt
<1>6. fts' = [t \in Source |-> [k \in Key |-> {entries'[t][k]} \ {NoText}]]
  BY <1>4, <1>5
<1>. QED  BY <1>6 DEF FtsMatches, Rebuilt

\* A batch writes its row and no other.
LEMMA RowWritten ==
  ASSUME Types, NEW s \in Source, NEW k \in Key, NEW text \in Text, IndexEntries(s, k, text)
  PROVE  /\ entries' \in [Source -> [Key -> Text \cup {NoText}]]
         /\ entries'[s][k] = text
         /\ \A t \in Source, j \in Key : t # s \/ j # k => entries'[t][j] = entries[t][j]
         /\ UNCHANGED <<triggers, meta, bulkFTS>>
BY DEF Types, IndexEntries

\* Clear leaves no row and no watermark.
LEMMA Cleared ==
  ASSUME Types, Clear
  PROVE  /\ entries' \in [Source -> [Key -> Text \cup {NoText}]]
         /\ meta' \in [Source -> Nat] /\ (\A s \in Source : meta'[s] = 0)
         /\ FtsMatches' /\ UNCHANGED <<triggers, bulkFTS>>
BY DEF Types, Clear, NoRows, FtsMatches

-----------------------------------------------------------------------------
(* Types.                                                                  *)

\* Wherever a source is left the run holds nothing of it.
LEMMA LeaveIsClean ==
  ASSUME run \in Run, NEW s \in Source
  PROVE  /\ Leave(s) \in Run /\ Leave(s).pc = "sources" /\ Leave(s).src = {}
         /\ Leave(s).batch = {} /\ Leave(s).bulk = run.bulk
BY DEF Leave, Run

\* So does a run that is given up.
LEMMA AbandonIsClean ==
  ASSUME run \in Run
  PROVE  /\ Abandon \in Run /\ Abandon.pc = "end" /\ Abandon.src = {}
         /\ Abandon.batch = {} /\ Abandon.bulk = run.bulk
BY DEF Abandon, Run

\* And one that is over.
LEMMA NoRunIsClean ==
  NoRun \in Run /\ NoRun.pc = "idle" /\ NoRun.src = {} /\ NoRun.batch = {}
BY DEF NoRun, Run

\* A run that visits no source says nothing of one.
LEMMA NoVisit == run.src = {} => VisitIsTrue /\ StampIsPruned
BY DEF VisitIsTrue, StampIsPruned

\* Whoever leaves the rows, the sources and the watermarks alone leaves what is indexed alone.
LEMMA NothingChanges ==
  ASSUME StampedIsIndexed, UNCHANGED <<entries, meta, data, mtime, unseen, excused>>
  PROVE  StampedIsIndexed'
BY DEF StampedIsIndexed

-----------------------------------------------------------------------------
(* The pass.                                                               *)

\* The read of a batch: what is read is handed on, and no longer unseen.
LEMMA ReadKeepsInv ==
  ASSUME Types, RunOK, PassInv, NEW s \in Source, NEW k \in Key, ReadBatch(s, k)
  PROVE  run' \in Run /\ unseen' \in [Source -> SUBSET Key] /\ RunOK' /\ PassInv'
<1>. DEFINE batch == IF data[s][k] = NoText THEN {} ELSE {<<k, data[s][k]>>}
<1>1. run.pc = "emit" /\ run.src = {s} /\ k \in run.left /\ run.batch = {}
  BY DEF ReadBatch, RunOK, Types, Run
<1>2. data[s][k] \in Text \cup {NoText}
  BY DEF Types
<1>3. run' \in Run
  <2>1. CASE data[s][k] = NoText
    <3>1. run' = [run EXCEPT !.left = run.left \ {k}]
      BY <2>1 DEF ReadBatch
    <3>. QED  BY <3>1 DEF Types, Run
  <2>2. CASE data[s][k] # NoText
    <3>. DEFINE read == {<<k, data[s][k]>>}
    <3>1. read \in SUBSET (Key \X Text)
      BY <1>2, <2>2
    <3>2. run' = [run EXCEPT !.left = run.left \ {k}, !.pc = "write", !.batch = read]
      BY <2>2 DEF ReadBatch
    <3>. HIDE DEF read
    <3>. QED  BY <3>1, <3>2 DEF Types, Run
  <2>. QED  BY <2>1, <2>2
<1>4. /\ run'.src = {s} /\ run'.left = run.left \ {k} /\ run'.keys = run.keys
      /\ run'.batch = batch /\ run'.pc = IF data[s][k] = NoText THEN "emit" ELSE "write"
  BY <1>1 DEF ReadBatch, Types, Run
<1>5. unseen' = [unseen EXCEPT ![s] = unseen[s] \ {k}] /\ UNCHANGED <<entries, meta, data, mtime, excused>>
  BY DEF ReadBatch, storeVars, db
<1>6. /\ unseen' \in [Source -> SUBSET Key] /\ unseen'[s] = unseen[s] \ {k}
      /\ \A t \in Source \ {s} : unseen'[t] = unseen[t]
  BY <1>5 DEF Types
<1>7. RunOK'
  BY <1>1, <1>4 DEF RunOK
<1>8. StampedIsIndexed'
  BY <1>5, <1>6 DEF PassInv, StampedIsIndexed
<1>9. VisitIsTrue'
  <2>1. \A j \in Key : j \notin run'.left /\ j \notin unseen'[s] /\ data[s][j] # NoText =>
          <<j, data[s][j]>> \in run'.batch \/ (j \in run'.keys /\ entries[s][j] = data[s][j])
    BY <1>1, <1>4, <1>6 DEF PassInv, VisitIsTrue
  <2>2. \A j \in run'.keys : j \notin run'.left /\ (j \in unseen'[s] \/ data[s][j] # NoText)
    BY <1>1, <1>4, <1>6 DEF PassInv, VisitIsTrue
  <2>3. \A b \in run'.batch : b[1] \notin run'.left /\ (b[1] \in unseen'[s] \/ b[2] = data[s][b[1]])
    BY <1>4
  <2>. QED  BY <1>4, <1>5, <2>1, <2>2, <2>3 DEF VisitIsTrue
<1>10. StampIsPruned'
  BY <1>4 DEF StampIsPruned
<1>. QED  BY <1>3, <1>6, <1>7, <1>8, <1>9, <1>10 DEF PassInv

\* What is skipped is unseen, and excused.
LEMMA SkipKeepsInv ==
  ASSUME Types, RunOK, PassInv, NEW s \in Source, NEW k \in Key, SkipUnreadable(s, k)
  PROVE  /\ run' \in Run /\ unseen' \in [Source -> SUBSET Key]
         /\ excused' \in [Source -> SUBSET Key] /\ RunOK' /\ PassInv'
<1>1. run.pc = "emit" /\ run.src = {s} /\ k \in run.left /\ run.batch = {}
  BY DEF SkipUnreadable, RunOK, Types, Run
<1>2. run' \in Run
  BY DEF SkipUnreadable, Types, Run
<1>3. /\ run'.src = {s} /\ run'.left = run.left \ {k} /\ run'.keys = run.keys
      /\ run'.batch = {} /\ run'.pc = "emit"
  BY <1>1 DEF SkipUnreadable, Types, Run
<1>4. /\ unseen' = [unseen EXCEPT ![s] = unseen[s] \cup {k}]
      /\ excused' = [excused EXCEPT ![s] = excused[s] \cup {k}]
      /\ UNCHANGED <<entries, meta, data, mtime>>
  BY DEF SkipUnreadable, storeVars, db
<1>5. /\ unseen' \in [Source -> SUBSET Key] /\ unseen'[s] = unseen[s] \cup {k}
      /\ excused' \in [Source -> SUBSET Key] /\ excused'[s] = excused[s] \cup {k}
      /\ \A t \in Source \ {s} : unseen'[t] = unseen[t] /\ excused'[t] = excused[t]
  BY <1>4 DEF Types
<1>6. RunOK'
  BY <1>1, <1>3 DEF RunOK
<1>7. StampedIsIndexed'
  BY <1>4, <1>5 DEF PassInv, StampedIsIndexed
<1>8. VisitIsTrue'
  BY <1>1, <1>3, <1>4, <1>5 DEF PassInv, VisitIsTrue
<1>9. StampIsPruned'
  BY <1>3 DEF StampIsPruned
<1>. QED  BY <1>2, <1>5, <1>6, <1>7, <1>8, <1>9 DEF PassInv

\* The batch gets into the index as it was read.
LEMMA WriteKeepsInv ==
  ASSUME Types, RunOK, PassInv, NEW s \in Source, WriteBatch(s), ~run.canceled
  PROVE  /\ run' \in Run /\ entries' \in [Source -> [Key -> Text \cup {NoText}]]
         /\ RunOK' /\ PassInv' /\ UNCHANGED <<triggers, meta, bulkFTS>>
         /\ run'.pc = "emit" /\ run'.bulk = run.bulk
<1>1. run.pc = "write" /\ run.src = {s}
  BY DEF WriteBatch, RunOK, Types, Run
<1>2. PICK b \in run.batch :
        /\ IndexEntries(s, b[1], b[2])
        /\ run' = [run EXCEPT !.pc = "emit", !.batch = {}, !.keys = run.keys \cup {b[1]}]
  BY DEF WriteBatch
<1>3. b \in Key \X Text
  BY <1>2 DEF Types, Run
<1>. DEFINE k == b[1]  text == b[2]
<1>4. k \in Key /\ text \in Text /\ b = <<k, text>>
  BY <1>3
<1>5. run' \in Run
  BY <1>2, <1>4 DEF Types, Run
<1>6. /\ run'.src = {s} /\ run'.left = run.left /\ run'.keys = run.keys \cup {k}
      /\ run'.batch = {} /\ run'.pc = "emit" /\ run'.bulk = run.bulk
  BY <1>1, <1>2 DEF Types, Run
<1>7. /\ entries' \in [Source -> [Key -> Text \cup {NoText}]] /\ entries'[s][k] = text
      /\ \A t \in Source, j \in Key : t # s \/ j # k => entries'[t][j] = entries[t][j]
      /\ UNCHANGED <<triggers, meta, bulkFTS>>
  BY <1>2, <1>4, RowWritten
<1>8. UNCHANGED <<data, mtime, unseen, excused>>
  BY DEF WriteBatch, sourceVars
<1>9. k \in unseen[s] \/ text = data[s][k]
  BY <1>1, <1>2 DEF PassInv, VisitIsTrue
<1>10. k \notin run.left
  BY <1>1, <1>2 DEF PassInv, VisitIsTrue
<1>11. RunOK'
  BY <1>6 DEF RunOK
<1>12. StampedIsIndexed'
  BY <1>7, <1>8, <1>9 DEF PassInv, StampedIsIndexed
<1>13. VisitIsTrue'
  <2>1. ASSUME NEW j \in Key, j \notin run.left, j \notin unseen[s], data[s][j] # NoText
        PROVE  j \in run'.keys /\ entries'[s][j] = data[s][j]
    <3>1. CASE j = k
      BY <1>6, <1>7, <1>9, <2>1, <3>1
    <3>2. CASE j # k
      <4>1. <<j, data[s][j]>> \in run.batch \/ (j \in run.keys /\ entries[s][j] = data[s][j])
        BY <1>1, <2>1 DEF PassInv, VisitIsTrue
      <4>2. <<j, data[s][j]>> \notin run.batch
        BY <1>2, <1>4, <3>2 DEF RunOK
      <4>. QED  BY <1>6, <1>7, <3>2, <4>1, <4>2
    <3>. QED  BY <3>1, <3>2
  <2>2. \A j \in run'.keys : j \notin run'.left /\ (j \in unseen[s] \/ data[s][j] # NoText)
    <3>1. text # NoText
      BY <1>4, StoreAssumption
    <3>. QED  BY <1>1, <1>6, <1>9, <1>10, <3>1 DEF PassInv, VisitIsTrue
  <2>. QED  BY <1>6, <1>8, <2>1, <2>2 DEF VisitIsTrue
<1>14. StampIsPruned'
  BY <1>6 DEF StampIsPruned
<1>. QED  BY <1>5, <1>6, <1>7, <1>11, <1>12, <1>13, <1>14 DEF PassInv

\* The end of the stream: what is left of the stream is nothing.
LEMMA StreamDoneKeepsInv ==
  ASSUME PassOK, NEW s \in Source, StreamDone(s)
  PROVE  PassOK'
<1>. USE DEF PassOK
<1>1. run.pc = "emit" /\ run.src = {s} /\ run.left = {} /\ run.batch = {}
  BY DEF StreamDone, RunOK, Types, Run
<1>2. /\ run' \in Run /\ run'.src = {s} /\ run'.left = {} /\ run'.keys = run.keys
      /\ run'.batch = {} /\ run'.full = run.full
      /\ run'.pc \in {"prune", "stamp"} /\ (run.full = TRUE => run'.pc = "prune")
  BY <1>1 DEF StreamDone, Types, Run
<1>3. UNCHANGED <<entries, fts, triggers, meta, bulkFTS, sourceVars, now, ftsSuspect>>
  BY DEF StreamDone, storeVars, db
<1>4. Types'
  BY <1>2, <1>3 DEF Types, sourceVars
<1>5. RunOK'
  BY <1>2 DEF RunOK
<1>6. StampedIsIndexed'
  BY <1>3, NothingChanges DEF PassInv, sourceVars
<1>7. VisitIsTrue'
  BY <1>1, <1>2, <1>3 DEF PassInv, VisitIsTrue, sourceVars
<1>8. StampIsPruned'
  BY <1>2 DEF StampIsPruned
<1>. QED  BY <1>4, <1>5, <1>6, <1>7, <1>8 DEF PassInv

\* The prune: rows of other keys than those collected are those the source does not have,
\* has changed since they were read, or could not be read.
LEMMA PruneKeepsInv ==
  ASSUME PassOK, NEW s \in Source, run.pc = "prune", s \in run.src,
         PruneSourceKeys(s, run.keys), run' = [run EXCEPT !.pc = "stamp"],
         UNCHANGED <<sourceVars, now, ftsSuspect>>
  PROVE  PassOK'
<1>. USE DEF PassOK
<1>1. run.src = {s} /\ run.left = {} /\ run.batch = {}
  BY DEF RunOK, Types, Run
<1>2. /\ run' \in Run /\ run'.src = {s} /\ run'.left = {} /\ run'.keys = run.keys
      /\ run'.batch = {} /\ run'.full = run.full /\ run'.pc = "stamp"
  BY <1>1 DEF Types, Run
<1>3. /\ entries' \in [Source -> [Key -> Text \cup {NoText}]]
      /\ \A t \in Source \ {s} : entries'[t] = entries[t]
      /\ \A k \in Key : entries'[s][k] = IF k \in Key \ run.keys THEN NoText ELSE entries[s][k]
  <2>1. WithoutRows(Key \ run.keys, s)
    BY DEF PruneSourceKeys
  <2>2. Key \ run.keys \in SUBSET Key
    OBVIOUS
  <2>. QED  BY <2>1, <2>2, RowsGone
<1>4. UNCHANGED <<triggers, meta, bulkFTS>>
  BY DEF PruneSourceKeys
<1>5. \A k \in Key \ run.keys : k \in unseen[s] \/ data[s][k] = NoText
  BY <1>1 DEF PassInv, VisitIsTrue
<1>6. Types'
  BY <1>2, <1>3, <1>4 DEF Types, sourceVars
<1>7. RunOK'
  BY <1>2 DEF RunOK
<1>8. StampedIsIndexed'
  BY <1>3, <1>4, <1>5 DEF PassInv, StampedIsIndexed, sourceVars
<1>9. VisitIsTrue'
  BY <1>1, <1>2, <1>3, <1>5 DEF PassInv, VisitIsTrue, sourceVars
<1>10. StampIsPruned'
  BY <1>2, <1>3 DEF StampIsPruned
<1>. QED  BY <1>6, <1>7, <1>8, <1>9, <1>10 DEF PassInv

\* The stamp: everything has been read, and is indexed or has changed since.
LEMMA StampKeepsInv ==
  ASSUME PassOK, NEW s \in Source, Stamp(s)
  PROVE  PassOK'
<1>. USE DEF PassOK
<1>1. run.pc = "stamp" /\ run.src = {s} /\ run.left = {} /\ run.batch = {}
  BY DEF Stamp, RunOK, Types, Run
<1>2. run' \in Run /\ run'.pc = "sources" /\ run'.src = {} /\ run'.batch = {}
  BY LeaveIsClean DEF Stamp, Types
<1>3. meta' = [meta EXCEPT ![s] = now] /\ UNCHANGED <<entries, fts, triggers, bulkFTS>>
  BY DEF Stamp, UpdateSourceTimestamp
<1>4. excused' = [excused EXCEPT ![s] = unseen[s]]
      /\ UNCHANGED <<data, mtime, unseen, enabled, changes, now, ftsSuspect>>
  BY DEF Stamp
<1>5. Types'
  BY <1>2, <1>3, <1>4 DEF Types
<1>6. RunOK'
  BY <1>2 DEF RunOK
<1>7. \A k \in Key \ unseen[s] : data[s][k] # NoText => entries[s][k] = data[s][k]
  BY <1>1 DEF PassInv, VisitIsTrue
<1>8. /\ excused'[s] = unseen[s]
      /\ \A t \in Source \ {s} : excused'[t] = excused[t] /\ meta'[t] = meta[t]
  BY <1>3, <1>4 DEF Types
<1>9. StampedIsIndexed'
  BY <1>3, <1>4, <1>7, <1>8 DEF PassInv, StampedIsIndexed
<1>10. VisitIsTrue' /\ StampIsPruned'
  BY <1>2 DEF VisitIsTrue, StampIsPruned
<1>. QED  BY <1>5, <1>6, <1>9, <1>10 DEF PassInv

\* A source that changes is to be read again, and a row that changed was not seen.
LEMMA ChangeKeepsInv ==
  ASSUME PassOK, NEW s \in Source, NEW k \in Key, NEW text \in Text \cup {NoText},
         SourceChanges(s, k, text)
  PROVE  PassOK'
<1>. USE DEF PassOK
<1>1. /\ data' = [data EXCEPT ![s] = [data[s] EXCEPT ![k] = text]]
      /\ mtime' = [mtime EXCEPT ![s] = now]
      /\ unseen' = [unseen EXCEPT ![s] = unseen[s] \cup {k}]
      /\ UNCHANGED <<entries, fts, triggers, meta, bulkFTS, excused, enabled, now, run, ftsSuspect>>
  BY DEF SourceChanges, storeVars, db
<1>2. data[s] \in [Key -> Text \cup {NoText}]
  BY DEF Types
<1>3. [data[s] EXCEPT ![k] = text] \in [Key -> Text \cup {NoText}]
  BY <1>2
<1>4. Types'
  BY <1>1, <1>3 DEF Types
<1>5. RunOK'
  BY <1>1 DEF RunOK
<1>6. /\ mtime'[s] = now /\ unseen'[s] = unseen[s] \cup {k}
      /\ \A j \in Key \ {k} : data'[s][j] = data[s][j]
      /\ \A t \in Source \ {s} :
           data'[t] = data[t] /\ mtime'[t] = mtime[t] /\ unseen'[t] = unseen[t]
  BY <1>1, <1>2 DEF Types
<1>7. StampedIsIndexed'
  <2>1. ~(meta[s] > now)
    BY DEF Types
  <2>. QED  BY <1>1, <1>6, <2>1 DEF PassInv, StampedIsIndexed
<1>8. VisitIsTrue'
  <2>1. \A t \in run.src : t \in Source
    BY DEF Types, Run
  <2>2. \A b \in run.batch : b[1] \in Key
    BY DEF Types, Run
  <2>3. run.keys \subseteq Key
    BY DEF Types, Run
  <2>. QED  BY <1>1, <1>6, <2>1, <2>2, <2>3 DEF PassInv, VisitIsTrue
<1>9. StampIsPruned'
  BY <1>1 DEF PassInv, StampIsPruned
<1>. QED  BY <1>4, <1>5, <1>7, <1>8, <1>9 DEF PassInv

\* A reset is a change of every row there is, and deletes them.
LEMMA ResetKeepsInv ==
  ASSUME PassOK, NEW s \in Source, ResetSource(s)
  PROVE  PassOK'
<1>. USE DEF PassOK
<1>1. /\ entries' \in [Source -> [Key -> Text \cup {NoText}]]
      /\ \A t \in Source \ {s} : entries'[t] = entries[t]
      /\ \A k \in Key : entries'[s][k] = NoText
  <2>1. WithoutRows(Key, s) /\ Key \in SUBSET Key
    BY DEF ResetSource, DeleteBySource
  <2>. QED  BY <2>1, RowsGone
<1>. DEFINE seen == {k \in Key : data[s][k] # NoText}
<1>2. /\ data' = [data EXCEPT ![s] = NoRows] /\ mtime' = [mtime EXCEPT ![s] = now]
      /\ unseen' = [unseen EXCEPT ![s] = unseen[s] \cup seen]
      /\ enabled' = enabled \ {s}
      /\ UNCHANGED <<triggers, meta, bulkFTS, excused, now, run, ftsSuspect>>
  BY DEF ResetSource, DeleteBySource
<1>3. NoRows \in [Key -> Text \cup {NoText}] /\ \A k \in Key : NoRows[k] = NoText
  BY DEF NoRows
<1>4. Types'
  BY <1>1, <1>2, <1>3 DEF Types
<1>5. RunOK'
  BY <1>2 DEF RunOK
<1>6. /\ mtime'[s] = now /\ unseen'[s] = unseen[s] \cup seen /\ data'[s] = NoRows
      /\ \A t \in Source \ {s} :
           data'[t] = data[t] /\ mtime'[t] = mtime[t] /\ unseen'[t] = unseen[t]
  BY <1>2 DEF Types
<1>7. StampedIsIndexed'
  <2>1. ~(meta[s] > now)
    BY DEF Types
  <2>. QED  BY <1>1, <1>2, <1>6, <2>1 DEF PassInv, StampedIsIndexed
<1>8. VisitIsTrue'
  <2>1. run.src \subseteq Source /\ run.keys \subseteq Key /\ run.batch \subseteq Key \X Text
    BY DEF Types, Run
  <2>. SUFFICES ASSUME NEW t \in run.src
       PROVE  /\ \A k \in Key : k \notin run.left /\ k \notin unseen'[t] /\ data'[t][k] # NoText =>
                   <<k, data'[t][k]>> \in run.batch \/ (k \in run.keys /\ entries'[t][k] = data'[t][k])
              /\ \A k \in run.keys : k \notin run.left /\ (k \in unseen'[t] \/ data'[t][k] # NoText)
              /\ \A b \in run.batch :
                   b[1] \notin run.left /\ (b[1] \in unseen'[t] \/ b[2] = data'[t][b[1]])
    BY <1>2 DEF VisitIsTrue
  <2>2. CASE t # s
    BY <1>1, <1>6, <2>1, <2>2 DEF PassInv, VisitIsTrue
  <2>3. CASE t = s
    <3>1. \A k \in Key : data'[s][k] = NoText
      BY <1>3, <1>6
    <3>2. \A k \in run.keys : k \notin run.left /\ k \in unseen'[s]
      BY <1>6, <2>1, <2>3 DEF PassInv, VisitIsTrue
    <3>3. \A b \in run.batch : b[1] \in Key /\ b[2] # NoText
      BY <2>1, StoreAssumption
    <3>4. \A b \in run.batch : b[1] \notin run.left /\ b[1] \in unseen'[s]
      BY <1>6, <2>3, <3>3 DEF PassInv, VisitIsTrue
    <3>. QED  BY <2>3, <3>1, <3>2, <3>4
  <2>. QED  BY <2>2, <2>3
<1>9. StampIsPruned'
  <2>1. run.src \subseteq Source
    BY DEF Types, Run
  <2>. QED  BY <1>1, <1>2, <2>1 DEF PassInv, StampIsPruned
<1>. QED  BY <1>4, <1>5, <1>7, <1>8, <1>9 DEF PassInv

\* A step that touches neither rows nor sources nor watermarks and leaves no source to visit,
\* or the visit as it is.
LEMMA ElsewhereKeepsInv ==
  ASSUME PassOK, UNCHANGED <<entries, meta, data, mtime, unseen, excused>>,
         now' \in Nat, now' >= now,
         enabled' \subseteq Source, ftsSuspect' \in BOOLEAN, bulkFTS' \in BOOLEAN,
         triggers' \in BOOLEAN, run' \in Run,
         \/ run'.src = {} /\ run'.batch = {} /\ run'.pc \notin {"prune", "stamp"}
         \/ /\ run'.src = run.src /\ run'.batch = run.batch /\ run'.left = run.left
            /\ run'.keys = run.keys /\ run'.pc = run.pc /\ run'.full = run.full
  PROVE  PassOK'
<1>. USE DEF PassOK
<1>1. Types'
  BY DEF Types
<1>2. StampedIsIndexed'
  BY NothingChanges DEF PassInv
<1>3. RunOK' /\ VisitIsTrue' /\ StampIsPruned'
  <2>1. CASE run'.src = {} /\ run'.batch = {} /\ run'.pc \notin {"prune", "stamp"}
    BY <2>1 DEF RunOK, VisitIsTrue, StampIsPruned
  <2>2. CASE /\ run'.src = run.src /\ run'.batch = run.batch /\ run'.left = run.left
             /\ run'.keys = run.keys /\ run'.pc = run.pc /\ run'.full = run.full
    BY <2>2 DEF RunOK, VisitIsTrue, StampIsPruned, PassInv
  <2>. QED  BY <2>1, <2>2
<1>. QED  BY <1>1, <1>2, <1>3 DEF PassInv

\* A run that starts has no source, and an index that was cleared no watermark.
LEMMA StartKeepsInv ==
  ASSUME PassOK, NEW clear \in BOOLEAN, NEW full \in BOOLEAN, StartRun(clear, full)
  PROVE  PassOK'
<1>1. run.src = {} /\ run.batch = {} /\ run.pc = "idle"
  BY DEF StartRun, PassOK, RunOK
<1>2. run' \in Run /\ run'.src = {} /\ run'.batch = {} /\ run'.pc \in {"idle", "reconcile"}
  BY <1>1 DEF StartRun, NoRun, Run, PassOK, Types
<1>3. UNCHANGED <<sourceVars, now, ftsSuspect>>
  BY DEF StartRun
<1>4. CASE UNCHANGED storeVars
  BY <1>2, <1>3, <1>4, ElsewhereKeepsInv DEF storeVars, db, sourceVars, PassOK, Types
<1>5. CASE Clear
  <2>1. /\ entries' \in [Source -> [Key -> Text \cup {NoText}]]
        /\ meta' \in [Source -> Nat] /\ (\A s \in Source : meta'[s] = 0)
        /\ UNCHANGED <<triggers, bulkFTS>>
    BY <1>5, Cleared DEF PassOK
  <2>2. Types'
    BY <1>2, <1>3, <2>1 DEF PassOK, Types, sourceVars
  <2>3. RunOK' /\ VisitIsTrue' /\ StampIsPruned'
    BY <1>2 DEF RunOK, VisitIsTrue, StampIsPruned
  <2>4. StampedIsIndexed'
    BY <1>3, <2>1 DEF PassOK, Types, StampedIsIndexed, sourceVars
  <2>. QED  BY <2>2, <2>3, <2>4 DEF PassOK, PassInv
<1>. QED  BY <1>4, <1>5 DEF StartRun

\* Every step keeps what is said of passes.
LEMMA NextKeepsPass == PassOK /\ [Next]_vars => PassOK'
<1>. SUFFICES ASSUME PassOK, [Next]_vars PROVE PassOK'
  OBVIOUS
<1>1. /\ run \in Run /\ now \in Nat /\ enabled \subseteq Source
      /\ ftsSuspect \in BOOLEAN /\ bulkFTS \in BOOLEAN /\ triggers \in BOOLEAN
  BY DEF PassOK, Types
<1>2. CASE Reconcile
  <2>1. /\ run' \in Run /\ run'.src = run.src /\ run'.batch = run.batch /\ run'.pc = "sources"
    BY <1>1, <1>2 DEF Reconcile, Run
  <2>2. run.src = {} /\ run.batch = {}
    BY <1>2 DEF Reconcile, PassOK, RunOK
  <2>3. bulkFTS' \in BOOLEAN /\ triggers' \in BOOLEAN /\ ftsSuspect' \in BOOLEAN
        /\ UNCHANGED <<entries, meta, sourceVars, now>>
    BY <1>1, <1>2 DEF Reconcile, BeginBulkIndex, BeginBulkIndexFails
  <2>. QED  BY <1>1, <2>1, <2>2, <2>3, ElsewhereKeepsInv DEF sourceVars
<1>3. ASSUME NEW s \in Source, EnterSource(s) PROVE PassOK'
  <2>1. /\ run' \in Run /\ run'.pc = "emit" /\ run'.src = {s} /\ run'.left = Key
        /\ run'.keys = {} /\ run'.batch = run.batch
    BY <1>1, <1>3 DEF EnterSource, Run
  <2>2. run.batch = {}
    BY <1>3 DEF EnterSource, PassOK, RunOK
  <2>3. UNCHANGED <<entries, fts, triggers, meta, bulkFTS, sourceVars, now, ftsSuspect>>
    BY <1>3 DEF EnterSource, storeVars, db
  <2>4. Types' /\ StampedIsIndexed'
    BY <2>1, <2>3, NothingChanges DEF PassOK, PassInv, Types, sourceVars
  <2>5. RunOK' /\ StampIsPruned'
    BY <2>1, <2>2 DEF RunOK, StampIsPruned
  <2>6. VisitIsTrue'
    BY <2>1, <2>2 DEF VisitIsTrue
  <2>. QED  BY <2>4, <2>5, <2>6 DEF PassOK, PassInv
<1>4. ASSUME NEW s \in Source, run' = Leave(s) \/ run' = Abandon \/ run' = NoRun,
             UNCHANGED <<entries, meta, sourceVars, now>>,
             ftsSuspect' \in BOOLEAN, bulkFTS' \in BOOLEAN, triggers' \in BOOLEAN
      PROVE  PassOK'
  <2>1. run' \in Run /\ run'.src = {} /\ run'.batch = {} /\ run'.pc \in {"sources", "end", "idle"}
    BY <1>1, <1>4, LeaveIsClean, AbandonIsClean, NoRunIsClean
  <2>. QED  BY <1>1, <1>4, <2>1, ElsewhereKeepsInv DEF sourceVars
<1>5. ASSUME run' = Abandon \/ run' = NoRun, UNCHANGED <<entries, meta, sourceVars, now>>,
             ftsSuspect' \in BOOLEAN, bulkFTS' \in BOOLEAN, triggers' \in BOOLEAN
      PROVE  PassOK'
  <2>1. run' \in Run /\ run'.src = {} /\ run'.batch = {} /\ run'.pc \in {"end", "idle"}
    BY <1>1, <1>5, AbandonIsClean, NoRunIsClean
  <2>. QED  BY <1>1, <1>5, <2>1, ElsewhereKeepsInv DEF sourceVars
<1>6. ASSUME NEW s \in Source, SkipSource(s) \/ BatchFails(s) PROVE PassOK'
  BY <1>1, <1>4, <1>6 DEF SkipSource, BatchFails, storeVars, db
<1>7. ASSUME NEW s \in Source, WriteBatch(s) PROVE PassOK'
  <2>1. CASE run.canceled
    BY <1>1, <1>4, <1>7, <2>1 DEF WriteBatch, storeVars, db
  <2>2. CASE ~run.canceled
    <3>1. /\ run' \in Run /\ entries' \in [Source -> [Key -> Text \cup {NoText}]]
          /\ RunOK' /\ PassInv' /\ UNCHANGED <<triggers, meta, bulkFTS>>
      BY <1>7, <2>2, WriteKeepsInv DEF PassOK
    <3>2. UNCHANGED <<sourceVars, now, ftsSuspect>>
      BY <1>7 DEF WriteBatch
    <3>. QED  BY <3>1, <3>2 DEF PassOK, Types, sourceVars
  <2>. QED  BY <2>1, <2>2
<1>8. ASSUME NEW s \in Source, NEW k \in Key, ReadBatch(s, k) PROVE PassOK'
  <2>1. run' \in Run /\ unseen' \in [Source -> SUBSET Key] /\ RunOK' /\ PassInv'
    BY <1>8, ReadKeepsInv DEF PassOK
  <2>2. UNCHANGED <<entries, fts, triggers, meta, bulkFTS, data, mtime, excused, enabled, now, ftsSuspect>>
    BY <1>8 DEF ReadBatch, storeVars, db
  <2>. QED  BY <2>1, <2>2 DEF PassOK, Types
<1>9. ASSUME NEW s \in Source, NEW k \in Key, SkipUnreadable(s, k) PROVE PassOK'
  <2>1. /\ run' \in Run /\ unseen' \in [Source -> SUBSET Key]
        /\ excused' \in [Source -> SUBSET Key] /\ RunOK' /\ PassInv'
    BY <1>9, SkipKeepsInv DEF PassOK
  <2>2. UNCHANGED <<entries, fts, triggers, meta, bulkFTS, data, mtime, enabled, now, ftsSuspect>>
    BY <1>9 DEF SkipUnreadable, storeVars, db
  <2>. QED  BY <2>1, <2>2 DEF PassOK, Types
<1>10. ASSUME NEW s \in Source, Prune(s) PROVE PassOK'
  <2>1. CASE PruneSourceKeys(s, run.keys) /\ run' = [run EXCEPT !.pc = "stamp"]
    BY <1>10, <2>1, PruneKeepsInv DEF Prune
  <2>2. CASE UNCHANGED storeVars /\ run' = Leave(s)
    BY <1>1, <1>4, <1>10, <2>2 DEF Prune, storeVars, db
  <2>. QED  BY <1>10, <2>1, <2>2 DEF Prune
<1>11. CASE SourcesDone
  BY <1>1, <1>5, <1>11 DEF SourcesDone, storeVars, db
<1>12. CASE RestoreTriggers
  <2>1. CASE run' = NoRun
    BY <1>1, <1>5, <1>12, <2>1 DEF RestoreTriggers, EndBulkTriggers, CreateTriggers, storeVars, db
  <2>2. CASE run' = [run EXCEPT !.pc = "rebuild"] /\ EndBulkTriggers /\ UNCHANGED ftsSuspect
    <3>1. run' \in Run /\ run'.src = run.src /\ run'.batch = run.batch /\ run'.pc = "rebuild"
      BY <1>1, <2>2 DEF Run
    <3>2. run.src = {} /\ run.batch = {}
      BY <1>12 DEF RestoreTriggers, PassOK, RunOK
    <3>3. UNCHANGED <<entries, meta, sourceVars, now>> /\ bulkFTS' \in BOOLEAN /\ triggers' \in BOOLEAN
      BY <1>12, <2>2 DEF RestoreTriggers, EndBulkTriggers, CreateTriggers
    <3>. QED  BY <1>1, <2>2, <3>1, <3>2, <3>3, ElsewhereKeepsInv DEF sourceVars
  <2>. QED  BY <1>12, <2>1, <2>2 DEF RestoreTriggers
<1>13. CASE RebuildFTS
  BY <1>1, <1>5, <1>13 DEF RebuildFTS, EndBulkRebuild, storeVars, db
<1>14. CASE CrashAndReopen
  <2>1. /\ run' = NoRun /\ UNCHANGED <<entries, meta, sourceVars, now>>
        /\ triggers' = TRUE /\ bulkFTS' = FALSE
    BY <1>14 DEF CrashAndReopen, CreateTriggers
  <2>2. ftsSuspect' \in BOOLEAN
    BY <1>14 DEF CrashAndReopen
  <2>. QED  BY <1>5, <2>1, <2>2
<1>15. CASE Cancel
  <2>1. /\ run' \in Run /\ run'.src = run.src /\ run'.batch = run.batch /\ run'.left = run.left
        /\ run'.keys = run.keys /\ run'.pc = run.pc /\ run'.full = run.full
    BY <1>1, <1>15 DEF Cancel, Run
  <2>2. UNCHANGED <<storeVars, sourceVars, now, ftsSuspect>>
    BY <1>15 DEF Cancel
  <2>. QED  BY <1>1, <2>1, <2>2, ElsewhereKeepsInv DEF storeVars, db, sourceVars
<1>16. CASE OpenByMCP \/ ClockTick \/ UNCHANGED vars
  <2>1. /\ UNCHANGED <<entries, meta, sourceVars, run, bulkFTS, ftsSuspect>>
        /\ triggers' \in BOOLEAN /\ now' \in Nat /\ now' >= now
    <3>1. CASE OpenByMCP
      BY <1>1, <3>1 DEF OpenByMCP, CreateTriggers
    <3>2. CASE ClockTick
      BY <1>1, <3>2 DEF ClockTick, storeVars, db
    <3>3. CASE UNCHANGED vars
      BY <1>1, <3>3 DEF vars, storeVars, db
    <3>. QED  BY <1>16, <3>1, <3>2, <3>3
  <2>. QED  BY <1>1, <2>1, ElsewhereKeepsInv DEF sourceVars
<1>17. ASSUME NEW s \in Source, Toggle(s) PROVE PassOK'
  <2>1. enabled' \subseteq Source
    BY <1>1, <1>17 DEF Toggle
  <2>2. UNCHANGED <<storeVars, data, mtime, unseen, excused, now, run, ftsSuspect>>
    BY <1>17 DEF Toggle
  <2>. QED  BY <1>1, <2>1, <2>2, ElsewhereKeepsInv DEF storeVars, db
<1>18. CASE RunStep
  BY <1>2, <1>3, <1>6, <1>7, <1>8, <1>9, <1>10, <1>11, <1>12, <1>13, <1>18,
     StreamDoneKeepsInv, StampKeepsInv DEF RunStep
<1>19. CASE Environment
  BY <1>14, <1>15, <1>16, <1>17, <1>19, StartKeepsInv, ChangeKeepsInv, ResetKeepsInv DEF Environment
<1>. QED  BY <1>16, <1>18, <1>19 DEF Next

-----------------------------------------------------------------------------
(* The FTS table.                                                          *)

\* Inside a pass the FTS table may be anything: the pass is in bulk mode, or suspect.
LEMMA InsideAPass ==
  ASSUME FtsIsKept, run.pc \notin {"idle", "reconcile", "rebuild"},
         run'.pc \notin {"idle", "reconcile", "rebuild"}, run'.bulk = run.bulk,
         UNCHANGED <<bulkFTS, ftsSuspect>>
  PROVE  FtsIsKept'
BY DEF FtsIsKept

\* Whoever leaves the run and the rows alone may create the triggers.
LEMMA OutsideThePass ==
  ASSUME FtsIsKept, run'.pc = run.pc, run'.bulk = run.bulk, triggers' = triggers \/ triggers' = TRUE,
         UNCHANGED <<entries, fts, bulkFTS, ftsSuspect>>
  PROVE  FtsIsKept'
BY DEF FtsIsKept, FtsMatches, Rebuilt

\* Every step keeps the FTS table, or restores it, or is known to have failed.
LEMMA NextKeepsFts == Types /\ RunOK /\ FtsIsKept /\ [Next]_vars => FtsIsKept'
<1>. SUFFICES ASSUME Types, RunOK, FtsIsKept, [Next]_vars PROVE FtsIsKept'
  OBVIOUS
<1>1. /\ run \in Run /\ ftsSuspect \in BOOLEAN /\ bulkFTS \in BOOLEAN /\ triggers \in BOOLEAN
      /\ run.bulk \in BOOLEAN
  BY DEF Types, Run
<1>2. ASSUME NEW clear \in BOOLEAN, NEW full \in BOOLEAN, StartRun(clear, full) PROVE FtsIsKept'
  <2>1. run.pc = "idle" /\ run'.pc \in {"idle", "reconcile"} /\ ftsSuspect' = ftsSuspect
    BY <1>2 DEF StartRun, NoRun
  <2>2. CASE UNCHANGED storeVars
    BY <2>1, <2>2 DEF FtsIsKept, FtsMatches, Rebuilt, storeVars, db
  <2>3. CASE Clear
    BY <2>1, <2>3, Cleared DEF FtsIsKept
  <2>. QED  BY <1>2, <2>2, <2>3 DEF StartRun
<1>3. CASE Reconcile
  <2>1. run'.pc = "sources"
    BY <1>1, <1>3 DEF Reconcile, Run
  <2>2. (ftsSuspect' = ftsSuspect /\ run'.bulk = TRUE /\ bulkFTS' = TRUE) \/ ftsSuspect' = TRUE
    BY <1>1, <1>3 DEF Reconcile, BeginBulkIndex, Run
  <2>. QED  BY <2>1, <2>2 DEF FtsIsKept
<1>4. ASSUME NEW s \in Source,
             EnterSource(s) \/ SkipSource(s) \/ BatchFails(s) \/ StreamDone(s)
               \/ Prune(s) \/ Stamp(s) \/ WriteBatch(s)
      PROVE  FtsIsKept'
  <2>1. run.pc \in {"sources", "emit", "write", "prune", "stamp"}
    BY <1>4 DEF EnterSource, SkipSource, BatchFails, StreamDone, Prune, Stamp, WriteBatch
  <2>2. run'.pc \in {"sources", "emit", "prune", "stamp", "end"} /\ run'.bulk = run.bulk
    <3>1. CASE run' = Leave(s) \/ run' = Abandon
      BY <1>1, <3>1, LeaveIsClean, AbandonIsClean
    <3>2. CASE EnterSource(s) \/ StreamDone(s)
      BY <1>1, <3>2 DEF EnterSource, StreamDone, Run
    <3>3. CASE run' = [run EXCEPT !.pc = "stamp"]
      BY <1>1, <3>3 DEF Run
    <3>4. CASE \E b \in run.batch :
                 run' = [run EXCEPT !.pc = "emit", !.batch = {}, !.keys = @ \cup {b[1]}]
      BY <1>1, <3>4 DEF Run
    <3>. QED  BY <1>4, <3>1, <3>2, <3>3, <3>4
              DEF SkipSource, BatchFails, Prune, Stamp, WriteBatch
  <2>3. UNCHANGED <<bulkFTS, ftsSuspect>>
    <3>1. CASE WriteBatch(s)
      BY <3>1 DEF WriteBatch, IndexEntries, storeVars, db
    <3>2. CASE Prune(s) \/ Stamp(s)
      BY <3>2 DEF Prune, Stamp, PruneSourceKeys, UpdateSourceTimestamp, storeVars, db
    <3>3. CASE EnterSource(s) \/ SkipSource(s) \/ BatchFails(s) \/ StreamDone(s)
      BY <3>3 DEF EnterSource, SkipSource, BatchFails, StreamDone, storeVars, db
    <3>. QED  BY <1>4, <3>1, <3>2, <3>3
  <2>. QED  BY <2>1, <2>2, <2>3, InsideAPass
<1>5. ASSUME NEW s \in Source, NEW k \in Key, ReadBatch(s, k) \/ SkipUnreadable(s, k) PROVE FtsIsKept'
  <2>1. run.pc = "emit" /\ UNCHANGED <<bulkFTS, ftsSuspect>>
    BY <1>5 DEF ReadBatch, SkipUnreadable, storeVars, db
  <2>2. run'.pc \in {"emit", "write"} /\ run'.bulk = run.bulk
    BY <1>1, <1>5 DEF ReadBatch, SkipUnreadable, Run
  <2>. QED  BY <2>1, <2>2, InsideAPass
<1>6. CASE SourcesDone
  <2>1. run.pc = "sources" /\ UNCHANGED <<bulkFTS, ftsSuspect>>
    BY <1>6 DEF SourcesDone, storeVars, db
  <2>2. run'.pc = "end" /\ run'.bulk = run.bulk
    BY <1>1, <1>6, AbandonIsClean DEF SourcesDone
  <2>. QED  BY <2>1, <2>2, InsideAPass
<1>7. CASE RestoreTriggers
  <2>1. CASE run' = [run EXCEPT !.pc = "rebuild"] /\ EndBulkTriggers
    <3>1. run'.pc = "rebuild" /\ triggers' = TRUE /\ bulkFTS' = FALSE
      BY <1>1, <2>1 DEF EndBulkTriggers, CreateTriggers, Run
    <3>. QED  BY <3>1 DEF FtsIsKept
  <2>2. CASE run' = NoRun /\ ftsSuspect' = TRUE
    BY <2>2, NoRunIsClean DEF FtsIsKept
  <2>3. CASE ~run.bulk /\ run' = NoRun /\ ftsSuspect' = ftsSuspect
    <3>1. ftsSuspect = TRUE
      BY <1>1, <1>7, <2>3 DEF RestoreTriggers, FtsIsKept
    <3>. QED  BY <2>3, <3>1, NoRunIsClean DEF FtsIsKept
  <2>. QED  BY <1>7, <2>1, <2>2, <2>3 DEF RestoreTriggers
<1>8. CASE RebuildFTS
  <2>1. run'.pc = "idle" /\ triggers = TRUE /\ bulkFTS = FALSE
    BY <1>8, NoRunIsClean DEF RebuildFTS, FtsIsKept
  <2>2. CASE EndBulkRebuild
    <3>1. FtsMatches' /\ UNCHANGED <<triggers, bulkFTS>>
      BY <2>2 DEF EndBulkRebuild, FtsMatches, Rebuilt
    <3>. QED  BY <2>1, <3>1 DEF FtsIsKept
  <2>3. CASE ftsSuspect' = TRUE
    BY <2>1, <2>3 DEF FtsIsKept
  <2>. QED  BY <1>8, <2>2, <2>3 DEF RebuildFTS
<1>9. CASE CrashAndReopen
  <2>1. run'.pc = "idle" /\ triggers' = TRUE /\ bulkFTS' = FALSE /\ UNCHANGED <<entries, fts>>
    BY <1>9, NoRunIsClean DEF CrashAndReopen, CreateTriggers
  <2>2. ftsSuspect' = FALSE => ftsSuspect = FALSE /\ bulkFTS = FALSE /\ run.pc # "rebuild"
    BY <1>1, <1>9 DEF CrashAndReopen
  <2>3. ftsSuspect' = FALSE => FtsMatches
    BY <2>2 DEF FtsIsKept
  <2>4. ftsSuspect' = FALSE => FtsMatches'
    BY <2>1, <2>3 DEF FtsMatches, Rebuilt
  <2>. QED  BY <2>1, <2>4 DEF FtsIsKept
<1>10. CASE Cancel
  <2>1. run'.pc = run.pc /\ run'.bulk = run.bulk
    BY <1>1, <1>10 DEF Cancel, Run
  <2>. QED  BY <1>10, <2>1, OutsideThePass DEF Cancel, storeVars, db
<1>11. CASE OpenByMCP \/ ClockTick \/ UNCHANGED vars
  BY <1>11, OutsideThePass DEF OpenByMCP, ClockTick, CreateTriggers, vars, storeVars, db
<1>12. ASSUME NEW s \in Source, Toggle(s) PROVE FtsIsKept'
  BY <1>12, OutsideThePass DEF Toggle, storeVars, db
<1>13. ASSUME NEW s \in Source, NEW k \in Key, NEW t \in Text \cup {NoText}, SourceChanges(s, k, t)
       PROVE  FtsIsKept'
  BY <1>13, OutsideThePass DEF SourceChanges, storeVars, db
<1>14. ASSUME NEW s \in Source, ResetSource(s) PROVE FtsIsKept'
  <2>1. WithoutRows(Key, s) /\ UNCHANGED <<triggers, bulkFTS, run, ftsSuspect>>
    BY <1>14 DEF ResetSource, DeleteBySource
  <2>2. FtsMatches => FtsMatches'
    BY <2>1, GoneRowsAreNotFound
  <2>. QED  BY <2>1, <2>2 DEF FtsIsKept
<1>. QED  BY <1>2, <1>3, <1>4, <1>5, <1>6, <1>7, <1>8, <1>9, <1>10, <1>11, <1>12, <1>13, <1>14
          DEF Next, RunStep, Environment

-----------------------------------------------------------------------------
(* The rest of the types.                                                  *)

\* A visit has its source, a write its row, and the handle of the search store is in bulk
\* mode for as long as the run says.
Shape ==
  /\ fts \in [Source -> [Key -> SUBSET Text]]
  /\ now \in 1..MaxTime /\ changes \in 0..MaxChanges
  /\ run.pc \in {"emit", "write", "prune", "stamp"} => run.src # {}
  /\ run.pc = "write" => run.batch # {}
  /\ bulkFTS = TRUE /\ run.pc # "idle" => run.bulk = TRUE \/ run.pc \in {"reconcile", "rebuild"}

\* A rebuild finds rows by their texts.
LEMMA RebuiltIsTyped ==
  ASSUME NEW rows \in [Source -> [Key -> Text \cup {NoText}]]
  PROVE  Rebuilt(rows) \in [Source -> [Key -> SUBSET Text]]
<1>1. \A s \in Source, k \in Key : {rows[s][k]} \ {NoText} \in SUBSET Text
  OBVIOUS
<1>. QED  BY <1>1 DEF Rebuilt

\* Deleting rows keeps the types of the FTS table.
LEMMA WithoutRowsIsTyped ==
  ASSUME Shape, NEW s \in Source, NEW gone \in SUBSET Key, WithoutRows(gone, s)
  PROVE  fts' \in [Source -> [Key -> SUBSET Text]]
<1>. DEFINE hits == [k \in Key |-> IF k \in gone THEN {} ELSE fts[s][k]]
<1>1. fts' = [fts EXCEPT ![s] = hits]
  BY DEF WithoutRows
<1>2. hits \in [Key -> SUBSET Text]
  BY DEF Shape
<1>. HIDE DEF hits
<1>. QED  BY <1>1, <1>2 DEF Shape

\* So does a row that is written.
LEMMA IndexIsTyped ==
  ASSUME Types, Shape, NEW s \in Source, NEW k \in Key, NEW t \in Text, IndexEntries(s, k, t)
  PROVE  fts' \in [Source -> [Key -> SUBSET Text]]
<1>. DEFINE old == fts[s][k]
            hit == IF triggers THEN (old \ {entries[s][k]}) \cup {t} ELSE old
            hits == [fts EXCEPT ![s] = [fts[s] EXCEPT ![k] = hit]]
<1>1. hit \in SUBSET Text
  BY DEF Shape
<1>2. fts' = Rebuilt(entries') \/ fts' = hits
  BY DEF IndexEntries
<1>. HIDE DEF hit
<1>3. [fts[s] EXCEPT ![k] = hit] \in [Key -> SUBSET Text]
  BY <1>1 DEF Shape
<1>4. hits \in [Source -> [Key -> SUBSET Text]]
  BY <1>3 DEF Shape
<1>. HIDE DEF hits
<1>. QED  BY <1>2, <1>4, RowWritten, RebuiltIsTyped

\* Every step of a pass has the shape of one.
LEMMA PassKeepsShape ==
  ASSUME Types, RunOK, Shape, RunStep
  PROVE  Shape'
<1>1. run \in Run /\ bulkFTS \in BOOLEAN /\ now' = now
  <2>1. now' = now
    BY DEF RunStep, Reconcile, EnterSource, SkipSource, WriteBatch, BatchFails, StreamDone,
           Prune, Stamp, ReadBatch, SkipUnreadable, SourcesDone, RestoreTriggers, RebuildFTS
  <2>. QED  BY <2>1 DEF Types
<1>2. changes' = changes
  BY DEF RunStep, Reconcile, EnterSource, SkipSource, WriteBatch, BatchFails, StreamDone,
         Prune, Stamp, ReadBatch, SkipUnreadable, SourcesDone, RestoreTriggers, RebuildFTS, sourceVars
<1>3. ASSUME fts' \in [Source -> [Key -> SUBSET Text]],
             \/ run'.pc = "idle"
             \/ /\ run'.bulk = run.bulk /\ bulkFTS' = bulkFTS
                /\ run.pc \notin {"idle", "reconcile", "rebuild"}
             \/ run'.bulk = TRUE \/ bulkFTS' = FALSE,
             run'.pc \in {"emit", "write", "prune", "stamp"} => run'.src # {},
             run'.pc = "write" => run'.batch # {}
      PROVE  Shape'
  <2>1. bulkFTS' = TRUE /\ run'.pc # "idle" =>
          run'.bulk = TRUE \/ run'.pc \in {"reconcile", "rebuild"}
    BY <1>1, <1>3 DEF Shape
  <2>. QED  BY <1>1, <1>2, <1>3, <2>1 DEF Shape
<1>4. CASE Reconcile
  <2>1. run'.pc = "sources" /\ fts' = fts
    BY <1>1, <1>4 DEF Reconcile, BeginBulkIndex, BeginBulkIndexFails, Run
  <2>2. run'.bulk = TRUE \/ bulkFTS' = FALSE
    BY <1>1, <1>4 DEF Reconcile, BeginBulkIndex, BeginBulkIndexFails, Run
  <2>. QED  BY <1>3, <2>1, <2>2 DEF Shape
<1>5. ASSUME NEW s \in Source, run' = Leave(s), UNCHANGED <<fts, bulkFTS>>,
             run.pc \notin {"idle", "reconcile", "rebuild"}
      PROVE  Shape'
  <2>1. run'.pc = "sources" /\ run'.bulk = run.bulk
    BY <1>1, <1>5, LeaveIsClean
  <2>. QED  BY <1>3, <1>5, <2>1 DEF Shape
<1>6. ASSUME run' = Abandon, UNCHANGED <<fts, bulkFTS>>,
             run.pc \notin {"idle", "reconcile", "rebuild"}
      PROVE  Shape'
  <2>1. run'.pc = "end" /\ run'.bulk = run.bulk
    BY <1>1, <1>6, AbandonIsClean
  <2>. QED  BY <1>3, <1>6, <2>1 DEF Shape
<1>7. ASSUME NEW s \in Source, EnterSource(s) \/ StreamDone(s) PROVE Shape'
  <2>1. run.pc \in {"sources", "emit"} /\ UNCHANGED <<fts, bulkFTS>>
    BY <1>7 DEF EnterSource, StreamDone, storeVars, db
  <2>2. run'.pc \in {"emit", "prune", "stamp"} /\ run'.bulk = run.bulk /\ s \in run'.src
    <3>1. CASE EnterSource(s)
      BY <1>1, <3>1 DEF EnterSource, Run
    <3>2. CASE StreamDone(s)
      BY <1>1, <3>2 DEF StreamDone, Run
    <3>. QED  BY <1>7, <3>1, <3>2
  <2>. QED  BY <1>3, <2>1, <2>2 DEF Shape
<1>8. ASSUME NEW s \in Source, SkipSource(s) \/ BatchFails(s) \/ Stamp(s) PROVE Shape'
  <2>1. UNCHANGED <<fts, bulkFTS>>
    BY <1>8 DEF SkipSource, BatchFails, Stamp, UpdateSourceTimestamp, storeVars, db
  <2>2. run.pc \notin {"idle", "reconcile", "rebuild"} /\ (run' = Leave(s) \/ run' = Abandon)
    BY <1>8 DEF SkipSource, BatchFails, Stamp
  <2>. QED  BY <1>5, <1>6, <2>1, <2>2
<1>9. ASSUME NEW s \in Source, WriteBatch(s) PROVE Shape'
  <2>1. CASE run.canceled
    BY <1>6, <1>9, <2>1 DEF WriteBatch, storeVars, db
  <2>2. CASE ~run.canceled
    <3>1. PICK b \in run.batch :
            /\ IndexEntries(s, b[1], b[2])
            /\ run' = [run EXCEPT !.pc = "emit", !.batch = {}, !.keys = @ \cup {b[1]}]
      BY <1>9, <2>2 DEF WriteBatch
    <3>2. b[1] \in Key /\ b[2] \in Text
      BY <1>1, <3>1 DEF Run
    <3>3. fts' \in [Source -> [Key -> SUBSET Text]] /\ bulkFTS' = bulkFTS
      BY <3>1, <3>2, IndexIsTyped, RowWritten
    <3>4. run'.pc = "emit" /\ run'.bulk = run.bulk /\ run'.src = run.src
      BY <1>1, <3>1 DEF Run
    <3>. QED  BY <1>3, <1>9, <3>3, <3>4 DEF WriteBatch
  <2>. QED  BY <2>1, <2>2
<1>10. ASSUME NEW s \in Source, Prune(s) PROVE Shape'
  <2>1. CASE PruneSourceKeys(s, run.keys) /\ run' = [run EXCEPT !.pc = "stamp"]
    <3>1. fts' \in [Source -> [Key -> SUBSET Text]] /\ bulkFTS' = bulkFTS
      BY <2>1, WithoutRowsIsTyped DEF PruneSourceKeys
    <3>2. run'.pc = "stamp" /\ run'.bulk = run.bulk /\ run'.src = run.src
      BY <1>1, <2>1 DEF Run
    <3>. QED  BY <1>3, <1>10, <3>1, <3>2 DEF Prune
  <2>2. CASE UNCHANGED storeVars /\ run' = Leave(s)
    BY <1>5, <1>10, <2>2 DEF Prune, storeVars, db
  <2>. QED  BY <1>10, <2>1, <2>2 DEF Prune
<1>11. ASSUME NEW s \in Source, NEW k \in Key, ReadBatch(s, k) \/ SkipUnreadable(s, k) PROVE Shape'
  <2>1. run.pc = "emit" /\ UNCHANGED <<fts, bulkFTS>>
    BY <1>11 DEF ReadBatch, SkipUnreadable, storeVars, db
  <2>2. run'.bulk = run.bulk /\ run'.src = run.src /\ s \in run.src
    BY <1>1, <1>11 DEF ReadBatch, SkipUnreadable, Run
  <2>3. run'.pc = "write" => run'.batch # {}
    <3>1. CASE run' = [run EXCEPT !.left = @ \ {k}]
      BY <1>1, <2>1, <3>1 DEF Run
    <3>2. CASE run' = [run EXCEPT !.left = @ \ {k}, !.pc = "write", !.batch = {<<k, data[s][k]>>}]
      <4>. DEFINE read == {<<k, data[s][k]>>}
      <4>1. read # {} /\ DOMAIN run = {"pc", "full", "canceled", "bulk", "todo", "src", "left", "keys", "batch"}
        BY <1>1 DEF Run
      <4>. HIDE DEF read
      <4>2. run'.batch = read
        <5>1. run' = [run EXCEPT !.left = @ \ {k}, !.pc = "write", !.batch = read]
          BY <3>2 DEF read
        <5>. QED  BY <4>1, <5>1
      <4>. QED  BY <4>1, <4>2
    <3>. QED  BY <1>11, <3>1, <3>2 DEF ReadBatch, SkipUnreadable
  <2>. QED  BY <1>3, <2>1, <2>2, <2>3 DEF Shape
<1>12. CASE SourcesDone
  BY <1>6, <1>12 DEF SourcesDone, storeVars, db
<1>13. CASE RestoreTriggers
  <2>1. fts' = fts
    BY <1>13 DEF RestoreTriggers, EndBulkTriggers, CreateTriggers, storeVars, db
  <2>2. CASE run' = NoRun
    BY <1>3, <2>1, <2>2, NoRunIsClean DEF Shape
  <2>3. CASE run' = [run EXCEPT !.pc = "rebuild"] /\ EndBulkTriggers
    <3>1. run'.pc = "rebuild" /\ bulkFTS' = FALSE
      BY <1>1, <2>3 DEF EndBulkTriggers, Run
    <3>. QED  BY <1>3, <2>1, <3>1 DEF Shape
  <2>. QED  BY <1>13, <2>2, <2>3 DEF RestoreTriggers
<1>14. CASE RebuildFTS
  <2>1. run'.pc = "idle"
    BY <1>14, NoRunIsClean DEF RebuildFTS
  <2>2. fts' = fts \/ fts' = Rebuilt(entries)
    BY <1>14 DEF RebuildFTS, EndBulkRebuild, storeVars, db
  <2>. QED  BY <1>3, <2>1, <2>2, RebuiltIsTyped DEF Shape, Types
<1>. QED  BY <1>4, <1>7, <1>8, <1>9, <1>10, <1>11, <1>12, <1>13, <1>14 DEF RunStep

\* And so has every step around it.
LEMMA NextKeepsShape == Types /\ RunOK /\ Shape /\ [Next]_vars => Shape'
<1>. SUFFICES ASSUME Types, RunOK, Shape, [Next]_vars PROVE Shape'
  OBVIOUS
<1>1. run \in Run /\ now \in Nat /\ changes \in Nat /\ MaxTime \in Nat /\ MaxChanges \in Nat
  BY BoundAssumption DEF Types, Shape
<1>2. ASSUME NEW clear \in BOOLEAN, NEW full \in BOOLEAN, StartRun(clear, full) PROVE Shape'
  <2>1. run'.pc \in {"idle", "reconcile"} /\ UNCHANGED <<now, changes>>
    BY <1>2 DEF StartRun, NoRun, sourceVars
  <2>2. fts' \in [Source -> [Key -> SUBSET Text]]
    <3>1. CASE UNCHANGED storeVars
      BY <3>1 DEF storeVars, db, Shape
    <3>2. CASE Clear
      <4>1. fts' = Rebuilt(entries') /\ entries' \in [Source -> [Key -> Text \cup {NoText}]]
        BY <3>2, Cleared DEF Clear
      <4>. QED  BY <4>1, RebuiltIsTyped
    <3>. QED  BY <1>2, <3>1, <3>2 DEF StartRun
  <2>. QED  BY <2>1, <2>2 DEF Shape
<1>3. CASE Cancel
  <2>1. /\ run'.pc = run.pc /\ run'.src = run.src /\ run'.batch = run.batch
        /\ run'.bulk = run.bulk /\ UNCHANGED <<fts, bulkFTS, now, changes>>
    BY <1>1, <1>3 DEF Cancel, Run, storeVars, db, sourceVars
  <2>. QED  BY <2>1 DEF Shape
<1>4. CASE CrashAndReopen
  BY <1>4, NoRunIsClean DEF CrashAndReopen, CreateTriggers, Shape, sourceVars
<1>5. CASE OpenByMCP \/ UNCHANGED vars
  BY <1>5 DEF OpenByMCP, CreateTriggers, Shape, vars, storeVars, db, sourceVars
<1>6. CASE ClockTick
  BY <1>1, <1>6 DEF ClockTick, Shape, storeVars, db, sourceVars
<1>7. ASSUME NEW s \in Source, Toggle(s) PROVE Shape'
  BY <1>7 DEF Toggle, Shape, storeVars, db
<1>8. ASSUME NEW s \in Source, ResetSource(s) PROVE Shape'
  <2>1. fts' \in [Source -> [Key -> SUBSET Text]]
    BY <1>8, WithoutRowsIsTyped DEF ResetSource, DeleteBySource
  <2>2. UNCHANGED <<run, now, bulkFTS>> /\ changes' \in 0..MaxChanges
    BY <1>1, <1>8 DEF ResetSource, DeleteBySource
  <2>. QED  BY <2>1, <2>2 DEF Shape
<1>9. ASSUME NEW s \in Source, NEW k \in Key, NEW t \in Text \cup {NoText}, SourceChanges(s, k, t)
      PROVE  Shape'
  <2>1. UNCHANGED <<fts, bulkFTS, run, now>> /\ changes' \in 0..MaxChanges
    BY <1>1, <1>9 DEF SourceChanges, storeVars, db
  <2>. QED  BY <2>1 DEF Shape
<1>. QED  BY <1>2, <1>3, <1>4, <1>5, <1>6, <1>7, <1>8, <1>9, PassKeepsShape DEF Next, Environment

-----------------------------------------------------------------------------

\* An empty index, and sources of which nothing has been read.
LEMMA Initially == Init => IInv
<1>. SUFFICES ASSUME Init PROVE IInv
  OBVIOUS
<1>1. Types
  <2>1. NoRows \in [Key -> Text \cup {NoText}]
    BY DEF NoRows
  <2>2. entries \in [Source -> [Key -> Text \cup {NoText}]]
    BY <2>1 DEF Init, StoreInit
  <2>3. /\ now \in Nat /\ mtime \in [Source -> Nat] /\ meta \in [Source -> Nat]
        /\ \A s \in Source : meta[s] <= now
    BY DEF Init, StoreInit
  <2>4. unseen \in [Source -> SUBSET Key] /\ excused \in [Source -> SUBSET Key]
    BY DEF Init
  <2>. QED  BY <2>2, <2>3, <2>4, NoRunIsClean DEF Init, StoreInit, Types
<1>2. RunOK /\ VisitIsTrue /\ StampIsPruned
  BY NoRunIsClean DEF Init, RunOK, VisitIsTrue, StampIsPruned
<1>3. StampedIsIndexed
  BY DEF Init, StoreInit, StampedIsIndexed
<1>4. FtsIsKept
  BY NoRunIsClean DEF Init, StoreInit, FtsIsKept, FtsMatches, Rebuilt, NoRows
<1>. QED  BY <1>1, <1>2, <1>3, <1>4 DEF IInv, PassOK, PassInv

\* It is inductive.
LEMMA Invariant == Spec => []IInv
<1>1. IInv /\ [Next]_vars => IInv'
  BY NextKeepsPass, NextKeepsFts DEF IInv, PassOK
<1>. QED  BY <1>1, Initially, PTL DEF Spec

\* For any sources, rows and bounds the variables have their types: a visit has one source
\* and at most one row that is not yet written, and the handle only stays in bulk mode
\* while a run says so (indexer.go:40-160).
THEOREM TypeCorrect == Spec => []TypeOK
<1>1. ASSUME Init PROVE Shape
  <2>1. fts = [s \in Source |-> [k \in Key |-> {}]]
    BY <1>1 DEF Init, StoreInit
  <2>2. fts \in [Source -> [Key -> SUBSET Text]]
    BY <2>1
  <2>. QED  BY <1>1, <2>2, BoundAssumption, NoRunIsClean DEF Init, StoreInit, Shape
<1>2. IInv /\ Shape /\ [Next]_vars => Shape'
  BY NextKeepsShape DEF IInv, PassOK
<1>3. IInv /\ Shape => TypeOK
  <2>. SUFFICES ASSUME IInv, Shape PROVE TypeOK
    OBVIOUS
  <2>1. Types /\ RunOK
    BY DEF IInv, PassOK
  <2>2. StoreTypeOK
    BY <2>1 DEF Types, Shape, StoreTypeOK
  <2>3. ASSUME NEW S, \A x, y \in S : x = y PROVE Cardinality(S) <= 1
    <3>1. CASE S = {}
      BY <3>1, FS_EmptySet
    <3>2. CASE S # {}
      <4>1. PICK x : S = {x}
        BY <2>3, <3>2
      <4>. QED  BY <4>1, FS_Singleton
    <3>. QED  BY <3>1, <3>2
  <2>4. Cardinality(run.src) <= 1 /\ Cardinality(run.batch) <= 1
    BY <2>1, <2>3 DEF RunOK
  <2>5. /\ run.pc \in {"emit", "write", "prune", "stamp"} <=> run.src # {}
        /\ run.pc = "write" <=> run.batch # {}
    BY <2>1 DEF RunOK, Shape
  <2>6. run.bulk \in BOOLEAN /\ bulkFTS \in BOOLEAN
    BY <2>1 DEF Types, Run
  <2>. QED  BY <2>1, <2>2, <2>4, <2>5, <2>6 DEF TypeOK, Types, Shape
<1>. QED  BY <1>1, <1>2, <1>3, Initially, Invariant, PTL DEF Spec

\* For any sources, rows and bounds: a source that the next pass would skip has all its rows
\* in the index, but for those that changed while they were read or were skipped, whatever
\* was cancelled, failed, pruned, cleared, reset or crashed (indexer.go:20-105).
THEOREM SkippedIsIndexed == Spec => []SkippableIsIndexed
<1>1. IInv => SkippableIsIndexed
  BY DEF IInv, PassOK, PassInv, Types, StampedIsIndexed, SkippableIsIndexed, HasChangesSince
<1>. QED  BY <1>1, Invariant, PTL

\* For any sources and rows: between runs the FTS table agrees with the rows unless a crash or
\* a failed statement hit the latest run (search_store.go).
THEOREM FtsIsRight == Spec => []FtsRightBetweenRuns
<1>1. IInv => FtsRightBetweenRuns
  BY DEF IInv, PassOK, Types, FtsIsKept, FtsRightBetweenRuns
<1>. QED  BY <1>1, Invariant, PTL

\* For any sources and rows: a row is only pruned when its source does not have it, has changed
\* it since the pass read it, or could not read it (indexer.go:44-105).
THEOREM PrunesAreRight == Spec => OnlyGoneRowsArePruned
<1>. DEFINE A == \A s \in Source, k \in Key :
                   entries[s][k] # NoText /\ entries'[s][k] = NoText
                     => data'[s][k] = NoText \/ k \in unseen[s] \/ run.pc = "idle"
<1>1. IInv /\ [Next]_vars => [A]_vars
  <2>. SUFFICES ASSUME IInv, Next, NEW s \in Source, NEW k \in Key,
                       entries[s][k] # NoText, entries'[s][k] = NoText, run.pc # "idle"
                PROVE  data'[s][k] = NoText \/ k \in unseen[s]
    OBVIOUS
  <2>. USE DEF IInv, PassOK
  <2>1. ASSUME UNCHANGED entries PROVE FALSE
    BY <2>1
  <2>2. ASSUME NEW t \in Source, WriteBatch(t) PROVE FALSE
    <3>1. PICK b \in run.batch : IndexEntries(t, b[1], b[2])
      BY <2>1, <2>2 DEF WriteBatch, storeVars, db
    <3>2. b[1] \in Key /\ b[2] \in Text
      BY <3>1 DEF Types, Run
    <3>. QED  BY <3>1, <3>2, RowWritten, StoreAssumption
  <2>3. ASSUME NEW t \in Source, Prune(t) PROVE data'[s][k] = NoText \/ k \in unseen[s]
    <3>1. PruneSourceKeys(t, run.keys) /\ run.pc = "prune" /\ t \in run.src /\ UNCHANGED data
      BY <2>1, <2>3 DEF Prune, storeVars, db, sourceVars
    <3>2. t = s /\ k \notin run.keys
      <4>1. Key \ run.keys \in SUBSET Key /\ WithoutRows(Key \ run.keys, t)
        BY <3>1 DEF PruneSourceKeys
      <4>. QED  BY <4>1, RowsGone
    <3>3. run.left = {} /\ run.batch = {}
      BY <3>1 DEF RunOK
    <3>4. s \in run.src
      BY <3>1, <3>2
    <3>5. data[s][k] = NoText \/ k \in unseen[s]
      BY <3>2, <3>3, <3>4 DEF PassInv, VisitIsTrue
    <3>. QED  BY <3>1, <3>5
  <2>4. ASSUME NEW t \in Source, ResetSource(t) PROVE data'[s][k] = NoText
    <3>1. t = s
      <4>1. WithoutRows(Key, t) /\ Key \in SUBSET Key
        BY <2>4 DEF ResetSource, DeleteBySource
      <4>. QED  BY <4>1, RowsGone
    <3>. QED  BY <2>4, <3>1 DEF ResetSource, NoRows, Types
  <2>5. ASSUME NEW t \in Source,
               EnterSource(t) \/ SkipSource(t) \/ BatchFails(t) \/ StreamDone(t) \/ Stamp(t)
                 \/ Toggle(t) \/ (\E j \in Key : ReadBatch(t, j) \/ SkipUnreadable(t, j))
                 \/ (\E j \in Key, x \in Text \cup {NoText} : SourceChanges(t, j, x))
        PROVE  UNCHANGED entries
    BY <2>5 DEF EnterSource, SkipSource, BatchFails, StreamDone, Stamp, UpdateSourceTimestamp, Toggle,
                ReadBatch, SkipUnreadable, SourceChanges, storeVars, db
  <2>6. CASE Reconcile \/ SourcesDone \/ RestoreTriggers \/ RebuildFTS \/ Cancel \/ CrashAndReopen
               \/ OpenByMCP \/ ClockTick
    BY <2>1, <2>6 DEF Reconcile, BeginBulkIndex, BeginBulkIndexFails, SourcesDone, RestoreTriggers,
                EndBulkTriggers, CreateTriggers, RebuildFTS, EndBulkRebuild, Cancel,
                CrashAndReopen, OpenByMCP, ClockTick, storeVars, db
  <2>7. CASE \E clear, full \in BOOLEAN : StartRun(clear, full)
    BY <2>7 DEF StartRun
  <2>. QED  BY <2>1, <2>2, <2>3, <2>4, <2>5, <2>6, <2>7 DEF Next, RunStep, Environment
<1>. QED  BY <1>1, Invariant, PTL DEF Spec, OnlyGoneRowsArePruned

\* For any sources and rows: when a full pass stamps a source the index holds what the source
\* has and nothing else, but for what changed since it was read (indexer.go:44-105).
THEOREM FullPassIsComplete == Spec => FullPassLeavesNoStaleRow
<1>. DEFINE A == \A s \in Source :
                   run.pc = "stamp" /\ run.full /\ s \in run.src /\ meta'[s] # meta[s]
                     => \A k \in Key \ unseen[s] : entries[s][k] = data[s][k]
<1>1. IInv => A
  <2>. SUFFICES ASSUME IInv, NEW s \in Source, run.pc = "stamp", run.full, s \in run.src,
                       NEW k \in Key \ unseen[s]
                PROVE  entries[s][k] = data[s][k]
    OBVIOUS
  <2>. USE DEF IInv, PassOK, PassInv
  <2>1. run.left = {} /\ run.batch = {} /\ run.full = TRUE
    BY DEF RunOK, Types, Run
  <2>2. CASE data[s][k] = NoText
    <3>1. k \notin run.keys
      BY <2>2 DEF VisitIsTrue
    <3>. QED  BY <2>1, <2>2, <3>1 DEF StampIsPruned
  <2>3. CASE data[s][k] # NoText
    BY <2>1, <2>3 DEF VisitIsTrue
  <2>. QED  BY <2>2, <2>3
<1>. QED  BY <1>1, Invariant, PTL DEF FullPassLeavesNoStaleRow
=============================================================================
