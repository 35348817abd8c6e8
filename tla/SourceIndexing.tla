---------------------------- MODULE SourceIndexing ----------------------------
(***************************************************************************)
(* One record of a source - a thread, a chat, a note, a document, a table  *)
(* or a browser's history - from where it is written to the rows of        *)
(* search.db: what tells a tick that the source has changed, what is read  *)
(* again, how it is cut (module Transcripts), under which keys the chunks  *)
(* go into the index and which of them stay there.                         *)
(*                                                                         *)
(* gsuite.db and messages.db are read as they are.  Files are read through *)
(* the cache in notebook.db, the browser's history through a copy of it;   *)
(* both are brought up to date only by a pass, and it is their time that a *)
(* tick compares with the time of the last pass.                           *)
(*                                                                         *)
(* What the indexer does around a pass is in module Indexer.  Times are in *)
(* seconds, as in search_meta and file_cache.                              *)
(***************************************************************************)
EXTENDS Transcripts

CONSTANTS
  Kinds,          \* the kinds of source that a run is about
  Slots,          \* 1..Slots: messages by date, the text of a file or document, rows
  Headers,        \* sizes of the lines before the messages of a chunk
  ShortMessage,   \* 3: the size of the longest message of a chat left out
  FallbackRefresh,\* age at which the copy of a history is made again
  NoText,
  MaxTime,        \* bound on the clock
  MaxChange,      \* bound on changes of the record
  MaxFault        \* bound on files that cannot be read and on new daemons

ASSUME IndexingAssumption ==
  /\ Kinds \subseteq Kind \cup {"history"} /\ Slots \in Nat \ {0}
  /\ Headers \subseteq Nat /\ ShortMessage \in Nat /\ FallbackRefresh \in Nat
  /\ NoText \notin Text /\ MaxTime \in Nat \ {0} /\ MaxChange \in Nat /\ MaxFault \in Nat

VARIABLES
  kind, header,
  now,
  text,           \* what is in every slot
  written,        \* when it was last changed
  touched,        \* time of the file of the source: gsuite.db, messages.db, History
  copy,           \* file_cache or the snapshot: [content, at, size] of every slot
  copied,         \* time of notebook.db or of the snapshot; 0 if there is none
  meta,           \* refreshSnapshotIfNeeded: [source, at], what it knows of the last copy
  index,          \* rows of search.db by key
  watermark,      \* search_meta
  at,             \* "idle", or "stamp": entries are written, the time not yet
  current,        \* history: has nothing changed since this daemon read the record?
  overtaken,      \* history: did it change before the pass that read it was stamped?
  changes, faults \* so far

vars == <<kind, header, now, text, written, touched, copy, copied, meta, index,
          watermark, at, current, overtaken, changes, faults>>

Slot == 1..Slots
NoCopy == [content |-> NoText, at |-> 0, size |-> 0]
NoMeta == [source |-> 0, at |-> 0]

\* Kinds whose record is one text.
Single == {"notebook", "drive"}
Used(s) == kind \in Single => s = 1
\* Kinds that are read where they are written.
ReadInPlace == {"gmail", "whatsapp", "drive", "rows"}

TypeOK ==
  /\ kind \in Kinds /\ header \in Headers \cup {0} /\ now \in 1..MaxTime
  /\ text \in [Slot -> Text \cup {NoText}] /\ written \in [Slot -> 0..MaxTime]
  /\ touched \in 0..MaxTime /\ copied \in 0..MaxTime /\ watermark \in 0..MaxTime
  /\ copy \in [Slot -> [content : Text \cup {NoText}, at : 0..MaxTime, size : Nat]]
  /\ meta \in [source : 0..MaxTime, at : 0..MaxTime]
  /\ at \in {"idle", "stamp"} /\ current \in BOOLEAN /\ overtaken \in BOOLEAN
  /\ changes \in 0..MaxChange /\ faults \in 0..MaxFault
  /\ DOMAIN index \subseteq Nat

Init ==
  /\ kind \in Kinds
  /\ header \in IF kind \in {"gmail", "whatsapp"} THEN Headers ELSE {0}
  /\ text \in [Slot -> Text \cup {NoText}]
  /\ \A s \in Slot : ~Used(s) => text[s] = NoText
  /\ now = 1 /\ written = [s \in Slot |-> 1] /\ touched = 1
  /\ copy = [s \in Slot |-> NoCopy] /\ copied = 0 /\ meta = NoMeta
  /\ index = [k \in {} |-> 0] /\ watermark = 0 /\ at = "idle"
  /\ current = FALSE /\ overtaken = FALSE /\ changes = 0 /\ faults = 0

-----------------------------------------------------------------------------
(* The world.                                                              *)

Tick ==
  /\ now < MaxTime /\ now' = now + 1
  /\ UNCHANGED <<kind, header, text, written, touched, copy, copied, meta, index,
                 watermark, at, current, overtaken, changes, faults>>

\* A message comes or goes, a file or a document is edited, a page visited.  A browser
\* may have written to its write-ahead log only.
Change(s) ==
  /\ changes < MaxChange /\ changes' = changes + 1
  /\ Used(s)
  /\ \E x \in (Text \cup {NoText}) \ {text[s]} : text' = [text EXCEPT ![s] = x]
  /\ written' = [written EXCEPT ![s] = now]
  /\ touched' \in IF kind = "history" THEN {touched, now} ELSE {now}
  /\ current' = FALSE /\ overtaken' = (at = "stamp" \/ overtaken)
  /\ UNCHANGED <<kind, header, now, copy, copied, meta, index, watermark, at, faults>>

\* A new daemon knows nothing of the copy, and stamps nothing its predecessor read.
Restart ==
  /\ faults < MaxFault /\ faults' = faults + 1
  /\ meta' = NoMeta /\ at' = "idle" /\ current' = FALSE
  /\ UNCHANGED <<kind, header, now, text, written, touched, copy, copied, index,
                 watermark, overtaken, changes>>

-----------------------------------------------------------------------------
(* Reading.                                                                *)

\* scanOneDir: the row of the cache is taken for a file of its time and size.
CacheHit(s) == copy[s].at # 0 /\ copy[s].at = written[s] /\ copy[s].size = text[s].size

\* extractFile: what cannot be read is kept as empty.
Extracted(s, failed) ==
  [content |-> IF s \in failed THEN NoText ELSE text[s],
   at |-> written[s], size |-> text[s].size]

\* scanOneDir: rows of files that are gone are deleted, files without a row of their
\* time and size are read.
Scan(failed) ==
  /\ copy' = [s \in Slot |-> IF text[s] = NoText THEN NoCopy
                             ELSE IF CacheHit(s) THEN copy[s] ELSE Extracted(s, failed)]
  /\ copied' = IF copy' = copy THEN copied ELSE now
  /\ UNCHANGED meta

\* copyHistorySnapshot.
Snapshot == copy' = [s \in Slot |-> [NoCopy EXCEPT !.content = text[s]]] /\ copied' = now

\* refreshSnapshotIfNeeded: the history is copied if its file has another time than
\* at the last copy, or that is long ago.
Needed == meta.at = 0 \/ meta.source # touched \/ now - meta.at >= FallbackRefresh
Refresh ==
  IF Needed THEN Snapshot /\ meta' = [source |-> touched, at |-> now]
            ELSE UNCHANGED <<copy, copied, meta>>

\* What it leaves in the copy.
Cached == [s \in Slot |-> copy[s].content]

\* What a pass reads.
Read ==
  \/ kind = "notebook" /\ Scan({}) /\ UNCHANGED faults
  \/ /\ kind = "notebook" /\ faults < MaxFault /\ faults' = faults + 1
     /\ \E s \in Slot : text[s] # NoText /\ ~CacheHit(s) /\ Scan({s})
  \/ kind = "history" /\ Refresh /\ UNCHANGED faults
  \/ kind \in ReadInPlace /\ UNCHANGED <<copy, copied, meta, faults>>

-----------------------------------------------------------------------------
(* Entries.                                                                *)

\* The messages that a transcript is made of, by date.
Messages(k, content) ==
  LET taken == {s \in Slot : content[s] # NoText /\ (k = "whatsapp" => content[s].size > ShortMessage)}
      order == Sorted(taken, {p \in Slot \X Slot : p[1] < p[2]})
  IN  [i \in 1..Cardinality(taken) |-> [slot |-> order[i], text |-> content[order[i]]]]

\* Chunks of a record, by number.
Chunks(k, h, messages) ==
  IF messages = <<>> THEN <<>>
  ELSE CASE k = "gmail" -> ThreadTranscript(h, messages)
         [] k = "whatsapp" -> ChatTranscript(h, messages)
         [] k \in Single -> Alone(k, messages[1], ChunkMaxChars)
         [] OTHER -> [i \in 1..Len(messages) |-> <<Whole(messages[i])>>]

\* Chats and documents leave out what is of low value, with its number.
Kept(chunk) == ~(kind \in {"whatsapp", "drive"} /\ IsLowValueContent(header, chunk))

\* The key of a chunk is the record with its number; of a row its own; all the chunks
\* of a document have the key of the document.
KeyOf(chunks, i) ==
  CASE kind = "drive" -> 1
    [] kind \in {"rows", "history"} -> chunks[i][1].slot
    [] OTHER -> i

\* The rows that the entries become: of two with one key the last stays.
Entries(chunks) ==
  LET kept == {i \in 1..Len(chunks) : Kept(chunks[i])}
  IN  [k \in {KeyOf(chunks, i) : i \in kept} |->
         chunks[Max({i \in kept : KeyOf(chunks, i) = k})]]

\* Rows replace those that have their keys.
Upserted(rows, others) ==
  [k \in DOMAIN rows \cup DOMAIN others |-> IF k \in DOMAIN rows THEN rows[k] ELSE others[k]]

-----------------------------------------------------------------------------
(* Passes.                                                                 *)

\* What HasChangesSince takes for the time of the source's data.
SourceTime == IF kind \in ReadInPlace THEN touched ELSE copied

\* Mutant of HasChangesSince: the second of the last pass is over.
HasChangesAfter == watermark = 0 \/ SourceTime = 0 \/ SourceTime > watermark

HasChangesSince == watermark = 0 \/ SourceTime = 0 \/ SourceTime >= watermark

\* A tick adds and replaces rows; a full pass also prunes the others.
Pass(full) ==
  /\ at = "idle" /\ at' = "stamp"
  /\ full \/ HasChangesSince
  /\ Read
  /\ \E messages \in {Messages(kind, IF kind \in ReadInPlace THEN text ELSE Cached')} :
       \E chunks \in {Chunks(kind, header, messages)} :
         \E rows \in {Entries(chunks)} : index' = IF full THEN rows ELSE Upserted(rows, index)
  /\ current' = TRUE /\ overtaken' = FALSE
  /\ UNCHANGED <<kind, header, now, text, written, touched, watermark, changes>>

\* The copy fails when the file is made or when its log is, and the pass with it: what
\* has been copied is not read.
CopyFails ==
  /\ at = "idle" /\ kind = "history" /\ Needed
  /\ faults < MaxFault /\ faults' = faults + 1
  /\ Snapshot \/ UNCHANGED <<copy, copied>>
  /\ current' = FALSE
  /\ UNCHANGED <<kind, header, now, text, written, touched, meta, index, watermark,
                 at, overtaken, changes>>

Stamp ==
  /\ at = "stamp" /\ at' = "idle" /\ watermark' = now
  /\ UNCHANGED <<kind, header, now, text, written, touched, copy, copied, meta, index,
                 current, overtaken, changes, faults>>

Next ==
  \/ Tick \/ Restart \/ (\E s \in Slot : Change(s))
  \/ Pass(TRUE) \/ Pass(FALSE) \/ CopyFails \/ Stamp

\* The daemon's ticks go on: a pass starts sooner or later while the source has changes.
PassStarts == at = "idle" /\ HasChangesSince /\ at' = "stamp"
Spec == Init /\ [][Next]_vars /\ WF_at(PassStarts) /\ WF_vars(Stamp)

-----------------------------------------------------------------------------
(* Properties.                                                             *)

\* The positions of slot s that a chunk shows as they are.
Shown(s, c) ==
  UNION {c[i].from..c[i].to : i \in {j \in 1..Len(c) : c[j].slot = s /\ c[j].text = text[s]}}

\* The file has the time and the size that it had when it was read, or could not be;
\* the history has the time that it had when it was copied.
Unseen(s) ==
  \/ kind = "notebook" /\ copy[s].at = written[s] /\ copy[s].size = text[s].size
     /\ copy[s].content # text[s]
  \/ kind = "history" /\ meta.source = touched /\ copy[s].content # text[s]

\* The chunks that are left out for their low value.
LeftOut ==
  LET chunks == Chunks(kind, header, Messages(kind, text))
  IN  {chunks[i] : i \in {j \in 1..Len(chunks) : ~Kept(chunks[j])}}

AllFound ==
  \A s \in {t \in Slot : text[t] # NoText} :
    \/ Unseen(s)
    \/ kind = "whatsapp" /\ text[s].size <= ShortMessage
    \/ (1..text[s].size) \ White(text[s]) \subseteq
         UNION {Shown(s, c) : c \in {index[k] : k \in DOMAIN index} \cup LeftOut}

\* Every word of what a pass has read is in a row of the index, wherever a thread, chat
\* or file is cut, until the record changes (app_gmail.go:1320-1467,
\* whatsapp/source.go:357-498, extract.go:60-83, scanner.go:191-225).
ReadTextIsFound == current /\ kind # "drive" => AllFound

\* No chunk is longer than ChunkMaxChars (core/helpers.go:236), but for a header that
\* leaves no room for text, and the rest of a word at the end of a chunk of a note.
ChunksFit ==
  kind \in {"gmail", "whatsapp", "notebook", "drive"} =>
    \A c \in {index[k] : k \in DOMAIN index} :
      \/ Size(header, c) <= ChunkMaxChars \/ header >= ChunkMaxChars
      \/ /\ kind = "notebook"
         /\ (c[1].from + ChunkMaxChars)..c[1].to \cap White(c[1].text) = {}

\* What is read in place is found by ticks alone once it has ceased to change, unless
\* it changed between the reading of a pass and its stamp (app_gmail.go, source.go:115,
\* gsuite/source.go:234, indexer.go:58).
ChangesAreFound ==
  kind \in ReadInPlace \ {"drive"} => <>[](AllFound \/ overtaken)

\* docs/spec.md:665 has "Document text content (prefixed with owner names, chunked at ~2000 chars"
\* in the index: all chunks of a document.
DriveTextIsFound == current /\ kind = "drive" => AllFound
=============================================================================
