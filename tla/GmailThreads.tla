----------------------------- MODULE GmailThreads -----------------------------
(***************************************************************************)
(* Gmail in gsuite.db: the messages that the daemon's poll copies, the     *)
(* full-text table that triggers keep, the threads that are derived from   *)
(* the messages, and the copy of the threads in search.db.                 *)
(*                                                                         *)
(* Threads are rebuilt by every sync, and by every process that opens the  *)
(* database and finds none, as it may in the middle of a rebuild of        *)
(* another.  A rebuild is not one transaction: messages are read, all      *)
(* threads deleted, and the new ones inserted one after the other.         *)
(*                                                                         *)
(* A row of gmail_threads is the set of messages it was derived from: its  *)
(* subject, participants, count and dates follow from it.  A message never *)
(* changes; what its words are is in module VisibleBody.                   *)
(***************************************************************************)
EXTENDS Naturals, FiniteSets

CONSTANTS
  Message,       \* ids of messages
  Thread,        \* ids of threads, in the order of their strings
  ThreadOf,      \* of every message
  MaxChange,     \* bound on messages that arrive, are trashed or restored
  MaxFault,      \* bound on failed calls, deaths of the daemon and resets of the app
  MaxOpen        \* bound on processes that open gsuite.db

ASSUME ThreadAssumption ==
  /\ Thread \in SUBSET Nat /\ IsFiniteSet(Thread)
  /\ ThreadOf \in [Message -> Thread]
ASSUME BoundAssumption ==
  MaxChange \in Nat /\ MaxFault \in Nat /\ MaxOpen \in Nat

VARIABLES
  box,           \* Google's side: the messages not in the trash
  rowid,         \* table gmail_messages: the rowid of every message, or 0
  fts,           \* gmail_messages_fts: [row, words], words being those of a message
  threads,       \* table gmail_threads
  indexed,       \* threads of Gmail in search.db
  at,            \* where the sync and the process that opens the database are
  remoteIDs,     \* messages the sync has listed
  loaded,        \* the messages each rebuild has read
  pending,       \* the threads it has yet to insert
  absent,        \* history: messages not in the box at some time of the sync
  torn,          \* history: were the threads dropped, or last written by a rebuild
                 \* that failed, died, met another or had read the messages before a change?
  since,         \* history: messages that came or went since a rebuild last read them
  changes, faults, opens   \* so far

tables == <<rowid, fts, threads>>
rebuilds == <<at, loaded, pending>>
counters == <<changes, faults, opens>>
vars == <<box, tables, indexed, rebuilds, remoteIDs, absent, torn, since, counters>>

Process == {"sync", "open"}
Rebuilding(p) == at[p] \in {"delete", "insert"}
Stored == {m \in Message : rowid[m] # 0}
Live == {t \in Thread : threads[t] # {}}

TypeOK ==
  /\ box \subseteq Message /\ rowid \in [Message -> Nat]
  /\ fts \subseteq [row : Nat \ {0}, words : Message]
  /\ threads \in [Thread -> SUBSET Message] /\ indexed \subseteq Thread
  /\ at \in [Process -> {"idle", "list", "orphans", "load", "delete", "insert"}]
  /\ remoteIDs \subseteq Message /\ absent \subseteq Message
  /\ loaded \in [Process -> SUBSET Message]
  /\ pending \in [Process -> SUBSET Thread] /\ torn \in BOOLEAN /\ since \subseteq Message
  /\ changes \in 0..MaxChange /\ faults \in 0..MaxFault
  /\ opens \in 0..MaxOpen

Init ==
  /\ box \in SUBSET Message
  /\ rowid = [m \in Message |-> 0] /\ fts = {}
  /\ threads = [t \in Thread |-> {}] /\ indexed = {}
  /\ at = [p \in Process |-> "idle"] /\ remoteIDs = {} /\ absent = {}
  /\ loaded = [p \in Process |-> {}] /\ pending = [p \in Process |-> {}]
  /\ torn = FALSE /\ since = {} /\ changes = 0 /\ faults = 0 /\ opens = 0

Fault == faults < MaxFault /\ faults' = faults + 1
Goto(p, place) == at' = [at EXCEPT ![p] = place]

\* With what it had in memory.
Leave(p) ==
  /\ Goto(p, "idle")
  /\ loaded' = [loaded EXCEPT ![p] = {}] /\ pending' = [pending EXCEPT ![p] = {}]
  /\ IF p = "sync" THEN remoteIDs' = {} /\ absent' = {} ELSE UNCHANGED <<remoteIDs, absent>>

-----------------------------------------------------------------------------
(* Google's side.                                                          *)

ChangeBox ==
  /\ changes < MaxChange /\ changes' = changes + 1
  /\ \E m \in Message :
       /\ box' = IF m \in box THEN box \ {m} ELSE box \cup {m}
       /\ absent' = IF at["sync"] = "list" THEN absent \cup {m} ELSE absent
  /\ UNCHANGED <<tables, indexed, rebuilds, remoteIDs, torn, since, faults, opens>>

-----------------------------------------------------------------------------
(* The sync.                                                               *)

StartSync ==
  /\ at["sync"] = "idle" /\ Goto("sync", "list")
  /\ remoteIDs' = {} /\ absent' = Message \ box
  /\ UNCHANGED <<box, tables, indexed, loaded, pending, torn, since, counters>>

\* Mutant of Insert: the words are left to the next time the database is opened.
InsertUnindexed(m) ==
  LET r == 1 + CHOOSE k \in {rowid[n] : n \in Message} : \A n \in Message : k >= rowid[n]
  IN  rowid' = [rowid EXCEPT ![m] = r] /\ UNCHANGED fts

\* INSERT OR REPLACE of a message that has no row: SQLite gives it the rowid after
\* the largest, and the insert trigger adds its words.
Insert(m) ==
  LET r == 1 + CHOOSE k \in {rowid[n] : n \in Message} : \A n \in Message : k >= rowid[n]
  IN  /\ rowid' = [rowid EXCEPT ![m] = r]
      /\ fts' = fts \cup {[row |-> r, words |-> m]}

\* A listed message is fetched and stored unless it has a row; one that cannot be
\* fetched counts as listed.
ListMessage(m) ==
  /\ at["sync"] = "list" /\ m \in box \ remoteIDs
  /\ remoteIDs' = remoteIDs \cup {m}
  /\ \/ m \in Stored /\ UNCHANGED <<rowid, fts, since, faults>>
     \/ m \notin Stored /\ Insert(m) /\ since' = since \cup {m} /\ UNCHANGED faults
     \/ m \notin Stored /\ Fault /\ UNCHANGED <<rowid, fts, since>>
  /\ UNCHANGED <<box, threads, indexed, rebuilds, absent, torn, changes, opens>>

\* The last page has been read: everything is listed that was there all the time.
EndList ==
  /\ at["sync"] = "list" /\ box \ absent \subseteq remoteIDs
  /\ Goto("sync", "orphans")
  /\ UNCHANGED <<box, tables, indexed, loaded, pending, remoteIDs, absent, torn, since, counters>>

\* Listing fails: the sync ends without looking at the threads.
ListFails ==
  /\ at["sync"] = "list" /\ Fault /\ Leave("sync")
  /\ UNCHANGED <<box, tables, indexed, torn, since, changes, opens>>

\* deleteOrphanedRows: the delete trigger removes nothing from an external-content
\* table, since the row it would look the words up in is gone.
DeleteOrphans ==
  /\ at["sync"] = "orphans" /\ Goto("sync", "load")
  /\ rowid' = [m \in Message |-> IF m \in remoteIDs THEN rowid[m] ELSE 0]
  /\ since' = since \cup (Stored \ remoteIDs)
  /\ UNCHANGED <<box, fts, threads, indexed, loaded, pending, remoteIDs, absent, torn, counters>>

-----------------------------------------------------------------------------
(* rebuildAllGmailThreads, in the sync or when the database is opened.     *)

\* buildGmailThreadRecords: the messages of every thread.
Derived(S) == [t \in Thread |-> {m \in S : ThreadOf[m] = t}]

Load(p) ==
  /\ at[p] = "load" /\ Goto(p, "delete")
  /\ loaded' = [loaded EXCEPT ![p] = Stored]
  /\ UNCHANGED <<box, tables, indexed, pending, remoteIDs, absent, torn, since, counters>>

\* What the messages have become since they were read is not in the threads.
DeleteThreads(p) ==
  /\ at[p] = "delete" /\ Goto(p, "insert")
  /\ threads' = [t \in Thread |-> {}]
  /\ pending' = [pending EXCEPT ![p] = {t \in Thread : Derived(loaded[p])[t] # {}}]
  /\ since' = (loaded[p] \ Stored) \cup (Stored \ loaded[p])
  /\ torn' = (loaded[p] # Stored \/ \E q \in Process \ {p} : Rebuilding(q))
  /\ UNCHANGED <<box, rowid, fts, indexed, loaded, remoteIDs, absent, counters>>

\* Mutant of InsertThread: it ends with the last thread but one.
InsertThreadButOne(p) ==
  /\ at[p] = "insert"
  /\ IF Cardinality(pending[p]) <= 1
       THEN Leave(p) /\ UNCHANGED threads
       ELSE \E t \in pending[p] :
              /\ threads' = [threads EXCEPT ![t] = Derived(loaded[p])[t]]
              /\ pending' = [pending EXCEPT ![p] = @ \ {t}]
              /\ UNCHANGED <<at, loaded, remoteIDs, absent>>
  /\ UNCHANGED <<box, rowid, fts, indexed, torn, since, counters>>

\* The INSERT of the next thread, which ends the rebuild when another process has
\* put it there (primary key) or the database fails.
InsertThread(p) ==
  /\ at[p] = "insert"
  /\ \/ pending[p] = {} /\ Leave(p) /\ UNCHANGED <<threads, torn, faults>>
     \/ \E t \in pending[p] :
          /\ \A u \in pending[p] : t <= u
          /\ IF threads[t] = {}
               THEN /\ threads' = [threads EXCEPT ![t] = Derived(loaded[p])[t]]
                    /\ pending' = [pending EXCEPT ![p] = @ \ {t}]
                    /\ UNCHANGED <<at, loaded, remoteIDs, absent, torn>>
               ELSE Leave(p) /\ torn' = TRUE /\ UNCHANGED threads
          /\ UNCHANGED faults
     \/ /\ pending[p] # {} /\ Fault /\ Leave(p) /\ torn' = TRUE
        /\ UNCHANGED threads
  /\ UNCHANGED <<box, rowid, fts, indexed, since, changes, opens>>

-----------------------------------------------------------------------------
(* The other processes.                                                    *)

\* initGmailSchema of a process that opens the database.
Open ==
  /\ at["open"] = "idle" /\ opens < MaxOpen /\ opens' = opens + 1
  /\ Goto("open", IF Live = {} THEN "load" ELSE "idle")
  /\ UNCHANGED <<box, tables, indexed, loaded, pending, remoteIDs, absent, torn,
                 since, changes, faults>>

\* ResetApp: the tables are dropped and made again, and the full-text table with
\* its triggers.
ResetApp ==
  /\ Fault /\ at["open"] = "idle"
  /\ rowid' = [m \in Message |-> 0] /\ fts' = {}
  /\ threads' = [t \in Thread |-> {}] /\ torn' = TRUE /\ since' = {}
  /\ UNCHANGED <<box, indexed, rebuilds, remoteIDs, absent, changes, opens>>

\* The daemon dies, and its rebuild with it; so does the process that opens.
Die(p) ==
  /\ at[p] # "idle" /\ Fault /\ Leave(p)
  /\ torn' = (torn \/ Rebuilding(p))
  /\ UNCHANGED <<box, tables, indexed, since, changes, opens>>

\* A full pass: gmailStreamSearchEntries reads the threads there are, and the index
\* keeps no other.
IndexFullPass ==
  /\ indexed' = Live
  /\ UNCHANGED <<box, tables, rebuilds, remoteIDs, absent, torn, since, counters>>

-----------------------------------------------------------------------------

RebuildStep(p) == Load(p) \/ DeleteThreads(p) \/ InsertThread(p)
SyncStep ==
  StartSync \/ (\E m \in Message : ListMessage(m)) \/ EndList \/ DeleteOrphans \/ RebuildStep("sync")

Next ==
  \/ ChangeBox \/ SyncStep \/ ListFails \/ RebuildStep("open")
  \/ Open \/ ResetApp \/ IndexFullPass
  \/ \E p \in Process : Die(p)

\* The poll loop goes on, and so does a process that has opened the database.
Spec == Init /\ [][Next]_vars /\ WF_vars(SyncStep) /\ WF_vars(RebuildStep("open"))

-----------------------------------------------------------------------------
(* Properties.                                                             *)

\* While nobody is at them the threads are those of the stored messages, unless
\* the last rebuild was torn or the last sync ended before its rebuild; and every
\* stored message is found by its words (app_gmail.go:117-172, 1107-1126).
ThreadsMatchMessages ==
  /\ ~torn /\ since = {} /\ (\A p \in Process : ~Rebuilding(p)) => threads = Derived(Stored)
  /\ \A m \in Stored : [row |-> rowid[m], words |-> m] \in fts

\* Whatever has torn the threads, once failures, openings and changes have ceased
\* every sync ends with the messages in the box and their threads.
MailboxIsMirrored ==
  <>[](at["sync"] = "idle" => Stored = box /\ threads = Derived(box))

\* A thread only leaves the search index when its messages are gone or new, or when
\* a pass reads the threads while a rebuild is under way or after one that was torn
\* (app_gmail.go:807-858, 1113).
IndexedThreadsStay ==
  [][\A t \in indexed \ indexed' :
       \/ Derived(Stored \ since)[t] = {} \/ torn
       \/ \E p \in Process : at[p] = "insert"]_vars
=============================================================================
