-------------------------- MODULE GmailThreadsProofs --------------------------
(***************************************************************************)
(* Proofs about GmailThreads for any messages, threads and bounds: when    *)
(* nobody is at them the threads are those of the stored messages unless   *)
(* they are known to be torn, stored messages are found by their words,    *)
(* and an index pass only forgets threads that it should.                  *)
(***************************************************************************)
EXTENDS GmailThreads, WellFoundedInduction, TLAPS

\* What the actions need to know of types.
Types ==
  /\ rowid = [m \in Message |-> rowid[m]]
  /\ threads \in [Thread -> SUBSET Message]
  /\ at \in [Process -> {"idle", "list", "orphans", "load", "delete", "insert"}]
  /\ loaded \in [Process -> SUBSET Message] /\ pending \in [Process -> SUBSET Thread]
  /\ torn \in BOOLEAN /\ indexed \subseteq Thread

\* The messages by which two sets of them differ.
Apart(S, T) == (S \ T) \cup (T \ S)

\* A rebuild that nothing has met has inserted the threads it is through with.
InsertsAreWhole ==
  torn = FALSE => \A p \in Process : at[p] = "insert" =>
    /\ threads = [t \in Thread |-> IF t \in pending[p] THEN {} ELSE Derived(loaded[p])[t]]
    /\ Apart(loaded[p], Stored) \subseteq since

\* No other inserts beside it.
OneInserts ==
  torn = FALSE => \A p, q \in Process : at[p] = "insert" /\ at[q] = "insert" => p = q

\* Between rebuilds the threads are those of messages that were stored when the last read
\* them; `since` has what came or went after that.
ThreadsAreOfMessages ==
  torn = FALSE /\ (\A p \in Process : at[p] # "insert") =>
    \E S \in SUBSET Message : threads = Derived(S) /\ Apart(S, Stored) \subseteq since

\* The trigger has put in the words of every message that has a row.
WordsAreIn == \A m \in Stored : [row |-> rowid[m], words |-> m] \in fts

RebuildInv == InsertsAreWhole /\ OneInserts /\ ThreadsAreOfMessages
IInv == Types /\ RebuildInv /\ WordsAreIn

-----------------------------------------------------------------------------
(* Types.                                                                  *)

\* A process that leaves has nothing in memory.
LEMMA LeaveIsClean ==
  ASSUME Types, NEW p \in Process, Leave(p)
  PROVE  /\ at' \in [Process -> {"idle", "list", "orphans", "load", "delete", "insert"}]
         /\ loaded' \in [Process -> SUBSET Message] /\ pending' \in [Process -> SUBSET Thread]
         /\ at'[p] = "idle"
         /\ \A q \in Process \ {p} :
              at'[q] = at[q] /\ loaded'[q] = loaded[q] /\ pending'[q] = pending[q]
BY DEF Types, Leave, Goto

\* Every step leaves rows, threads and processes of their types.
LEMMA NextKeepsTypes == Types /\ [Next]_vars => Types'
<1>. SUFFICES ASSUME Types, [Next]_vars PROVE Types'
  OBVIOUS
<1>. USE DEF Types
<1>1. CASE ChangeBox \/ IndexFullPass \/ UNCHANGED vars
  BY <1>1 DEF ChangeBox, IndexFullPass, Live, vars, tables, rebuilds
<1>2. CASE StartSync \/ EndList \/ Open
  BY <1>2 DEF StartSync, EndList, Open, Goto, Process, tables
<1>3. CASE ListFails
  BY <1>3, LeaveIsClean DEF ListFails, Process, tables
<1>4. ASSUME NEW m \in Message, ListMessage(m) PROVE Types'
  BY <1>4 DEF ListMessage, Insert, rebuilds
<1>5. CASE DeleteOrphans
  BY <1>5 DEF DeleteOrphans, Goto, Process
<1>6. ASSUME NEW p \in Process, Load(p) PROVE Types'
  BY <1>6 DEF Load, Goto, Stored, tables
<1>7. ASSUME NEW p \in Process, DeleteThreads(p) PROVE Types'
  <2>1. at' \in [Process -> {"idle", "list", "orphans", "load", "delete", "insert"}]
    BY <1>7 DEF DeleteThreads, Goto
  <2>2. pending' \in [Process -> SUBSET Thread]
    BY <1>7 DEF DeleteThreads
  <2>3. torn' \in BOOLEAN
    BY <1>7 DEF DeleteThreads
  <2>. QED  BY <1>7, <2>1, <2>2, <2>3 DEF DeleteThreads
<1>8. ASSUME NEW p \in Process, InsertThread(p) PROVE Types'
  <2>1. CASE Leave(p) /\ threads' = threads /\ (torn' = torn \/ torn' = TRUE)
    BY <1>8, <2>1, LeaveIsClean DEF InsertThread
  <2>2. ASSUME NEW t \in pending[p], threads' = [threads EXCEPT ![t] = Derived(loaded[p])[t]],
               pending' = [pending EXCEPT ![p] = @ \ {t}], UNCHANGED <<at, loaded, torn>>
        PROVE  Types'
    <3>1. t \in Thread
      OBVIOUS
    <3>2. Derived(loaded[p])[t] \subseteq Message
      BY <3>1 DEF Derived
    <3>. QED  BY <1>8, <2>2, <3>1, <3>2 DEF InsertThread
  <2>. QED  BY <1>8, <2>1, <2>2 DEF InsertThread
<1>9. CASE ResetApp
  BY <1>9 DEF ResetApp, rebuilds
<1>10. ASSUME NEW p \in Process, Die(p) PROVE Types'
  BY <1>10, LeaveIsClean DEF Die, tables
<1>. QED  BY <1>1, <1>2, <1>3, <1>4, <1>5, <1>6, <1>7, <1>8, <1>9, <1>10
          DEF Next, SyncStep, RebuildStep, Process

-----------------------------------------------------------------------------
(* Rebuilds.                                                               *)

\* Of threads that are torn nothing is said.
LEMMA TornIsKnown == torn' = TRUE => RebuildInv'
BY DEF RebuildInv, InsertsAreWhole, OneInserts, ThreadsAreOfMessages

\* A step that inserts no thread, and counts every message that comes or goes, keeps what
\* is said of threads.
LEMMA MessagesMayChange ==
  ASSUME RebuildInv, UNCHANGED <<threads, torn>>,
         \A p \in Process :
           /\ at'[p] = "insert" <=> at[p] = "insert"
           /\ at'[p] = "insert" => loaded'[p] = loaded[p] /\ pending'[p] = pending[p],
         since \subseteq since', Apart(Stored, Stored') \subseteq since'
  PROVE  RebuildInv'
<1>. USE DEF RebuildInv
<1>1. \A S : Apart(S, Stored) \subseteq since => Apart(S, Stored') \subseteq since'
  BY DEF Apart
<1>2. OneInserts'
  BY DEF OneInserts
<1>3. ThreadsAreOfMessages'
  <2>. SUFFICES ASSUME torn' = FALSE, \A p \in Process : at'[p] # "insert"
                PROVE  \E S \in SUBSET Message :
                         threads' = Derived(S) /\ Apart(S, Stored') \subseteq since'
    BY DEF ThreadsAreOfMessages, Derived, Apart
  <2>1. PICK S \in SUBSET Message : threads = Derived(S) /\ Apart(S, Stored) \subseteq since
    BY DEF ThreadsAreOfMessages
  <2>. QED  BY <1>1, <2>1
<1>4. InsertsAreWhole'
  <2>. SUFFICES ASSUME torn' = FALSE, NEW p \in Process, at'[p] = "insert"
                PROVE  /\ threads' = [t \in Thread |-> IF t \in pending'[p] THEN {}
                                                       ELSE Derived(loaded'[p])[t]]
                       /\ Apart(loaded'[p], Stored') \subseteq since'
    BY DEF InsertsAreWhole, Apart, Derived
  <2>. QED  BY <1>1 DEF InsertsAreWhole
<1>. QED  BY <1>2, <1>3, <1>4

\* The rebuild deletes the threads: what it will insert is all that is to come.
LEMMA DeleteKeepsInv ==
  ASSUME Types, NEW p \in Process, DeleteThreads(p)
  PROVE  RebuildInv'
<1>. SUFFICES ASSUME torn' = FALSE PROVE RebuildInv'
  BY TornIsKnown DEF DeleteThreads
<1>1. loaded[p] = Stored /\ \A q \in Process \ {p} : ~Rebuilding(q)
  BY DEF DeleteThreads
<1>2. at' = [at EXCEPT ![p] = "insert"]
  BY DEF DeleteThreads, Goto
<1>3. \A q \in Process : at'[q] = "insert" => q = p
  BY <1>1, <1>2 DEF Types, Rebuilding
<1>4. at'[p] = "insert"
  BY <1>2 DEF Types
<1>5. pending'[p] = {t \in Thread : Derived(loaded[p])[t] # {}} /\ loaded' = loaded
  BY DEF DeleteThreads, Types
<1>6. threads' = [t \in Thread |-> {}] /\ Stored' = Stored
  BY DEF DeleteThreads, Stored
<1>7. threads' = [t \in Thread |-> IF t \in pending'[p] THEN {} ELSE Derived(loaded[p])[t]]
  BY <1>5, <1>6
<1>8. Apart(loaded[p], Stored') = {}
  BY <1>1, <1>6 DEF Apart
<1>9. InsertsAreWhole'
  BY <1>3, <1>5, <1>7, <1>8 DEF InsertsAreWhole, Derived, Apart
<1>10. OneInserts' /\ ThreadsAreOfMessages'
  BY <1>3, <1>4 DEF OneInserts, ThreadsAreOfMessages
<1>. QED  BY <1>9, <1>10 DEF RebuildInv

\* The rebuild inserts a thread, ends, or is torn.
LEMMA InsertKeepsInv ==
  ASSUME Types, RebuildInv, NEW p \in Process, InsertThread(p)
  PROVE  RebuildInv'
<1>. USE DEF RebuildInv
<1>. SUFFICES ASSUME torn' = FALSE, torn = FALSE PROVE RebuildInv'
  BY TornIsKnown DEF InsertThread, Types
<1>1. at[p] = "insert" /\ Stored' = Stored /\ since' = since
  BY DEF InsertThread, Stored
<1>2. \A q \in Process : at[q] = "insert" => q = p
  BY <1>1 DEF OneInserts
<1>3. threads = [t \in Thread |-> IF t \in pending[p] THEN {} ELSE Derived(loaded[p])[t]]
  BY <1>1 DEF InsertsAreWhole
<1>4. Apart(loaded[p], Stored) \subseteq since
  BY <1>1 DEF InsertsAreWhole
<1>5. CASE pending[p] = {} /\ Leave(p) /\ threads' = threads
  <2>1. \A q \in Process : at'[q] # "insert"
    BY <1>2, <1>5, LeaveIsClean
  <2>2. threads' = Derived(loaded[p])
    BY <1>3, <1>5 DEF Derived
  <2>3. loaded[p] \in SUBSET Message
    BY DEF Types
  <2>4. ThreadsAreOfMessages'
    <3>1. \E S \in SUBSET Message : threads' = Derived(S) /\ Apart(S, Stored') \subseteq since'
      BY <1>1, <1>4, <2>2, <2>3
    <3>. QED  BY <3>1 DEF ThreadsAreOfMessages, Derived, Apart
  <2>5. InsertsAreWhole' /\ OneInserts'
    BY <2>1 DEF InsertsAreWhole, OneInserts
  <2>. QED  BY <2>4, <2>5
<1>6. ASSUME NEW t \in pending[p], threads' = [threads EXCEPT ![t] = Derived(loaded[p])[t]],
             pending' = [pending EXCEPT ![p] = @ \ {t}], UNCHANGED <<at, loaded>>
      PROVE  RebuildInv'
  <2>1. pending'[p] = pending[p] \ {t} /\ t \in Thread
    BY <1>6 DEF Types
  <2>2. threads' = [u \in Thread |-> IF u \in pending'[p] THEN {} ELSE Derived(loaded[p])[u]]
    BY <1>3, <1>6, <2>1
  <2>3. InsertsAreWhole'
    <3>. SUFFICES ASSUME NEW q \in Process, at'[q] = "insert"
                  PROVE  /\ threads' = [u \in Thread |-> IF u \in pending'[q] THEN {}
                                                         ELSE Derived(loaded'[q])[u]]
                         /\ Apart(loaded'[q], Stored') \subseteq since'
      BY DEF InsertsAreWhole, Derived, Apart
    <3>1. q = p
      BY <1>2, <1>6
    <3>. QED  BY <1>1, <1>4, <1>6, <2>2, <3>1
  <2>4. OneInserts' /\ ThreadsAreOfMessages'
    BY <1>1, <1>2, <1>6 DEF OneInserts, ThreadsAreOfMessages
  <2>. QED  BY <2>3, <2>4
<1>. QED  BY <1>5, <1>6 DEF InsertThread

\* Every step keeps what is said of rebuilds, or is known to tear the threads.
LEMMA NextKeepsRebuilds == Types /\ RebuildInv /\ [Next]_vars => RebuildInv'
<1>. SUFFICES ASSUME Types, RebuildInv, [Next]_vars PROVE RebuildInv'
  OBVIOUS
<1>1. CASE ChangeBox \/ IndexFullPass \/ UNCHANGED vars
  <2>1. UNCHANGED <<tables, rebuilds, torn, since>>
    BY <1>1 DEF ChangeBox, IndexFullPass, vars
  <2>2. Apart(Stored, Stored') = {}
    BY <2>1 DEF Apart, Stored, tables
  <2>. QED  BY <2>1, <2>2, MessagesMayChange DEF tables, rebuilds
<1>2. ASSUME NEW p \in Process, at[p] # "insert", at'[p] # "insert",
             \A q \in Process \ {p} :
               at'[q] = at[q] /\ loaded'[q] = loaded[q] /\ pending'[q] = pending[q],
             UNCHANGED <<tables, since, torn>>
      PROVE  RebuildInv'
  <2>1. Apart(Stored, Stored') = {}
    BY <1>2 DEF Apart, Stored, tables
  <2>2. \A q \in Process : /\ at'[q] = "insert" <=> at[q] = "insert"
                           /\ at'[q] = "insert" => loaded'[q] = loaded[q] /\ pending'[q] = pending[q]
    BY <1>2
  <2>. QED  BY <1>2, <2>1, <2>2, MessagesMayChange DEF tables
<1>3. CASE StartSync \/ EndList
  BY <1>2, <1>3 DEF StartSync, EndList, Goto, Types, Process
<1>4. CASE Open
  BY <1>2, <1>4 DEF Open, Goto, Types, Process
<1>5. CASE ListFails
  <2>1. Leave("sync") /\ at["sync"] = "list" /\ UNCHANGED <<tables, since, torn>>
    BY <1>5 DEF ListFails
  <2>. QED  BY <1>2, <2>1, LeaveIsClean DEF Process
<1>6. ASSUME NEW p \in Process, Load(p) PROVE RebuildInv'
  BY <1>2, <1>6 DEF Load, Goto, Types
<1>7. ASSUME NEW m \in Message, ListMessage(m) PROVE RebuildInv'
  <2>1. UNCHANGED <<threads, rebuilds, torn>> /\ since \subseteq since'
    BY <1>7 DEF ListMessage
  <2>2. Apart(Stored, Stored') \subseteq since'
    <3>1. CASE UNCHANGED rowid
      BY <3>1 DEF Apart, Stored
    <3>2. CASE Insert(m) /\ since' = since \cup {m}
      <4>1. \A n \in Message \ {m} : rowid'[n] = rowid[n]
        BY <3>2 DEF Insert, Types
      <4>. QED  BY <3>2, <4>1 DEF Apart, Stored
    <3>. QED  BY <1>7, <3>1, <3>2 DEF ListMessage
  <2>. QED  BY <2>1, <2>2, MessagesMayChange DEF rebuilds
<1>8. CASE DeleteOrphans
  <2>1. UNCHANGED <<threads, loaded, pending, torn>> /\ since \subseteq since'
    BY <1>8 DEF DeleteOrphans
  <2>2. Apart(Stored, Stored') \subseteq since'
    BY <1>8 DEF DeleteOrphans, Apart, Stored
  <2>3. \A q \in Process : at'[q] = "insert" <=> at[q] = "insert"
    BY <1>8 DEF DeleteOrphans, Goto, Types, Process
  <2>. QED  BY <2>1, <2>2, <2>3, MessagesMayChange
<1>9. ASSUME NEW p \in Process, Die(p) PROVE RebuildInv'
  <2>1. CASE Rebuilding(p)
    BY <1>9, <2>1, TornIsKnown DEF Die
  <2>2. CASE ~Rebuilding(p)
    <3>1. Leave(p) /\ at[p] # "insert" /\ UNCHANGED <<tables, since>>
      BY <1>9, <2>2 DEF Die, Rebuilding
    <3>2. torn' = torn
      BY <1>9, <2>2 DEF Die, Types
    <3>. QED  BY <1>2, <3>1, <3>2, LeaveIsClean
  <2>. QED  BY <2>1, <2>2
<1>10. CASE ResetApp
  BY <1>10, TornIsKnown DEF ResetApp
<1>. QED  BY <1>1, <1>3, <1>4, <1>5, <1>6, <1>7, <1>8, <1>9, <1>10, DeleteKeepsInv, InsertKeepsInv
          DEF Next, SyncStep, RebuildStep, Process

-----------------------------------------------------------------------------
(* Words.                                                                  *)

\* Only a reset removes words, and it removes the rows with them.
LEMMA NextKeepsWords == Types /\ WordsAreIn /\ [Next]_vars => WordsAreIn'
<1>. SUFFICES ASSUME Types, WordsAreIn, [Next]_vars PROVE WordsAreIn'
  OBVIOUS
<1>1. UNCHANGED <<rowid, fts>> => WordsAreIn'
  BY DEF WordsAreIn, Stored
<1>2. ASSUME NEW m \in Message, Insert(m) PROVE WordsAreIn'
  <2>1. [row |-> rowid'[m], words |-> m] \in fts' /\ fts \subseteq fts'
    BY <1>2 DEF Insert, Types
  <2>2. \A n \in Message \ {m} : rowid'[n] = rowid[n]
    BY <1>2 DEF Insert, Types
  <2>. QED  BY <2>1, <2>2 DEF WordsAreIn, Stored
<1>3. ASSUME NEW m \in Message, ListMessage(m) PROVE WordsAreIn'
  BY <1>1, <1>2, <1>3 DEF ListMessage
<1>4. CASE DeleteOrphans
  BY <1>4 DEF DeleteOrphans, WordsAreIn, Stored
<1>5. CASE ResetApp
  BY <1>5 DEF ResetApp, WordsAreIn, Stored
<1>6. ASSUME NEW p \in Process, RebuildStep(p) \/ Die(p) PROVE UNCHANGED <<rowid, fts>>
  BY <1>6 DEF RebuildStep, Load, DeleteThreads, InsertThread, Die, tables
<1>7. CASE ChangeBox \/ StartSync \/ EndList \/ ListFails \/ Open \/ IndexFullPass \/ UNCHANGED vars
  BY <1>1, <1>7 DEF ChangeBox, StartSync, EndList, ListFails, Open, IndexFullPass, vars, tables
<1>. QED  BY <1>1, <1>3, <1>4, <1>5, <1>6, <1>7 DEF Next, SyncStep, Process

-----------------------------------------------------------------------------
(* The rest of the types.                                                  *)

\* Rowids are numbers and there is a largest one: SQLite finds the next.
Rowids == rowid \in [Message -> Nat] /\ \E N \in Nat : \A m \in Message : rowid[m] <= N
Rest ==
  /\ box \subseteq Message /\ Rowids /\ fts \subseteq [row : Nat \ {0}, words : Message]
  /\ remoteIDs \subseteq Message /\ absent \subseteq Message /\ since \subseteq Message
  /\ changes \in 0..MaxChange /\ faults \in 0..MaxFault /\ opens \in 0..MaxOpen

\* A set of numbers with a bound has a largest, if any.
LEMMA LargestIsThere ==
  ASSUME NEW N \in Nat, NEW S \in SUBSET Nat, S # {}, \A x \in S : x <= N
  PROVE  \E k \in S : \A x \in S : k >= x
<1>. DEFINE R == OpToRel(<, Nat)
            T == {N - x : x \in S}
<1>1. IsWellFoundedOn(R, Nat)
  BY NatLessThanWellFounded
<1>2. \A x, y \in Nat : x < y => <<x, y>> \in R
  BY DEF OpToRel
<1>3. T \in SUBSET Nat /\ T # {}
  <2>1. ASSUME NEW x \in S PROVE N - x \in Nat
    OBVIOUS
  <2>. QED  BY <2>1
<1>. HIDE DEF R
<1>4. PICK t \in T : \A y \in T : ~ (<<y, t>> \in R)
  <2>. HIDE DEF T
  <2>. QED  BY <1>1, <1>3, WFMin
<1>5. PICK k \in S : t = N - k
  BY <1>4
<1>6. ASSUME NEW x \in S PROVE k >= x
  <2>1. N - x \in T /\ N - x \in Nat /\ t \in Nat
    BY <1>3, <1>4
  <2>2. ~(N - x < t)
    BY <1>2, <1>4, <2>1
  <2>. QED  BY <1>5, <2>1, <2>2
<1>. QED  BY <1>6

\* The rowid of a message that is inserted is larger than all others.
LEMMA InsertIsTyped ==
  ASSUME Rowids, NEW m \in Message, Insert(m), fts \subseteq [row : Nat \ {0}, words : Message]
  PROVE  Rowids' /\ fts' \subseteq [row : Nat \ {0}, words : Message]
<1>. DEFINE used == {rowid[n] : n \in Message}
            k == CHOOSE x \in used : \A n \in Message : x >= rowid[n]
<1>1. PICK N \in Nat : \A n \in Message : rowid[n] <= N
  BY DEF Rowids
<1>2. used \in SUBSET Nat /\ used # {} /\ \A x \in used : x <= N
  BY <1>1 DEF Rowids
<1>3. PICK x \in used : \A y \in used : x >= y
  <2>. HIDE DEF used
  <2>. QED  BY <1>2, LargestIsThere
<1>4. \E y \in used : \A n \in Message : y >= rowid[n]
  BY <1>3
<1>5. k \in used /\ \A n \in Message : k >= rowid[n]
  <2>. HIDE DEF used
  <2>. QED  BY <1>4
<1>6. k \in Nat
  BY <1>2, <1>5
<1>7. rowid' = [rowid EXCEPT ![m] = 1 + k] /\ fts' = fts \cup {[row |-> 1 + k, words |-> m]}
  BY DEF Insert
<1>. HIDE DEF k
<1>8. rowid' \in [Message -> Nat] /\ \A n \in Message : rowid'[n] <= 1 + k
  BY <1>5, <1>6, <1>7 DEF Rowids
<1>9. 1 + k \in Nat \ {0}
  BY <1>6
<1>. QED  BY <1>7, <1>8, <1>9 DEF Rowids

\* Every step keeps them.
LEMMA NextKeepsRest == Types /\ Rest /\ [Next]_vars => Rest'
<1>. SUFFICES ASSUME Types, Rest, [Next]_vars PROVE Rest'
  OBVIOUS
<1>0. MaxChange \in Nat /\ MaxFault \in Nat /\ MaxOpen \in Nat
  BY BoundAssumption
<1>f. Fault => faults' \in 0..MaxFault
  BY <1>0 DEF Fault, Rest
<1>r. UNCHANGED rowid => Rowids'
  BY DEF Rest, Rowids
<1>l. ASSUME NEW p \in Process, Leave(p)
      PROVE  remoteIDs' \subseteq Message /\ absent' \subseteq Message
  BY <1>l DEF Leave, Rest
<1>1. CASE ChangeBox
  <2>1. box' \subseteq Message /\ absent' \subseteq Message /\ changes' \in 0..MaxChange
    BY <1>0, <1>1 DEF ChangeBox, Rest
  <2>. QED  BY <1>1, <1>r, <2>1 DEF ChangeBox, Rest, tables
<1>2. CASE StartSync \/ EndList \/ IndexFullPass \/ UNCHANGED vars
  BY <1>2, <1>r DEF StartSync, EndList, IndexFullPass, Rest, vars, tables, counters
<1>3. CASE ListFails
  BY <1>3, <1>f, <1>l, <1>r DEF ListFails, Rest, Process, tables
<1>4. ASSUME NEW m \in Message, ListMessage(m) PROVE Rest'
  <2>1. UNCHANGED <<box, absent, changes, opens>> /\ remoteIDs' \subseteq Message
    BY <1>4 DEF ListMessage, Rest
  <2>2. since' \subseteq Message /\ faults' \in 0..MaxFault
    BY <1>4, <1>f DEF ListMessage, Rest
  <2>3. Rowids' /\ fts' \subseteq [row : Nat \ {0}, words : Message]
    <3>1. CASE UNCHANGED <<rowid, fts>>
      BY <1>r, <3>1 DEF Rest
    <3>2. CASE Insert(m)
      BY <3>2, InsertIsTyped DEF Rest
    <3>. QED  BY <1>4, <3>1, <3>2 DEF ListMessage
  <2>. QED  BY <2>1, <2>2, <2>3 DEF Rest
<1>5. CASE DeleteOrphans
  <2>1. rowid' \in [Message -> Nat] /\ \A m \in Message : rowid'[m] <= rowid[m]
    BY <1>5 DEF DeleteOrphans, Rest, Rowids
  <2>2. PICK N \in Nat : \A m \in Message : rowid[m] <= N
    BY DEF Rest, Rowids
  <2>3. \A m \in Message : rowid'[m] <= N
    BY <2>1, <2>2 DEF Rest, Rowids
  <2>4. Rowids'
    BY <2>1, <2>3 DEF Rowids
  <2>5. since' \subseteq Message
    BY <1>5 DEF DeleteOrphans, Rest, Stored
  <2>. QED  BY <1>5, <2>4, <2>5 DEF DeleteOrphans, Rest, counters
<1>6. ASSUME NEW p \in Process, Load(p) PROVE Rest'
  BY <1>6, <1>r DEF Load, Rest, tables, counters
<1>7. ASSUME NEW p \in Process, DeleteThreads(p) PROVE Rest'
  <2>1. loaded[p] \subseteq Message /\ Stored \subseteq Message
    BY DEF Types, Stored
  <2>2. since' \subseteq Message
    BY <1>7, <2>1 DEF DeleteThreads
  <2>. QED  BY <1>7, <1>r, <2>2 DEF DeleteThreads, Rest, counters
<1>8. ASSUME NEW p \in Process, InsertThread(p) PROVE Rest'
  <2>1. UNCHANGED <<box, rowid, fts, since, changes, opens>> /\ faults' \in 0..MaxFault
    BY <1>8, <1>f DEF InsertThread, Rest
  <2>2. remoteIDs' \subseteq Message /\ absent' \subseteq Message
    BY <1>8, <1>l DEF InsertThread, Rest
  <2>. QED  BY <1>r, <2>1, <2>2 DEF Rest
<1>9. CASE Open
  BY <1>0, <1>9, <1>r DEF Open, Rest, tables
<1>10. CASE ResetApp
  <2>1. Rowids'
    <3>1. rowid' \in [Message -> Nat] /\ \A m \in Message : rowid'[m] <= 0
      BY <1>10 DEF ResetApp
    <3>. QED  BY <3>1 DEF Rowids
  <2>. QED  BY <1>10, <1>f, <2>1 DEF ResetApp, Rest
<1>11. ASSUME NEW p \in Process, Die(p) PROVE Rest'
  BY <1>11, <1>f, <1>l, <1>r DEF Die, Rest, tables
<1>. QED  BY <1>1, <1>2, <1>3, <1>4, <1>5, <1>6, <1>7, <1>8, <1>9, <1>10, <1>11
          DEF Next, SyncStep, RebuildStep, Process

-----------------------------------------------------------------------------

\* An empty database, with no process at it.
LEMMA Initially == Init => IInv
<1>. SUFFICES ASSUME Init PROVE IInv
  OBVIOUS
<1>1. Types /\ WordsAreIn
  BY DEF Init, Types, WordsAreIn, Stored
<1>2. InsertsAreWhole /\ OneInserts
  BY DEF Init, InsertsAreWhole, OneInserts
<1>3. ThreadsAreOfMessages
  <2>1. threads = Derived({})
    BY DEF Init, Derived
  <2>2. Apart({}, Stored) = {}
    BY DEF Init, Apart, Stored
  <2>3. {} \in SUBSET Message /\ since = {}
    BY DEF Init
  <2>. QED  BY <2>1, <2>2, <2>3 DEF ThreadsAreOfMessages
<1>. QED  BY <1>1, <1>2, <1>3 DEF IInv, RebuildInv

\* It is inductive.
LEMMA Invariant == Spec => []IInv
<1>1. IInv /\ [Next]_vars => IInv'
  BY NextKeepsTypes, NextKeepsRebuilds, NextKeepsWords DEF IInv
<1>. QED  BY <1>1, Initially, PTL DEF Spec

\* For any messages, threads and bounds the variables have their types: rowids stay
\* numbers, and what a sync or a rebuild has in memory are messages and threads
\* (app_gmail.go:117-172, 1020-1126).
THEOREM TypeCorrect == Spec => []TypeOK
<1>1. ASSUME Init PROVE Rest
  <2>1. rowid \in [Message -> Nat] /\ \A m \in Message : rowid[m] <= 0
    BY <1>1 DEF Init
  <2>2. Rowids
    BY <2>1 DEF Rowids
  <2>3. 0 \in 0..MaxChange /\ 0 \in 0..MaxFault /\ 0 \in 0..MaxOpen
    BY BoundAssumption
  <2>. QED  BY <1>1, <2>2, <2>3 DEF Init, Rest
<1>2. IInv /\ Rest /\ [Next]_vars => Rest'
  BY NextKeepsRest DEF IInv
<1>3. IInv /\ Rest => TypeOK
  BY DEF IInv, Types, Rest, Rowids, TypeOK
<1>. QED  BY <1>1, <1>2, <1>3, Initially, Invariant, PTL DEF Spec

\* For any messages and threads, although processes rebuild over one another, fail and die:
\* while nobody is at them the threads are those of the stored messages unless they are
\* known to be torn, and stored messages are found by their words
\* (app_gmail.go:117-172, 1107-1126).
THEOREM ThreadsAreOfStored == Spec => []ThreadsMatchMessages
<1>1. IInv => ThreadsMatchMessages
  <2>. SUFFICES ASSUME IInv, torn = FALSE, since = {}, \A p \in Process : ~Rebuilding(p)
                PROVE  threads = Derived(Stored)
    BY DEF IInv, WordsAreIn, Types, ThreadsMatchMessages
  <2>1. PICK S \in SUBSET Message : threads = Derived(S) /\ Apart(S, Stored) \subseteq since
    BY DEF IInv, RebuildInv, ThreadsAreOfMessages, Rebuilding
  <2>2. S = Stored
    BY <2>1 DEF Apart
  <2>. QED  BY <2>1, <2>2
<1>. QED  BY <1>1, Invariant, PTL

\* For any messages and threads: a full pass of the index forgets a thread only when its
\* messages are gone or new, or when it reads a rebuild under way or one that was torn
\* (app_gmail.go:807-858, 1113).
THEOREM PassesKeepThreads == Spec => IndexedThreadsStay
<1>. DEFINE A == \A t \in indexed \ indexed' :
                   \/ Derived(Stored \ since)[t] = {} \/ torn
                   \/ \E p \in Process : at[p] = "insert"
<1>1. IInv /\ [Next]_vars => [A]_vars
  <2>. SUFFICES ASSUME IInv, Next, NEW t \in indexed \ indexed', torn = FALSE,
                       \A p \in Process : at[p] # "insert"
                PROVE  Derived(Stored \ since)[t] = {}
    BY DEF IInv, Types
  <2>1. CASE IndexFullPass
    <3>1. PICK S \in SUBSET Message : threads = Derived(S) /\ Apart(S, Stored) \subseteq since
      BY DEF IInv, RebuildInv, ThreadsAreOfMessages
    <3>2. t \in Thread /\ threads[t] = {}
      BY <2>1 DEF IndexFullPass, Live, IInv, Types
    <3>3. Stored \ since \subseteq S
      BY <3>1 DEF Apart
    <3>. QED  BY <3>1, <3>2, <3>3 DEF Derived
  <2>2. ASSUME NEW p \in Process, RebuildStep(p) \/ Die(p) PROVE UNCHANGED indexed
    BY <2>2 DEF RebuildStep, Load, DeleteThreads, InsertThread, Die
  <2>3. CASE ChangeBox \/ StartSync \/ (\E m \in Message : ListMessage(m)) \/ EndList
               \/ DeleteOrphans \/ ListFails \/ Open \/ ResetApp
    BY <2>3 DEF ChangeBox, StartSync, ListMessage, EndList, DeleteOrphans, ListFails, Open, ResetApp
  <2>. QED  BY <2>1, <2>2, <2>3 DEF Next, SyncStep, Process
<1>. QED  BY <1>1, Invariant, PTL DEF Spec, IndexedThreadsStay
=============================================================================
