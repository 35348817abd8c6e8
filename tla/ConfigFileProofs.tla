--------------------------- MODULE ConfigFileProofs ---------------------------
(***************************************************************************)
(* Proofs about ConfigFile for any processes, commands and items:          *)
(* config.json is whole, and a save changes what it is for and nothing     *)
(* else, unless two saves shared the temporary file or overlapped; and     *)
(* browser_history is not enabled without a browser.                       *)
(***************************************************************************)
EXTENDS ConfigFile, FiniteSetTheorems, TLAPS

Fields == {"pc", "source", "todo", "config", "file", "stale"}
Place == {"idle", "load", "open", "write", "rename"}
Writing(p) == run[p].pc \in {"write", "rename"}

\* Of what processes do, as much as the argument needs: who writes has a file.
RunOK(p) ==
  /\ DOMAIN run[p] = Fields /\ run[p].pc \in Place /\ run[p].stale \in BOOLEAN
  /\ run[p].file \in File \cup {NoFile} /\ (Writing(p) <=> run[p].file # NoFile)
Shape ==
  /\ DOMAIN content = File /\ main \in File \cup {NoFile} /\ temp \in File \cup {NoFile}
  /\ mixed \subseteq File
  /\ DOMAIN run = Process /\ \A p \in Process : RunOK(p)

\* The temporary file is not config.json.
NamesDiffer == temp # NoFile => temp # main

\* Of two processes that write to the same file, one opened what the other had opened.
SharedIsMixed ==
  \A p, q \in Process :
    p # q /\ Writing(p) /\ run[p].file = run[q].file => run[p].file \in mixed

\* What only one process writes to still has the temporary name.
OwnIsTemp(p) == Writing(p) /\ run[p].file \notin mixed => run[p].file = temp

\* What it has written is what it had to write.
SavedIsWhole(p) ==
  run[p].pc = "rename" /\ run[p].file \notin mixed =>
    content[run[p].file] = Written(run[p].config)

\* What it has to write is what config.json holds with its update, unless it is outdated.
Intended(p) ==
  IF run[p].todo[1].what = "forget" THEN Empty
  ELSE Patched(run[p].source, run[p].todo[1], LoadConfig)
ReadIsCurrent(p) ==
  run[p].pc \in {"open", "write", "rename"} /\ ~run[p].stale /\ run[p].file \notin mixed =>
    run[p].config = Intended(p)

SaveOK(p) == OwnIsTemp(p) /\ SavedIsWhole(p) /\ ReadIsCurrent(p)
IInv ==
  /\ Shape /\ NamesDiffer /\ SharedIsMixed /\ ConfigIsWhole
  /\ \A p \in Process : SaveOK(p)

-----------------------------------------------------------------------------
(* Files.                                                                  *)

\* Processes are finitely many, and what is no file is none.
LEMMA FileIsNoNoFile == NoFile \notin File /\ Cardinality(Process) \in Nat
<1>1. Cardinality(Process) \in Nat
  BY ProcessAssumption, FS_CardinalityType
<1>. QED  BY <1>1 DEF NoFile, File

\* There are more files than processes and names.
LEMMA SomeFileIsUnused ==
  ASSUME Shape, temp = NoFile
  PROVE  \E f \in File : Unused(f)
<1>. DEFINE opened == {run[p].file : p \in Process}
            used == opened \cup {main}
            fileOf == [p \in Process |-> run[p].file]
<1>1. Cardinality(Process) \in Nat
  BY FileIsNoNoFile
<1>2. IsFiniteSet(opened) /\ Cardinality(opened) <= Cardinality(Process)
  <2>1. fileOf \in Surjection(Process, opened)
    BY DEF Surjection
  <2>. HIDE DEF opened, fileOf
  <2>. QED  BY <2>1, ProcessAssumption, FS_Surjection
<1>3. IsFiniteSet(used) /\ Cardinality(used) <= Cardinality(opened) + 1 /\ Cardinality(used) \in Nat
  <2>. HIDE DEF opened
  <2>1. Cardinality(opened) \in Nat
    BY <1>2, FS_CardinalityType
  <2>. QED  BY <1>2, <2>1, FS_AddElement, FS_CardinalityType
<1>4. IsFiniteSet(File) /\ Cardinality(File) = Cardinality(Process) + 3
  <2>1. Cardinality(Process) + 2 \in Int /\ 0 \in Int /\ ~(0 > Cardinality(Process) + 2)
    BY <1>1
  <2>. QED  BY <1>1, <2>1, FS_Interval DEF File
<1>5. ASSUME File \subseteq used PROVE FALSE
  <2>. HIDE DEF used, opened
  <2>1. Cardinality(File) <= Cardinality(used)
    BY <1>3, <1>5, FS_Subset
  <2>2. Cardinality(opened) \in Nat
    BY <1>2, FS_CardinalityType
  <2>. QED  BY <1>1, <1>2, <1>3, <1>4, <2>1, <2>2
<1>6. PICK f \in File : f \notin used
  BY <1>5
<1>7. f # main /\ f # temp /\ ~Open(f)
  BY <1>6, FileIsNoNoFile DEF Open
<1>. QED  BY <1>7 DEF Unused

\* os.WriteFile opens what has the temporary name, or what nobody has.
LEMMA TargetIsNotMain ==
  ASSUME Shape, NamesDiffer
  PROVE  /\ Target \in File /\ Target # main
         /\ temp # NoFile => Target = temp
         /\ temp = NoFile => ~Open(Target)
<1>1. CASE temp # NoFile
  BY <1>1 DEF Target, NamesDiffer, Shape
<1>2. CASE temp = NoFile
  <2>1. Target \in File /\ Unused(Target)
    BY <1>2, SomeFileIsUnused DEF Target
  <2>. QED  BY <1>2, <2>1 DEF Unused
<1>. QED  BY <1>1, <1>2

-----------------------------------------------------------------------------
(* Steps.                                                                  *)

\* A process that does not write, and holds what is current, disturbs nobody.
LEMMA OwnStepKeepsInv ==
  ASSUME IInv, UNCHANGED <<content, main, temp, mixed>>, NEW p \in Process,
         DOMAIN run' = Process, \A q \in Process \ {p} : run'[q] = run[q],
         RunOK(p)', run'[p].pc \in {"idle", "load", "open"}, ReadIsCurrent(p)'
  PROVE  IInv'
<1>1. ~Writing(p)' /\ run'[p].file = NoFile
  BY DEF Writing, RunOK
<1>2. \A q \in Process \ {p} : RunOK(q)' /\ SaveOK(q)'
  BY DEF IInv, Shape, RunOK, Writing, SaveOK, OwnIsTemp, SavedIsWhole, ReadIsCurrent, Intended, LoadConfig
<1>3. SaveOK(p)'
  BY <1>1 DEF SaveOK, OwnIsTemp, SavedIsWhole, Writing
<1>4. Shape'
  BY <1>2 DEF IInv, Shape
<1>5. SharedIsMixed'
  BY <1>1 DEF IInv, Shape, RunOK, SharedIsMixed, Writing
<1>6. ConfigIsWhole' /\ NamesDiffer'
  BY DEF IInv, ConfigIsWhole, NamesDiffer
<1>. QED  BY <1>2, <1>3, <1>4, <1>5, <1>6 DEF IInv

\* The idle state of a process is one it may be in.
LEMMA IdleIsOK == DOMAIN Idle = Fields /\ Idle.pc = "idle" /\ Idle.file = NoFile /\ Idle.stale = FALSE
BY DEF Idle, Fields

\* A command starts, reads, or dies.
LEMMA OutsideSavesKeepsInv ==
  ASSUME IInv, NEW p \in Process, (\E c \in Commands : Begin(p, c)) \/ Load(p) \/ Die(p)
  PROVE  IInv'
<1>0. DOMAIN run = Process /\ RunOK(p)
  BY DEF IInv, Shape
<1>1. CASE \E c \in Commands : Begin(p, c)
  <2>1. PICK s, t : run' = [run EXCEPT ![p] = [Idle EXCEPT !.pc = "load", !.source = s, !.todo = t]]
    BY <1>1 DEF Begin
  <2>2. run'[p] = [Idle EXCEPT !.pc = "load", !.source = s, !.todo = t]
    BY <1>0, <2>1
  <2>3. DOMAIN run'[p] = Fields /\ run'[p].pc = "load" /\ run'[p].file = NoFile /\ run'[p].stale = FALSE
    BY <2>2, IdleIsOK DEF Fields
  <2>4. DOMAIN run' = Process /\ \A q \in Process \ {p} : run'[q] = run[q]
    BY <1>0, <2>1
  <2>5. RunOK(p)' /\ ReadIsCurrent(p)'
    BY <2>3 DEF RunOK, Writing, Place, ReadIsCurrent, File, NoFile
  <2>6. UNCHANGED <<content, main, temp, mixed>>
    BY <1>1 DEF Begin
  <2>. QED  BY <2>3, <2>4, <2>5, <2>6, OwnStepKeepsInv
<1>2. CASE Load(p)
  <2>. DEFINE c == IF run[p].todo[1].what = "forget" THEN Empty
                   ELSE Patched(run[p].source, run[p].todo[1], LoadConfig)
  <2>1. run' = [run EXCEPT ![p].pc = "open", ![p].stale = FALSE, ![p].config = c]
    BY <1>2 DEF Load
  <2>2. UNCHANGED <<content, main, temp, mixed>> /\ run[p].file = NoFile
    BY <1>0, <1>2 DEF Load, RunOK, Writing
  <2>. HIDE DEF c
  <2>3. /\ run'[p].pc = "open" /\ run'[p].stale = FALSE /\ run'[p].config = c
        /\ run'[p].todo = run[p].todo /\ run'[p].source = run[p].source /\ run'[p].file = run[p].file
        /\ DOMAIN run'[p] = Fields
    BY <1>0, <2>1 DEF RunOK, Fields
  <2>4. DOMAIN run' = Process /\ \A q \in Process \ {p} : run'[q] = run[q]
    BY <1>0, <2>1
  <2>5. RunOK(p)'
    BY <1>0, <2>2, <2>3 DEF RunOK, Writing, Place, File, NoFile
  <2>6. Intended(p)' = c
    BY <2>2, <2>3 DEF Intended, LoadConfig, c
  <2>. QED  BY <2>2, <2>3, <2>4, <2>5, <2>6, OwnStepKeepsInv DEF ReadIsCurrent
<1>3. CASE Die(p)
  <2>1. run'[p] = Idle /\ DOMAIN run' = Process /\ \A q \in Process \ {p} : run'[q] = run[q]
    BY <1>0, <1>3 DEF Die
  <2>2. RunOK(p)' /\ ReadIsCurrent(p)'
    BY <2>1, IdleIsOK DEF RunOK, Writing, Place, ReadIsCurrent, File, NoFile
  <2>3. UNCHANGED <<content, main, temp, mixed>>
    BY <1>3 DEF Die
  <2>. QED  BY <2>1, <2>2, <2>3, IdleIsOK, OwnStepKeepsInv
<1>. QED  BY <1>1, <1>2, <1>3

\* A process opens the temporary file: others that have it open share it from now on.
LEMMA OpenKeepsInv ==
  ASSUME IInv, NEW p \in Process, OpenTemp(p)
  PROVE  IInv'
<1>. DEFINE T == Target
<1>0. Shape /\ NamesDiffer /\ RunOK(p) /\ SaveOK(p) /\ run[p].pc = "open" /\ run[p].file = NoFile
  BY DEF IInv, Shape, OpenTemp, RunOK, Writing
<1>1. T \in File /\ T # main /\ (temp # NoFile => T = temp) /\ (temp = NoFile => ~Open(T))
  BY <1>0, TargetIsNotMain
<1>2. /\ temp' = T /\ content' = [content EXCEPT ![T] = Torn] /\ main' = main
      /\ run' = [run EXCEPT ![p].pc = "write", ![p].file = T]
      /\ mixed' = IF Open(T) THEN mixed \cup {T} ELSE mixed \ {T}
  BY DEF OpenTemp
<1>. HIDE DEF T
<1>3. /\ DOMAIN run' = Process /\ \A q \in Process \ {p} : run'[q] = run[q]
      /\ DOMAIN run'[p] = Fields /\ run'[p].pc = "write" /\ run'[p].file = T
      /\ run'[p].stale = run[p].stale /\ run'[p].config = run[p].config
      /\ run'[p].todo = run[p].todo /\ run'[p].source = run[p].source
  BY <1>0, <1>2 DEF Shape, RunOK, Fields
<1>4. T # NoFile
  BY <1>1, FileIsNoNoFile
<1>5. RunOK(p)' /\ \A q \in Process \ {p} : RunOK(q)'
  BY <1>0, <1>1, <1>3, <1>4 DEF Shape, RunOK, Writing, Place, File, NoFile
<1>6. DOMAIN content' = File /\ \A f \in File \ {T} : content'[f] = content[f]
  BY <1>0, <1>1, <1>2 DEF Shape
<1>7. Shape'
  BY <1>0, <1>1, <1>2, <1>3, <1>5, <1>6 DEF Shape, File, NoFile
<1>8. \A q \in Process \ {p} : run[q].file = T => T \in mixed'
  BY <1>2 DEF Open
<1>9. \A f \in File \ {T} : f \in mixed' <=> f \in mixed
  BY <1>2
<1>10. LoadConfig' = LoadConfig
  BY <1>0, <1>1, <1>2, <1>6, FileIsNoNoFile DEF Shape, LoadConfig
<1>11. SharedIsMixed'
  <2>. SUFFICES ASSUME NEW q \in Process, NEW r \in Process, q # r, Writing(q)', run'[q].file = run'[r].file
                PROVE  run'[q].file \in mixed'
    BY DEF SharedIsMixed
  <2>1. CASE q = p \/ r = p
    BY <1>3, <1>8, <2>1
  <2>2. CASE q # p /\ r # p
    <3>1. run[q].file \in mixed /\ run[q].file \in File /\ run'[q].file = run[q].file
      BY <1>0, <1>3, <2>2 DEF IInv, Shape, SharedIsMixed, Writing
    <3>. QED  BY <1>3, <1>8, <1>9, <2>2, <3>1
  <2>. QED  BY <2>1, <2>2
<1>12. ConfigIsWhole'
  BY <1>0, <1>1, <1>2, <1>6, <1>9 DEF IInv, Shape, ConfigIsWhole
<1>13. ASSUME NEW q \in Process \ {p}
       PROVE  SaveOK(q)'
  <2>1. run'[q] = run[q] /\ SaveOK(q) /\ RunOK(q)
    BY <1>0, <1>3 DEF IInv, Shape
  <2>2. OwnIsTemp(q)'
    BY <1>1, <1>2, <1>8, <1>9, <2>1 DEF SaveOK, OwnIsTemp, Writing, RunOK
  <2>3. SavedIsWhole(q)'
    BY <1>6, <1>8, <1>9, <2>1 DEF SaveOK, SavedIsWhole, RunOK, Writing
  <2>4. ReadIsCurrent(q)'
    <3>1. Intended(q)' = Intended(q)
      BY <1>10, <2>1 DEF Intended
    <3>2. run[q].file \notin mixed' => run[q].file \notin mixed
      BY <1>0, <1>8, <1>9, <2>1 DEF Shape, RunOK
    <3>. QED  BY <2>1, <3>1, <3>2 DEF SaveOK, ReadIsCurrent
  <2>. QED  BY <2>2, <2>3, <2>4 DEF SaveOK
<1>14. SaveOK(p)'
  <2>1. Intended(p)' = Intended(p)
    BY <1>3, <1>10 DEF Intended
  <2>2. run[p].file \notin mixed
    BY <1>0, FileIsNoNoFile DEF Shape
  <2>3. ReadIsCurrent(p)'
    BY <1>0, <1>3, <2>1, <2>2 DEF SaveOK, ReadIsCurrent
  <2>. QED  BY <1>2, <1>3, <2>3 DEF SaveOK, OwnIsTemp, SavedIsWhole
<1>15. NamesDiffer'
  BY <1>1, <1>2 DEF NamesDiffer
<1>. QED  BY <1>7, <1>11, <1>12, <1>13, <1>14, <1>15 DEF IInv

\* A process writes: only into what it shares can another have written.
LEMMA WriteKeepsInv ==
  ASSUME IInv, NEW p \in Process, WriteTemp(p)
  PROVE  IInv'
<1>. DEFINE f == run[p].file
            before == IF f = main THEN Outdated(p) ELSE run
<1>0. Shape /\ NamesDiffer /\ RunOK(p) /\ SaveOK(p) /\ run[p].pc = "write" /\ f \in File
  BY DEF IInv, Shape, WriteTemp, RunOK, Writing
<1>1. /\ \/ content' = [content EXCEPT ![f] = Written(run[p].config)]
         \/ f \in mixed /\ content' = [content EXCEPT ![f] = Torn]
      /\ run' = [before EXCEPT ![p].pc = "rename"] /\ UNCHANGED <<main, temp, mixed>>
  BY DEF WriteTemp
<1>2. /\ DOMAIN before = Process /\ before[p] = run[p]
      /\ \A q \in Process \ {p} : before[q] = run[q] \/ before[q] = [run[q] EXCEPT !.stale = TRUE]
      /\ f = main => \A q \in Process \ {p} :
                       run[q].pc # "idle" => before[q] = [run[q] EXCEPT !.stale = TRUE]
  BY <1>0 DEF Shape, Outdated
<1>. HIDE DEF before
<1>3. /\ DOMAIN run' = Process /\ \A q \in Process \ {p} : run'[q] = before[q]
      /\ DOMAIN run'[p] = Fields /\ run'[p].pc = "rename" /\ run'[p].file = f
      /\ run'[p].stale = run[p].stale /\ run'[p].config = run[p].config
      /\ run'[p].todo = run[p].todo /\ run'[p].source = run[p].source
  BY <1>0, <1>1, <1>2 DEF RunOK, Fields
<1>4. \A q \in Process \ {p} :
        /\ DOMAIN run'[q] = Fields /\ run'[q].pc = run[q].pc /\ run'[q].file = run[q].file
        /\ run'[q].config = run[q].config /\ run'[q].todo = run[q].todo /\ run'[q].source = run[q].source
        /\ run'[q].stale \in BOOLEAN /\ (~run'[q].stale => ~run[q].stale)
        /\ f = main /\ run[q].pc # "idle" => run'[q].stale = TRUE
  <2>. SUFFICES ASSUME NEW q \in Process \ {p}
                PROVE  /\ DOMAIN run'[q] = Fields /\ run'[q].pc = run[q].pc /\ run'[q].file = run[q].file
                       /\ run'[q].config = run[q].config /\ run'[q].todo = run[q].todo
                       /\ run'[q].source = run[q].source
                       /\ run'[q].stale \in BOOLEAN /\ (~run'[q].stale => ~run[q].stale)
                       /\ f = main /\ run[q].pc # "idle" => run'[q].stale = TRUE
    OBVIOUS
  <2>1. DOMAIN run[q] = Fields /\ run[q].stale \in BOOLEAN /\ run'[q] = before[q]
    BY <1>0, <1>3 DEF Shape, RunOK
  <2>2. CASE before[q] = [run[q] EXCEPT !.stale = TRUE]
    BY <2>1, <2>2 DEF Fields
  <2>3. CASE before[q] # [run[q] EXCEPT !.stale = TRUE]
    <3>1. before[q] = run[q] /\ ~(f = main /\ run[q].pc # "idle")
      BY <1>2, <2>3
    <3>. QED  BY <2>1, <3>1
  <2>. QED  BY <2>2, <2>3
<1>5. RunOK(p)' /\ \A q \in Process \ {p} : RunOK(q)'
  BY <1>0, <1>3, <1>4 DEF Shape, RunOK, Writing, Place, File, NoFile
<1>6. DOMAIN content' = File /\ \A g \in File \ {f} : content'[g] = content[g]
  BY <1>0, <1>1 DEF Shape
<1>7. f \notin mixed => content'[f] = Written(run[p].config) /\ f = temp /\ f # main
  BY <1>0, <1>1, FileIsNoNoFile DEF Shape, SaveOK, OwnIsTemp, Writing, NamesDiffer
<1>8. Shape' /\ NamesDiffer'
  BY <1>0, <1>1, <1>3, <1>5, <1>6 DEF Shape, NamesDiffer, File, NoFile
<1>9. SharedIsMixed'
  BY <1>0, <1>1, <1>3, <1>4 DEF IInv, SharedIsMixed, Writing
<1>10. ConfigIsWhole'
  BY <1>0, <1>1, <1>6, <1>7 DEF IInv, Shape, ConfigIsWhole
<1>11. f # main => LoadConfig' = LoadConfig
  BY <1>0, <1>1, <1>6 DEF Shape, LoadConfig
<1>12. ASSUME NEW q \in Process \ {p}
       PROVE  SaveOK(q)'
  <2>1. SaveOK(q) /\ RunOK(q)
    BY <1>0 DEF IInv, Shape
  <2>2. OwnIsTemp(q)'
    BY <1>1, <1>4, <2>1 DEF SaveOK, OwnIsTemp, Writing
  <2>3. SavedIsWhole(q)'
    <3>1. SUFFICES ASSUME run[q].pc = "rename", run[q].file \notin mixed
                   PROVE  content'[run[q].file] = Written(run[q].config)
      BY <1>1, <1>4 DEF SavedIsWhole
    <3>2. run[q].file # f /\ run[q].file \in File
      BY <1>0, <2>1, <3>1 DEF IInv, SharedIsMixed, RunOK, Writing
    <3>. QED  BY <1>6, <2>1, <3>1, <3>2 DEF SaveOK, SavedIsWhole
  <2>4. ReadIsCurrent(q)'
    <3>1. f # main => Intended(q)' = Intended(q)
      BY <1>4, <1>11 DEF Intended
    <3>. QED  BY <1>1, <1>4, <2>1, <3>1 DEF SaveOK, ReadIsCurrent
  <2>. QED  BY <2>2, <2>3, <2>4 DEF SaveOK
<1>13. SaveOK(p)'
  <2>1. f # main => Intended(p)' = Intended(p)
    BY <1>3, <1>11 DEF Intended
  <2>2. ReadIsCurrent(p)'
    BY <1>0, <1>1, <1>3, <1>7, <2>1 DEF SaveOK, ReadIsCurrent
  <2>3. OwnIsTemp(p)' /\ SavedIsWhole(p)'
    BY <1>0, <1>1, <1>3, <1>7 DEF SaveOK, OwnIsTemp, SavedIsWhole, Writing
  <2>. QED  BY <2>2, <2>3 DEF SaveOK
<1>. QED  BY <1>8, <1>9, <1>10, <1>12, <1>13 DEF IInv

\* A process that is told that config.json is no more what it has read goes on otherwise.
LEMMA ToldIsOK ==
  ASSUME NEW q \in Process, RunOK(q), run[q].pc # "idle",
         run'[q] = [run[q] EXCEPT !.stale = TRUE]
  PROVE  /\ RunOK(q)' /\ run'[q].stale = TRUE /\ run'[q].pc = run[q].pc
         /\ run'[q].file = run[q].file /\ run'[q].config = run[q].config
<1>1. /\ DOMAIN run'[q] = Fields /\ run'[q].stale = TRUE /\ run'[q].pc = run[q].pc
      /\ run'[q].file = run[q].file /\ run'[q].config = run[q].config
  BY DEF RunOK, Fields
<1>. QED  BY <1>1 DEF RunOK, Writing, File, NoFile

\* The temporary name is given away: whoever else writes to that file shares it.
LEMMA RenameKeepsInv ==
  ASSUME IInv, NEW p \in Process, Rename(p)
  PROVE  IInv'
<1>0. Shape /\ NamesDiffer /\ RunOK(p) /\ SaveOK(p) /\ run[p].pc = "rename" /\ run[p].file \in File
  BY DEF IInv, Shape, Rename, RunOK, Writing
<1>1. CASE temp = NoFile
  <2>1. run' = [run EXCEPT ![p] = Idle] /\ UNCHANGED <<content, main, temp, mixed>>
    BY <1>1 DEF Rename
  <2>2. run'[p] = Idle /\ DOMAIN run' = Process /\ \A q \in Process \ {p} : run'[q] = run[q]
    BY <1>0, <2>1 DEF Shape
  <2>3. RunOK(p)' /\ ReadIsCurrent(p)'
    BY <2>2, IdleIsOK DEF RunOK, Writing, Place, ReadIsCurrent, File, NoFile
  <2>. QED  BY <2>1, <2>2, <2>3, IdleIsOK, OwnStepKeepsInv
<1>2. CASE temp # NoFile
  <2>. DEFINE after == Saved(run[p])
  <2>1. /\ main' = temp /\ temp' = NoFile
        /\ content' = [f \in File |-> IF f = main /\ ~Open(f) THEN Torn ELSE content[f]]
        /\ mixed' = IF temp = run[p].file THEN mixed ELSE mixed \cup {temp}
    BY <1>2 DEF Rename
  <2>2. DOMAIN Outdated(p) = Process /\ Outdated(p)[p] = run[p]
    BY DEF Outdated
  <2>3. run' = [Outdated(p) EXCEPT ![p] = after]
    BY <1>2, <2>2 DEF Rename
  <2>4. /\ DOMAIN after = Fields /\ after.pc \in {"idle", "load"} /\ after.file = NoFile
        /\ after.stale \in BOOLEAN
    <3>1. CASE Len(run[p].todo) = 1
      BY <3>1, IdleIsOK DEF Saved
    <3>2. CASE Len(run[p].todo) # 1
      BY <1>0, <3>2 DEF RunOK, Fields, Saved
    <3>. QED  BY <3>1, <3>2
  <2>. HIDE DEF after
  <2>5. /\ DOMAIN run' = Process /\ run'[p] = after
        /\ \A q \in Process \ {p} :
             run'[q] = IF run[q].pc # "idle" THEN [run[q] EXCEPT !.stale = TRUE] ELSE run[q]
    BY <2>2, <2>3 DEF Outdated
  <2>6. RunOK(p)' /\ ~Writing(p)' /\ SaveOK(p)'
    BY <2>4, <2>5 DEF RunOK, Writing, Place, SaveOK, OwnIsTemp, SavedIsWhole, ReadIsCurrent, File, NoFile
  <2>7. ASSUME NEW q \in Process \ {p}
        PROVE  /\ RunOK(q)' /\ run'[q].pc = run[q].pc /\ run'[q].file = run[q].file
               /\ run[q].pc # "idle" => run'[q].stale = TRUE
    <3>1. RunOK(q)
      BY <1>0 DEF Shape
    <3>2. CASE run[q].pc = "idle"
      BY <2>5, <3>1, <3>2 DEF RunOK, Writing, File, NoFile
    <3>3. CASE run[q].pc # "idle"
      BY <2>5, <3>1, <3>3, ToldIsOK
    <3>. QED  BY <3>2, <3>3
  <2>8. temp \in File /\ temp # main /\ mixed \subseteq mixed' /\ mixed' \subseteq File
    BY <1>0, <1>2, <2>1 DEF Shape, NamesDiffer
  <2>9. \A q \in Process \ {p} : Writing(q) => run[q].file \in mixed'
    <3>. SUFFICES ASSUME NEW q \in Process \ {p}, Writing(q), run[q].file \notin mixed'
                  PROVE  FALSE
      OBVIOUS
    <3>1. run[q].file = temp
      BY <2>8 DEF IInv, SaveOK, OwnIsTemp
    <3>2. run[p].file = temp
      BY <2>1, <3>1
    <3>3. run[q].file \in mixed
      BY <3>1, <3>2 DEF IInv, SharedIsMixed
    <3>. QED  BY <2>8, <3>3
  <2>10. \A q \in Process \ {p} : Writing(q)' => run'[q].file \in mixed'
    BY <2>7, <2>9 DEF Writing
  <2>11. \A q \in Process \ {p} : SaveOK(q)'
    <3>. SUFFICES ASSUME NEW q \in Process \ {p}
                  PROVE  SaveOK(q)'
      OBVIOUS
    <3>1. OwnIsTemp(q)' /\ SavedIsWhole(q)'
      BY <2>10 DEF OwnIsTemp, SavedIsWhole, Writing
    <3>2. ReadIsCurrent(q)'
      BY <2>7 DEF ReadIsCurrent
    <3>. QED  BY <3>1, <3>2 DEF SaveOK
  <2>12. SharedIsMixed'
    BY <2>6, <2>10 DEF SharedIsMixed
  <2>13. content'[temp] = content[temp] /\ DOMAIN content' = File
    BY <2>1, <2>8
  <2>14. ConfigIsWhole'
    <3>1. CASE temp \in mixed'
      BY <2>1, <3>1 DEF ConfigIsWhole
    <3>2. CASE temp \notin mixed'
      <4>1. temp = run[p].file /\ temp \notin mixed
        BY <2>1, <3>2
      <4>2. content[temp].whole
        BY <1>0, <4>1 DEF SaveOK, SavedIsWhole, Written
      <4>. QED  BY <2>1, <2>13, <4>2 DEF ConfigIsWhole
    <3>. QED  BY <3>1, <3>2
  <2>15. Shape' /\ NamesDiffer'
    BY <2>1, <2>5, <2>6, <2>7, <2>8, <2>13 DEF Shape, NamesDiffer, File, NoFile
  <2>. QED  BY <2>6, <2>11, <2>12, <2>14, <2>15 DEF IInv
<1>. QED  BY <1>1, <1>2

\* The user edits a config.json that nobody is writing to, and whoever has read it is outdated.
LEMMA EditKeepsInv == IInv /\ Edit => IInv'
<1>. SUFFICES ASSUME IInv, Edit PROVE IInv'
  OBVIOUS
<1>0. Shape /\ NamesDiffer /\ main \in File /\ main \notin mixed
  BY DEF IInv, Shape, Edit
<1>1. PICK x : (x.whole \/ x = Broken) /\ content' = [content EXCEPT ![main] = x]
  <2>1. PICK x \in {Broken, Written([LoadConfig EXCEPT !.mcp = ~@])}
              \cup {Written([LoadConfig EXCEPT !.sources[s].reset = TRUE]) : s \in Source} :
          content' = [content EXCEPT ![main] = x]
    BY DEF Edit
  <2>2. \A c : Written(c).whole
    BY DEF Written
  <2>3. x.whole \/ x = Broken
    BY <2>1, <2>2
  <2>. QED  BY <2>1, <2>3
<1>2. /\ UNCHANGED <<main, temp, mixed>>
      /\ run' = [q \in Process |->
                   IF run[q].pc = "idle" THEN Idle ELSE [run[q] EXCEPT !.stale = TRUE]]
  BY DEF Edit
<1>u. UNCHANGED <<main, temp, mixed>>
  BY <1>2
<1>3. DOMAIN content' = File /\ content'[main] = x /\ \A f \in File \ {main} : content'[f] = content[f]
  BY <1>0, <1>1 DEF Shape
<1>4. \A q \in Process : Writing(q) => run[q].file # main
  BY <1>0, FileIsNoNoFile DEF IInv, SaveOK, OwnIsTemp, NamesDiffer
<1>5. ASSUME NEW q \in Process
      PROVE  /\ RunOK(q)' /\ run'[q].pc = run[q].pc /\ run'[q].file = run[q].file
             /\ run[q].pc # "idle" => run'[q].stale = TRUE /\ run'[q].config = run[q].config
  <2>1. RunOK(q)
    BY <1>0 DEF Shape
  <2>2. CASE run[q].pc = "idle"
    <3>1. run'[q] = Idle
      BY <1>2, <2>2
    <3>2. run[q].file = NoFile
      BY <2>1, <2>2 DEF RunOK, Writing
    <3>. QED  BY <2>2, <3>1, <3>2, IdleIsOK DEF RunOK, Writing, Place, File, NoFile
  <2>3. CASE run[q].pc # "idle"
    BY <1>2, <2>1, <2>3, ToldIsOK
  <2>. QED  BY <2>2, <2>3
<1>6. Shape' /\ NamesDiffer'
  BY <1>0, <1>2, <1>3, <1>5 DEF Shape, NamesDiffer, File, NoFile
<1>7. SharedIsMixed'
  BY <1>u, <1>5 DEF IInv, SharedIsMixed, Writing
<1>8. ConfigIsWhole'
  BY <1>1, <1>u, <1>3 DEF ConfigIsWhole, Broken
<1>9. ASSUME NEW q \in Process
      PROVE  SaveOK(q)'
  <2>1. SaveOK(q) /\ RunOK(q)
    BY <1>0 DEF IInv, Shape
  <2>2. OwnIsTemp(q)'
    BY <1>u, <1>5, <2>1 DEF SaveOK, OwnIsTemp, Writing
  <2>3. SavedIsWhole(q)'
    BY <1>u, <1>3, <1>4, <1>5, <2>1 DEF SaveOK, SavedIsWhole, RunOK, Writing
  <2>4. ReadIsCurrent(q)'
    BY <1>5 DEF ReadIsCurrent
  <2>. QED  BY <2>2, <2>3, <2>4 DEF SaveOK
<1>. QED  BY <1>6, <1>7, <1>8, <1>9 DEF IInv

-----------------------------------------------------------------------------
(* The theorems.                                                           *)

\* A whole config.json or none, and nobody at it.
LEMMA Initially == Init => IInv
<1>. SUFFICES ASSUME Init PROVE IInv
  OBVIOUS
<1>1. \A q \in Process : run[q] = Idle
  BY DEF Init
<1>2. \A q \in Process : RunOK(q) /\ SaveOK(q)
  BY <1>1, IdleIsOK DEF RunOK, SaveOK, OwnIsTemp, SavedIsWhole, ReadIsCurrent, Writing, Place
<1>3. Shape
  BY <1>2, FileIsNoNoFile DEF Init, Shape, File
<1>4. NamesDiffer /\ SharedIsMixed
  BY <1>1, IdleIsOK DEF Init, NamesDiffer, SharedIsMixed, Writing
<1>5. ConfigIsWhole
  <2>1. PICK c : content = [f \in File |-> IF f = 0 THEN Written(c) ELSE Torn]
    BY DEF Init
  <2>2. 0 \in File
    BY FileIsNoNoFile DEF File
  <2>3. content[0].whole
    BY <2>1, <2>2 DEF Written
  <2>. QED  BY <2>3 DEF Init, ConfigIsWhole
<1>. QED  BY <1>2, <1>3, <1>4, <1>5 DEF IInv

\* It is inductive.
LEMMA Invariant == Spec => []IInv
<1>1. IInv /\ UNCHANGED vars => IInv'
  <2>. SUFFICES ASSUME IInv, UNCHANGED vars PROVE IInv'
    OBVIOUS
  <2>1. \A q \in Process : RunOK(q)' /\ SaveOK(q)'
    BY DEF IInv, Shape, vars, RunOK, SaveOK, OwnIsTemp, SavedIsWhole, ReadIsCurrent, Intended,
           LoadConfig, Writing
  <2>. QED  BY <2>1 DEF IInv, Shape, NamesDiffer, SharedIsMixed, ConfigIsWhole, Writing, vars
<1>2. IInv /\ [Next]_vars => IInv'
  BY <1>1, OutsideSavesKeepsInv, OpenKeepsInv, WriteKeepsInv, RenameKeepsInv, EditKeepsInv DEF Next
<1>. QED  BY <1>2, Initially, PTL DEF Spec

\* Whatever dies while saving, config.json is whole, unless two processes shared the
\* temporary file or a user broke it (core/helpers.go:306-321).
THEOREM ConfigStaysWhole == Spec => []ConfigIsWhole
<1>1. IInv => ConfigIsWhole
  BY DEF IInv
<1>. QED  BY <1>1, Invariant, PTL

\* A save makes of config.json what its update is for and leaves the rest as it is, unless
\* the file changed after it was read or two saves shared the temporary file
\* (core/helpers.go:329-336).
THEOREM SavesAreForTheirSection == Spec => SavesOnlyWhatTheyAreFor
<1>1. ASSUME IInv, [Next]_vars, NEW p \in Process, run[p].pc = "rename", run'[p].pc # "rename",
             main' # main, run[p].file \notin mixed, ~run[p].stale
      PROVE  LoadConfig' = Intended(p)
  <2>0. Shape /\ SaveOK(p) /\ RunOK(p) /\ NamesDiffer
    BY <1>1 DEF IInv, Shape
  <2>1. PICK q \in Process : Rename(q)
    BY <1>1 DEF Next, Begin, Load, OpenTemp, WriteTemp, Die, Edit, vars
  <2>2. q = p
    <3>1. ASSUME q # p PROVE run'[p].pc = run[p].pc
      <4>1. run'[p] = Outdated(q)[p] \/ run'[p] = run[p]
        BY <2>0, <2>1, <3>1 DEF Rename, Shape, Outdated
      <4>2. Outdated(q)[p] = [run[p] EXCEPT !.stale = TRUE] \/ Outdated(q)[p] = run[p]
        BY DEF Outdated
      <4>. QED  BY <2>0, <4>1, <4>2 DEF RunOK, Fields
    <3>. QED  BY <1>1, <3>1
  <2>3. run[p].file = temp /\ temp \in File
    BY <1>1, <2>0 DEF SaveOK, OwnIsTemp, Writing, RunOK
  <2>4. main' = temp /\ content' = [f \in File |-> IF f = main /\ ~Open(f) THEN Torn ELSE content[f]]
    BY <1>1, <2>1, <2>2 DEF Rename
  <2>5. content'[temp] = Written(run[p].config)
    BY <1>1, <2>0, <2>3, <2>4, FileIsNoNoFile DEF NamesDiffer, SaveOK, SavedIsWhole
  <2>6. LoadConfig' = run[p].config
    BY <2>3, <2>4, <2>5, FileIsNoNoFile DEF LoadConfig, Written
  <2>. QED  BY <1>1, <2>0, <2>6 DEF SaveOK, ReadIsCurrent
<1>2. IInv /\ [Next]_vars =>
       [\A p \in Process :
          /\ run[p].pc = "rename" /\ run'[p].pc # "rename"
          /\ main' # main /\ run[p].file \notin mixed /\ ~run[p].stale
          => LoadConfig' = IF run[p].todo[1].what = "forget" THEN Empty
                           ELSE [LoadConfig EXCEPT !.sources[run[p].source] =
                                   Updated(run[p].todo[1], @)]]_vars
  BY <1>1 DEF Intended, Patched
<1>. QED  BY <1>2, Invariant, PTL DEF Spec, SavesOnlyWhatTheyAreFor

-----------------------------------------------------------------------------
(* Types, and the browser of browser_history.                              *)

\* The updates that commands are made of.
Update == [what : {"enable", "disable", "off", "auth", "add", "remove", "clear", "forget"},
           auth : SUBSET Item]

\* What processes and files hold is configurations, and a command has something to do.
RunTyped(p) ==
  /\ run[p].source \in Source \cup {"all"} /\ run[p].config \in Config
  /\ run[p].todo \in Seq(Update) /\ (run[p].pc # "idle" => run[p].todo # <<>>)
Types ==
  /\ content \in [File -> [whole : BOOLEAN, config : Config]]
  /\ interrupted \subseteq Source \cup {"all"}
  /\ runs \in 0..MaxRun /\ faults \in 0..MaxFault
  /\ \A p \in Process : RunTyped(p)

\* Nobody else has saved during a command of browser_history or a reset of everything.
Quiet == interrupted \cap {"browser_history", "all"} = {}

Browser(c) == c.sources["browser_history"]
Chosen(c) == Browser(c).enabled => Browser(c).auth # {}

\* What a command of browser_history has still to do: a browser is saved before the source
\* is enabled.
BrowserTodo ==
  {<<SaveAuth(items), SetSourceEnabled(TRUE)>> : items \in (SUBSET Item) \ {{}}}
    \cup {<<SetSourceEnabled(TRUE)>>, <<[what |-> "off", auth |-> {}]>>, <<[what |-> "clear", auth |-> {}]>>}
AtBrowser(p) == run[p].pc # "idle" /\ run[p].source = "browser_history"
Saves(p) == run[p].pc \in {"open", "write", "rename"}

\* A command that has still to enable the source finds or saves a browser, and what it saves
\* is fit to be config.json.
BrowserIsSaved(p) ==
  AtBrowser(p) =>
    /\ run[p].todo \in BrowserTodo
    /\ run[p].todo[1].what = "auth" /\ Saves(p) => Browser(run[p].config).auth # {}
    /\ Quiet /\ run[p].todo[1].what = "enable" => Browser(LoadConfig).auth # {}
SavesChosen(p) == Quiet /\ Saves(p) => Chosen(run[p].config)

\* Who writes to what has become config.json has been told.
GivenAway(p) == Writing(p) /\ run[p].file = main => run[p].source \in interrupted

BrowserInv ==
  /\ Types
  /\ Quiet => \A f \in File : content[f].whole => Chosen(content[f].config)
  /\ \A p \in Process : BrowserIsSaved(p) /\ SavesChosen(p) /\ GivenAway(p)

\* An update makes a section of a section.
LEMMA UpdatedIsSection ==
  ASSUME NEW u \in Update, u.what # "forget", NEW section \in Section
  PROVE  Updated(u, section) \in Section
<1>. USE DEF Section, Update
<1>1. section.enabled \in BOOLEAN /\ u.auth \in SUBSET Item /\ (section.enabled /\ u.auth # {}) \in BOOLEAN
  OBVIOUS
<1>2. CASE u.what \in {"enable", "disable"}
  BY <1>2 DEF Updated
<1>3. CASE u.what \in {"off", "auth"}
  BY <1>1, <1>3 DEF Updated
<1>4. CASE u.what \in {"add", "clear"}
  BY <1>1, <1>4 DEF Updated
<1>5. CASE u.what = "remove"
  BY <1>1, <1>5 DEF Updated
<1>. QED  BY <1>2, <1>3, <1>4, <1>5

\* It is the section of the source that is saved, and no other.
LEMMA PatchedIsConfig ==
  ASSUME NEW u \in Update, u.what # "forget", NEW c \in Config, NEW s \in Source \cup {"all"}
  PROVE  /\ Patched(s, u, c) \in Config
         /\ Browser(Patched(s, u, c)) = IF s = "browser_history" THEN Updated(u, Browser(c))
                                        ELSE Browser(c)
<1>1. c.sources \in [Source -> Section] /\ "browser_history" \in Source /\ "all" \notin Source
  BY DEF Config, Source
<1>2. s \in Source => Updated(u, c.sources[s]) \in Section
  BY <1>1, UpdatedIsSection
<1>3. Patched(s, u, c) = [c EXCEPT !.sources = [c.sources EXCEPT ![s] = Updated(u, c.sources[s])]]
  BY DEF Patched
<1>4. [c.sources EXCEPT ![s] = Updated(u, c.sources[s])] \in [Source -> Section]
  BY <1>1, <1>2
<1>. QED  BY <1>1, <1>3, <1>4 DEF Config, Browser

\* An empty configuration is one, and enables nothing.
LEMMA EmptyIsConfig == Empty \in Config /\ Chosen(Empty) /\ Broken.whole = FALSE /\ Torn.whole = FALSE
                       /\ Torn \in [whole : BOOLEAN, config : Config]
                       /\ Broken \in [whole : BOOLEAN, config : Config]
<1>1. Fresh \in Section /\ Fresh.enabled = FALSE
  BY DEF Fresh, Section
<1>2. Empty \in Config
  BY <1>1 DEF Empty, Config
<1>3. Chosen(Empty)
  BY <1>1 DEF Empty, Chosen, Browser, Source
<1>4. [Empty EXCEPT !.mcp = TRUE] \in Config
  BY <1>2 DEF Config
<1>. QED  BY <1>2, <1>3, <1>4 DEF Broken, Torn

\* What is loaded is a configuration, and one that is fit when every file's is.
LEMMA LoadIsConfig ==
  ASSUME Types, main \in File \cup {NoFile}
  PROVE  /\ LoadConfig \in Config
         /\ (\A f \in File : content[f].whole => Chosen(content[f].config)) => Chosen(LoadConfig)
BY EmptyIsConfig DEF Types, LoadConfig

\* What commands do is updates, those of browser_history in their order.
LEMMA UpdatesAreTyped ==
  ASSUME NEW c \in Commands, NEW own \in SUBSET Item
  PROVE  /\ Updates(c, own) \in Seq(Update)
         /\ c.source = "browser_history" /\ Updates(c, own) # <<>> =>
              /\ Updates(c, own) \in BrowserTodo
              /\ Updates(c, own)[1].what = "enable" => own # {}
<1>1. c.items \in SUBSET Item /\ c.source \in Source \cup {"all"}
  BY CommandAssumption
<1>2. \A b \in BOOLEAN : SetSourceEnabled(b) \in Update
  BY DEF SetSourceEnabled, Update
<1>3. \A items \in SUBSET Item : SaveAuth(items) \in Update
  BY DEF SaveAuth, Update
<1>4. /\ <<>> \in Seq(Update) /\ \A u \in Update : <<u>> \in Seq(Update)
      /\ \A u, v \in Update : <<u, v>> \in Seq(Update)
  OBVIOUS
<1>5. /\ [what |-> "off", auth |-> {}] \in Update /\ [what |-> "clear", auth |-> {}] \in Update
      /\ [what |-> "forget", auth |-> {}] \in Update
      /\ \A items \in SUBSET Item : [what |-> "add", auth |-> items] \in Update
      /\ \A items \in SUBSET Item : [what |-> "remove", auth |-> items] \in Update
  BY DEF Update
<1>6. NotebookUpdates(c, own) \in Seq(Update)
  <2>. HIDE DEF Update
  <2>1. own \cup c.items \in SUBSET Item /\ own \ c.items \in SUBSET Item /\ (c.name = "enable") \in BOOLEAN
    BY <1>1
  <2>. QED  BY <1>2, <1>4, <1>5, <2>1 DEF NotebookUpdates
<1>7. CASE c.source = "browser_history"
  <2>1. CASE c.name = "enable" /\ c.items # {}
    <3>1. Updates(c, own) = <<SaveAuth(c.items), SetSourceEnabled(TRUE)>>
      BY <1>7, <2>1 DEF Updates, BrowserUpdates
    <3>2. Updates(c, own)[1].what = "auth"
      BY <3>1 DEF SaveAuth
    <3>3. Updates(c, own) \in Seq(Update)
      BY <1>1, <1>2, <1>3, <1>4, <3>1
    <3>4. Updates(c, own) \in BrowserTodo
      <4>1. c.items \in (SUBSET Item) \ {{}}
        BY <1>1, <2>1
      <4>. QED  BY <3>1, <4>1 DEF BrowserTodo
    <3>. QED  BY <3>2, <3>3, <3>4
  <2>2. CASE c.name = "enable" /\ c.items = {}
    <3>1. Updates(c, own) = IF own = {} THEN <<>> ELSE <<SetSourceEnabled(TRUE)>>
      BY <1>7, <2>2 DEF Updates, BrowserUpdates
    <3>. QED  BY <1>2, <1>4, <3>1 DEF BrowserTodo
  <2>3. CASE c.name = "disable"
    <3>1. Updates(c, own) = <<[what |-> "off", auth |-> {}]>>
      BY <1>7, <2>3 DEF Updates, BrowserUpdates
    <3>. QED  BY <1>4, <1>5, <3>1 DEF BrowserTodo
  <2>4. CASE c.name \notin {"enable", "disable"}
    <3>1. Updates(c, own) = <<[what |-> "clear", auth |-> {}]>>
      BY <1>7, <2>4 DEF Updates, BrowserUpdates
    <3>. QED  BY <1>4, <1>5, <3>1 DEF BrowserTodo
  <2>. QED  BY <2>1, <2>2, <2>3, <2>4
<1>8. GSuiteUpdates(c, own) \in Seq(Update)
  <2>. DEFINE t == c.items
  <2>1. /\ own \cup t \in SUBSET Item /\ own \ t \in SUBSET Item
        /\ (own \ t) \cup (t \ own) \in SUBSET Item /\ {} \in SUBSET Item
        /\ TRUE \in BOOLEAN /\ FALSE \in BOOLEAN
    BY <1>1
  <2>2. [what |-> "add", auth |-> t] \in Update
    BY <1>1, <1>5
  <2>. QED  BY <1>2, <1>3, <1>4, <2>1, <2>2 DEF GSuiteUpdates
<1>9. WhatsAppUpdates(c, own) \in Seq(Update)
  <2>1. (c.name \in {"enable", "login"}) \in BOOLEAN
    OBVIOUS
  <2>. QED  BY <1>2, <1>4, <2>1 DEF WhatsAppUpdates
<1>10. CASE c.source # "browser_history"
  BY <1>4, <1>5, <1>6, <1>8, <1>9, <1>10 DEF Updates
<1>. QED  BY <1>7, <1>10

-----------------------------------------------------------------------------
(* What a step does to each process.                                       *)

Same(q) ==
  /\ run'[q].pc = run[q].pc /\ run'[q].file = run[q].file /\ run'[q].source = run[q].source
  /\ run'[q].todo = run[q].todo /\ run'[q].config = run[q].config
GoesOn(q) == Same(q) \/ (run[q].pc = "idle" /\ run'[q] = Idle)

\* What the others do they go on with.
LEMMA OthersGoOn ==
  ASSUME Shape, NEW p \in Process, NEW q \in Process \ {p},
         (\E c \in Commands : Begin(p, c)) \/ Load(p) \/ OpenTemp(p) \/ WriteTemp(p) \/ Rename(p) \/ Die(p)
  PROVE  GoesOn(q)
<1>. USE DEF GoesOn
<1>0. DOMAIN run = Process /\ DOMAIN run[q] = Fields
  BY DEF Shape, RunOK
<1>1. ASSUME run'[q] = run[q] \/ run'[q] = [run[q] EXCEPT !.stale = TRUE] PROVE Same(q)
  BY <1>0, <1>1 DEF Same, Fields
<1>2. CASE (\E c \in Commands : Begin(p, c)) \/ Load(p) \/ OpenTemp(p) \/ Die(p)
  <2>1. run'[q] = run[q]
    BY <1>0, <1>2 DEF Begin, Load, OpenTemp, Die
  <2>. QED  BY <1>1, <2>1
<1>3. DOMAIN Outdated(p) = Process /\ (Outdated(p)[q] = run[q] \/ Outdated(p)[q] = [run[q] EXCEPT !.stale = TRUE])
  BY DEF Outdated
<1>4. CASE WriteTemp(p)
  <2>1. run'[q] = run[q] \/ run'[q] = Outdated(p)[q]
    BY <1>0, <1>3, <1>4 DEF WriteTemp
  <2>. QED  BY <1>1, <1>3, <2>1
<1>5. CASE Rename(p)
  <2>1. run'[q] = run[q] \/ run'[q] = Outdated(p)[q]
    BY <1>0, <1>3, <1>5 DEF Rename
  <2>. QED  BY <1>1, <1>3, <2>1
<1>. QED  BY <1>2, <1>4, <1>5

\* The user leaves what processes do to them.
LEMMA EditGoesOn ==
  ASSUME Shape, NEW q \in Process, Edit
  PROVE  GoesOn(q)
<1>1. DOMAIN run[q] = Fields
  BY DEF Shape, RunOK
<1>2. CASE run[q].pc = "idle"
  BY <1>2 DEF Edit, GoesOn
<1>3. CASE run[q].pc # "idle"
  <2>1. run'[q] = [run[q] EXCEPT !.stale = TRUE]
    BY <1>3 DEF Edit
  <2>. QED  BY <1>1, <2>1 DEF GoesOn, Same, Fields
<1>. QED  BY <1>2, <1>3

\* What a process does by its own step.
LEMMA OwnStep ==
  ASSUME Shape, NEW p \in Process
  PROVE  /\ Die(p) => run'[p] = Idle
         /\ Load(p) => /\ run'[p].pc = "open" /\ run'[p].source = run[p].source /\ run'[p].todo = run[p].todo
                       /\ run'[p].file = run[p].file
                       /\ run'[p].config = IF run[p].todo[1].what = "forget" THEN Empty
                                           ELSE Patched(run[p].source, run[p].todo[1], LoadConfig)
         /\ OpenTemp(p) => /\ run'[p].pc = "write" /\ run'[p].file = Target
                           /\ run'[p].source = run[p].source
                           /\ run'[p].todo = run[p].todo /\ run'[p].config = run[p].config
         /\ WriteTemp(p) => /\ run'[p].pc = "rename" /\ run'[p].file = run[p].file
                            /\ run'[p].source = run[p].source
                            /\ run'[p].todo = run[p].todo /\ run'[p].config = run[p].config
         /\ Rename(p) => \/ run'[p] = Idle
                         \/ /\ temp # NoFile /\ Len(run[p].todo) # 1
                            /\ run'[p].pc = "load" /\ run'[p].file = NoFile
                            /\ run'[p].source = run[p].source
                            /\ run'[p].todo = Tail(run[p].todo) /\ run'[p].config = run[p].config
<1>0. DOMAIN run = Process /\ DOMAIN run[p] = Fields
  BY DEF Shape, RunOK
<1>1. Die(p) => run'[p] = Idle
  BY <1>0 DEF Die
<1>2. ASSUME Load(p)
      PROVE  /\ run'[p].pc = "open" /\ run'[p].source = run[p].source /\ run'[p].todo = run[p].todo
             /\ run'[p].file = run[p].file
             /\ run'[p].config = IF run[p].todo[1].what = "forget" THEN Empty
                                 ELSE Patched(run[p].source, run[p].todo[1], LoadConfig)
  <2>. DEFINE c == IF run[p].todo[1].what = "forget" THEN Empty
                   ELSE Patched(run[p].source, run[p].todo[1], LoadConfig)
  <2>1. run' = [run EXCEPT ![p].pc = "open", ![p].stale = FALSE, ![p].config = c]
    BY <1>2 DEF Load
  <2>. HIDE DEF c
  <2>2. /\ run'[p].pc = "open" /\ run'[p].source = run[p].source /\ run'[p].todo = run[p].todo
        /\ run'[p].file = run[p].file /\ run'[p].config = c
    BY <1>0, <2>1 DEF Fields
  <2>. QED  BY <2>2 DEF c
<1>3. ASSUME OpenTemp(p)
      PROVE  /\ run'[p].pc = "write" /\ run'[p].file = Target /\ run'[p].source = run[p].source
             /\ run'[p].todo = run[p].todo /\ run'[p].config = run[p].config
  <2>. DEFINE t == Target
  <2>1. run' = [run EXCEPT ![p].pc = "write", ![p].file = t]
    BY <1>3 DEF OpenTemp
  <2>. HIDE DEF t
  <2>2. /\ run'[p].pc = "write" /\ run'[p].file = t /\ run'[p].source = run[p].source
        /\ run'[p].todo = run[p].todo /\ run'[p].config = run[p].config
    BY <1>0, <2>1 DEF Fields
  <2>. QED  BY <2>2 DEF t
<1>4. ASSUME WriteTemp(p)
      PROVE  /\ run'[p].pc = "rename" /\ run'[p].file = run[p].file /\ run'[p].source = run[p].source
             /\ run'[p].todo = run[p].todo /\ run'[p].config = run[p].config
  <2>. DEFINE before == IF run[p].file = main THEN Outdated(p) ELSE run
  <2>1. run' = [before EXCEPT ![p].pc = "rename"]
    BY <1>4 DEF WriteTemp
  <2>2. DOMAIN before = Process /\ before[p] = run[p]
    BY <1>0 DEF Outdated
  <2>. HIDE DEF before
  <2>. QED  BY <1>0, <2>1, <2>2 DEF Fields
<1>5. ASSUME Rename(p)
      PROVE  \/ run'[p] = Idle
             \/ /\ temp # NoFile /\ Len(run[p].todo) # 1
                /\ run'[p].pc = "load" /\ run'[p].file = NoFile /\ run'[p].source = run[p].source
                /\ run'[p].todo = Tail(run[p].todo) /\ run'[p].config = run[p].config
  <2>1. CASE temp = NoFile
    BY <1>0, <1>5, <2>1 DEF Rename
  <2>2. CASE temp # NoFile
    <3>1. DOMAIN Outdated(p) = Process /\ Outdated(p)[p] = run[p]
      BY DEF Outdated
    <3>2. run'[p] = Saved(run[p])
      BY <1>5, <2>2, <3>1 DEF Rename
    <3>3. CASE Len(run[p].todo) = 1
      BY <3>2, <3>3 DEF Saved
    <3>4. CASE Len(run[p].todo) # 1
      <4>1. run'[p] = [run[p] EXCEPT !.pc = "load", !.todo = Tail(run[p].todo), !.file = NoFile]
        BY <3>2, <3>4 DEF Saved
      <4>. QED  BY <1>0, <2>2, <3>4, <4>1 DEF Fields
    <3>. QED  BY <3>3, <3>4
  <2>. QED  BY <2>1, <2>2
<1>. QED  BY <1>1, <1>2, <1>3, <1>4, <1>5

\* What a user makes of config.json.
Edited ==
  {Broken, Written([LoadConfig EXCEPT !.mcp = ~@])}
    \cup {Written([LoadConfig EXCEPT !.sources[s].reset = TRUE]) : s \in Source}

\* Users leave the switches and settings of a source alone.
LEMMA EditedIsTyped ==
  ASSUME LoadConfig \in Config, NEW x \in Edited
  PROVE  /\ x \in [whole : BOOLEAN, config : Config]
         /\ x.whole /\ Chosen(LoadConfig) => Chosen(x.config)
<1>1. CASE x = Broken
  BY <1>1, EmptyIsConfig
<1>2. CASE x = Written([LoadConfig EXCEPT !.mcp = ~@])
  <2>1. [LoadConfig EXCEPT !.mcp = ~@] \in Config
    BY DEF Config
  <2>2. [LoadConfig EXCEPT !.mcp = ~@].sources = LoadConfig.sources
    BY DEF Config
  <2>. QED  BY <1>2, <2>1, <2>2 DEF Written, Chosen, Browser
<1>3. ASSUME NEW s \in Source, x = Written([LoadConfig EXCEPT !.sources[s].reset = TRUE])
      PROVE  /\ x \in [whole : BOOLEAN, config : Config]
             /\ Chosen(LoadConfig) => Chosen(x.config)
  <2>. DEFINE section == [LoadConfig.sources[s] EXCEPT !.reset = TRUE]
              sources == [LoadConfig.sources EXCEPT ![s] = section]
  <2>1. LoadConfig.sources \in [Source -> Section]
    BY DEF Config
  <2>2. section \in Section /\ section.enabled = LoadConfig.sources[s].enabled
        /\ section.auth = LoadConfig.sources[s].auth
    BY <2>1 DEF Section
  <2>3. sources \in [Source -> Section]
    BY <2>1, <2>2
  <2>4. [LoadConfig EXCEPT !.sources[s].reset = TRUE] = [LoadConfig EXCEPT !.sources = sources]
    OBVIOUS
  <2>5. /\ sources["browser_history"].enabled = LoadConfig.sources["browser_history"].enabled
        /\ sources["browser_history"].auth = LoadConfig.sources["browser_history"].auth
    BY <2>1, <2>2 DEF Source
  <2>. HIDE DEF section, sources
  <2>6. [LoadConfig EXCEPT !.sources = sources] \in Config
        /\ [LoadConfig EXCEPT !.sources = sources].sources = sources
    BY <2>3 DEF Config
  <2>. QED  BY <1>3, <2>4, <2>5, <2>6 DEF Written, Chosen, Browser
<1>. QED  BY <1>1, <1>2, <1>3 DEF Edited

-----------------------------------------------------------------------------
(* Every step keeps the types.                                             *)

\* After the first of several updates there are others.
LEMMA MoreToDo ==
  ASSUME NEW todo \in Seq(Update), todo # <<>>, Len(todo) # 1
  PROVE  Tail(todo) \in Seq(Update) /\ Tail(todo) # <<>>
<1>. DEFINE S == Update
<1>. HIDE DEF S
<1>1. todo \in Seq(S) /\ Len(todo) \in Nat /\ Len(todo) # 0
  BY DEF S
<1>2. Tail(todo) \in Seq(S) /\ Len(Tail(todo)) = Len(todo) - 1
  BY <1>1
<1>3. Len(Tail(todo)) # 0
  BY <1>1, <1>2
<1>4. Len(<<>>) = 0
  OBVIOUS
<1>5. Tail(todo) # <<>>
  BY <1>3, <1>4
<1>. QED  BY <1>2, <1>5 DEF S

\* What an idle process holds.
LEMMA IdleIsTyped == Idle.source \in Source \cup {"all"} /\ Idle.config \in Config /\ Idle.todo \in Seq(Update)
BY EmptyIsConfig DEF Idle

\* Commands and updates are typed, so are the configurations they make.
LEMMA NextKeepsTypes == IInv /\ Types /\ [Next]_vars => Types'
<1>. SUFFICES ASSUME IInv, Types, [Next]_vars PROVE Types'
  OBVIOUS
<1>0. Shape /\ LoadConfig \in Config /\ \A f \in File : content[f] \in [whole : BOOLEAN, config : Config]
  BY LoadIsConfig DEF IInv, Shape, Types
<1>1. ASSUME NEW q \in Process, GoesOn(q) PROVE RunTyped(q)'
  BY <1>1, IdleIsTyped, IdleIsOK DEF GoesOn, Same, RunTyped, Types
<1>2. ASSUME NEW p \in Process, run'[p] = Idle PROVE RunTyped(p)'
  BY <1>2, IdleIsTyped, IdleIsOK DEF RunTyped
<1>3. \A c \in Config : Written(c) \in [whole : BOOLEAN, config : Config]
  BY DEF Written
<1>4. ASSUME NEW p \in Process, NEW c \in Commands, Begin(p, c) PROVE Types'
  <2>. DEFINE own == IF c.source = "all" THEN {} ELSE LoadConfig.sources[c.source].auth
  <2>1. own \in SUBSET Item
    BY <1>0, CommandAssumption DEF Config, Section
  <2>2. /\ run' = [run EXCEPT ![p] = [Idle EXCEPT !.pc = "load", !.source = c.source,
                                                 !.todo = Updates(c, own)]]
        /\ Updates(c, own) # <<>> /\ runs' \in 0..MaxRun /\ UNCHANGED <<content, faults, interrupted>>
    BY <1>4, BoundAssumption DEF Begin, Types
  <2>. HIDE DEF own
  <2>3. Updates(c, own) \in Seq(Update)
    BY <2>1, UpdatesAreTyped
  <2>4. run'[p] = [Idle EXCEPT !.pc = "load", !.source = c.source, !.todo = Updates(c, own)]
    BY <1>0, <2>2 DEF Shape
  <2>5. run'[p].source = c.source /\ run'[p].todo = Updates(c, own) /\ run'[p].config = Idle.config
    BY <2>4, IdleIsOK DEF Fields
  <2>6. RunTyped(p)'
    BY <2>2, <2>3, <2>5, IdleIsTyped, CommandAssumption DEF RunTyped
  <2>7. \A q \in Process \ {p} : RunTyped(q)'
    BY <1>0, <1>1, <1>4, OthersGoOn
  <2>. QED  BY <2>2, <2>6, <2>7 DEF Types
<1>5. ASSUME NEW p \in Process, Load(p) PROVE Types'
  <2>1. run[p].todo[1] \in Update /\ RunTyped(p) /\ run[p].todo # <<>>
    BY <1>5 DEF Load, Types, RunTyped
  <2>2. run'[p].config \in Config
    BY <1>0, <1>5, <2>1, OwnStep, EmptyIsConfig, PatchedIsConfig DEF RunTyped
  <2>3. RunTyped(p)'
    BY <1>0, <1>5, <2>1, <2>2, OwnStep DEF RunTyped
  <2>4. UNCHANGED <<content, runs, faults, interrupted>>
    BY <1>5 DEF Load
  <2>5. \A q \in Process \ {p} : RunTyped(q)'
    BY <1>0, <1>1, <1>5, OthersGoOn
  <2>. QED  BY <2>3, <2>4, <2>5 DEF Types
<1>6. ASSUME NEW p \in Process, OpenTemp(p) PROVE Types'
  <2>1. RunTyped(p)'
    BY <1>0, <1>6, OwnStep DEF Types, RunTyped, OpenTemp
  <2>2. content' \in [File -> [whole : BOOLEAN, config : Config]]
    BY <1>6, EmptyIsConfig DEF OpenTemp, Types
  <2>3. UNCHANGED <<runs, faults, interrupted>>
    BY <1>6 DEF OpenTemp
  <2>4. \A q \in Process \ {p} : RunTyped(q)'
    BY <1>0, <1>1, <1>6, OthersGoOn
  <2>. QED  BY <2>1, <2>2, <2>3, <2>4 DEF Types
<1>7. ASSUME NEW others \in SUBSET Process, Interrupted(others) PROVE interrupted' \subseteq Source \cup {"all"}
  <2>1. \A q \in Process : run[q].source \in Source \cup {"all"}
    BY DEF Types, RunTyped
  <2>. QED  BY <1>7, <2>1 DEF Interrupted, Types
<1>8. ASSUME NEW p \in Process, WriteTemp(p) PROVE Types'
  <2>1. RunTyped(p) /\ RunTyped(p)'
    BY <1>0, <1>8, OwnStep DEF Types, RunTyped, WriteTemp
  <2>2. content' \in [File -> [whole : BOOLEAN, config : Config]]
    <3>1. Written(run[p].config) \in [whole : BOOLEAN, config : Config]
      BY <1>3, <2>1 DEF RunTyped
    <3>. QED  BY <1>8, <3>1, EmptyIsConfig DEF WriteTemp, Types
  <2>3. interrupted' \subseteq Source \cup {"all"} /\ UNCHANGED <<runs, faults>>
    BY <1>7, <1>8 DEF WriteTemp, Types
  <2>4. \A q \in Process \ {p} : RunTyped(q)'
    BY <1>0, <1>1, <1>8, OthersGoOn
  <2>. QED  BY <2>1, <2>2, <2>3, <2>4 DEF Types
<1>9. ASSUME NEW p \in Process, Rename(p) PROVE Types'
  <2>1. RunTyped(p)'
    <3>1. CASE run'[p] = Idle
      BY <1>2, <3>1
    <3>2. CASE run'[p] # Idle
      <4>1. /\ Len(run[p].todo) # 1 /\ run'[p].source = run[p].source
            /\ run'[p].todo = Tail(run[p].todo) /\ run'[p].config = run[p].config
        BY <1>0, <1>9, <3>2, OwnStep
      <4>2. RunTyped(p) /\ run[p].todo # <<>>
        BY <1>9 DEF Types, RunTyped, Rename
      <4>3. Tail(run[p].todo) \in Seq(Update) /\ Tail(run[p].todo) # <<>>
        BY <4>1, <4>2, MoreToDo DEF RunTyped
      <4>. QED  BY <4>1, <4>2, <4>3 DEF RunTyped
    <3>. QED  BY <3>1, <3>2
  <2>2. CASE temp = NoFile
    <3>1. UNCHANGED <<content, interrupted, runs, faults>>
      BY <1>9, <2>2 DEF Rename
    <3>2. \A q \in Process \ {p} : RunTyped(q)'
      BY <1>0, <1>1, <1>9, OthersGoOn
    <3>. QED  BY <2>1, <3>1, <3>2 DEF Types
  <2>3. CASE temp # NoFile
    <3>1. content' = [f \in File |-> IF f = main /\ ~Open(f) THEN Torn ELSE content[f]]
      BY <1>9, <2>3 DEF Rename
    <3>2. content' \in [File -> [whole : BOOLEAN, config : Config]]
      BY <1>0, <3>1, EmptyIsConfig
    <3>3. interrupted' \subseteq Source \cup {"all"} /\ UNCHANGED <<runs, faults>>
      BY <1>7, <1>9, <2>3 DEF Rename
    <3>4. \A q \in Process \ {p} : RunTyped(q)'
      BY <1>0, <1>1, <1>9, OthersGoOn
    <3>. QED  BY <2>1, <3>2, <3>3, <3>4 DEF Types
  <2>. QED  BY <2>2, <2>3
<1>10. ASSUME NEW p \in Process, Die(p) PROVE Types'
  <2>1. RunTyped(p)' /\ \A q \in Process \ {p} : RunTyped(q)'
    BY <1>0, <1>1, <1>2, <1>10, OwnStep, OthersGoOn
  <2>2. UNCHANGED <<content, interrupted, runs>> /\ faults' \in 0..MaxFault
    BY <1>10, BoundAssumption DEF Die, Types
  <2>. QED  BY <2>1, <2>2 DEF Types
<1>11. CASE Edit
  <2>1. \A q \in Process : RunTyped(q)'
    BY <1>0, <1>1, <1>11, EditGoesOn
  <2>2. faults' \in 0..MaxFault /\ runs' = runs
    BY <1>11, BoundAssumption DEF Edit, Types
  <2>3. interrupted' \subseteq Source \cup {"all"}
    BY <1>7, <1>11 DEF Edit
  <2>4. \A x \in Edited : x \in [whole : BOOLEAN, config : Config]
    BY <1>0, <1>3, EditedIsTyped
  <2>5. content' \in [File -> [whole : BOOLEAN, config : Config]]
    BY <1>11, <2>4 DEF Edit, Edited, Types
  <2>. QED  BY <2>1, <2>2, <2>3, <2>5 DEF Types
<1>12. CASE UNCHANGED vars
  <2>1. \A q \in Process : RunTyped(q)'
    BY <1>12 DEF vars, Types, RunTyped
  <2>. QED  BY <1>12, <2>1 DEF vars, Types
<1>. QED  BY <1>4, <1>5, <1>6, <1>8, <1>9, <1>10, <1>11, <1>12 DEF Next

-----------------------------------------------------------------------------
(* Every step keeps the browser.                                           *)

\* Whoever is at a save when config.json changes is told, but for the process that
\* changes it by a file of its own.
LEMMA ChangesAreTold ==
  ASSUME IInv, NEW p \in Process,
         (\E c \in Commands : Begin(p, c)) \/ Load(p) \/ OpenTemp(p) \/ WriteTemp(p) \/ Rename(p) \/ Die(p)
  PROVE  /\ interrupted \subseteq interrupted'
         /\ LoadConfig' # LoadConfig \/ main' # main =>
              /\ \A q \in Process \ {p} : run[q].pc # "idle" => run[q].source \in interrupted'
              /\ (WriteTemp(p) /\ run[p].file = main) \/ (Rename(p) /\ temp # NoFile)
<1>0. Shape /\ NamesDiffer
  BY DEF IInv
<1>1. CASE (\E c \in Commands : Begin(p, c)) \/ Load(p) \/ Die(p)
  BY <1>1 DEF Begin, Load, Die, LoadConfig
<1>2. CASE OpenTemp(p)
  <2>1. Target \in File /\ Target # main
    BY <1>0, TargetIsNotMain
  <2>2. main # NoFile => content'[main] = content[main]
    BY <1>0, <1>2, <2>1 DEF OpenTemp, Shape
  <2>. QED  BY <1>2, <2>2 DEF OpenTemp, LoadConfig
<1>3. CASE WriteTemp(p)
  <2>1. CASE run[p].file = main
    BY <1>3, <2>1 DEF WriteTemp, Interrupted
  <2>2. CASE run[p].file # main
    <3>1. main # NoFile => content'[main] = content[main]
      BY <1>0, <1>3, <2>2 DEF WriteTemp, Shape
    <3>. QED  BY <1>3, <2>2, <3>1 DEF WriteTemp, LoadConfig
  <2>. QED  BY <2>1, <2>2
<1>4. CASE Rename(p)
  <2>1. CASE temp = NoFile
    BY <1>4, <2>1 DEF Rename, LoadConfig
  <2>2. CASE temp # NoFile
    <3>1. Interrupted(Process) \/ Interrupted(Process \ {p})
      BY <1>4, <2>2 DEF Rename
    <3>. QED  BY <1>4, <2>2, <3>1 DEF Interrupted
  <2>. QED  BY <2>1, <2>2
<1>. QED  BY <1>1, <1>2, <1>3, <1>4

\* Whoever goes on has still what it has to do, and has been told what has changed.
LEMMA OthersKeepBrowser ==
  ASSUME BrowserInv, NEW q \in Process, GoesOn(q), interrupted \subseteq interrupted',
         (LoadConfig' # LoadConfig \/ main' # main) /\ run[q].pc # "idle" =>
           run[q].source \in interrupted'
  PROVE  BrowserIsSaved(q)' /\ SavesChosen(q)' /\ GivenAway(q)'
<1>1. BrowserIsSaved(q) /\ SavesChosen(q) /\ GivenAway(q)
  BY DEF BrowserInv
<1>2. Quiet' => Quiet
  BY DEF Quiet
<1>3. CASE run[q].pc = "idle"
  <2>1. run'[q].pc = "idle"
    BY <1>3, IdleIsOK DEF GoesOn, Same
  <2>. QED  BY <2>1 DEF BrowserIsSaved, SavesChosen, GivenAway, AtBrowser, Saves, Writing
<1>4. CASE run[q].pc # "idle"
  <2>1. Same(q)
    BY <1>4 DEF GoesOn
  <2>2. BrowserIsSaved(q)'
    <3>1. AtBrowser(q)' /\ Quiet' => LoadConfig' = LoadConfig
      BY <1>4, <2>1 DEF AtBrowser, Quiet, Same
    <3>. QED  BY <1>1, <1>2, <2>1, <3>1 DEF BrowserIsSaved, AtBrowser, Same, Saves
  <2>3. SavesChosen(q)'
    BY <1>1, <1>2, <2>1 DEF SavesChosen, Same, Saves
  <2>4. GivenAway(q)'
    BY <1>1, <1>4, <2>1 DEF GivenAway, Same, Writing
  <2>. QED  BY <2>2, <2>3, <2>4
<1>. QED  BY <1>3, <1>4

\* The shape of what a command of browser_history has to do.
LEMMA BrowserTodoIs ==
  ASSUME NEW todo \in BrowserTodo
  PROVE  /\ todo[1].what \in {"auth", "enable", "off", "clear"}
         /\ todo[1].what = "auth" => todo[1].auth # {}
         /\ Len(todo) # 1 => /\ todo[1].what = "auth" /\ Tail(todo) \in BrowserTodo
                             /\ Tail(todo) = <<SetSourceEnabled(TRUE)>>
<1>1. CASE \E items \in (SUBSET Item) \ {{}} : todo = <<SaveAuth(items), SetSourceEnabled(TRUE)>>
  <2>1. PICK items \in (SUBSET Item) \ {{}} : todo = <<SaveAuth(items), SetSourceEnabled(TRUE)>>
    BY <1>1
  <2>2. \A a, b : <<a, b>>[1] = a /\ Tail(<<a, b>>) = <<b>>
    OBVIOUS
  <2>3. todo[1] = SaveAuth(items) /\ Tail(todo) = <<SetSourceEnabled(TRUE)>>
    BY <2>1, <2>2
  <2>4. todo[1].what = "auth" /\ todo[1].auth = items
    BY <2>3 DEF SaveAuth
  <2>. QED  BY <2>3, <2>4 DEF BrowserTodo
<1>2. CASE todo \in {<<SetSourceEnabled(TRUE)>>, <<[what |-> "off", auth |-> {}]>>,
                     <<[what |-> "clear", auth |-> {}]>>}
  BY <1>2 DEF SetSourceEnabled
<1>. QED  BY <1>1, <1>2 DEF BrowserTodo

\* What every file holds is fit to be config.json.
FilesChosen == Quiet => \A f \in File : content[f].whole => Chosen(content[f].config)

\* A browser is saved before the source is enabled, and goes only with the switch.
LEMMA NextKeepsBrowser == IInv /\ BrowserInv /\ Types' /\ [Next]_vars => BrowserInv'
<1>. SUFFICES ASSUME IInv, BrowserInv, Types', [Next]_vars PROVE BrowserInv'
  OBVIOUS
<1>0. /\ Shape /\ Types /\ LoadConfig \in Config /\ FilesChosen
      /\ Quiet => Chosen(LoadConfig)
      /\ \A f \in File : content[f] \in [whole : BOOLEAN, config : Config]
  BY LoadIsConfig DEF IInv, Shape, BrowserInv, Types, FilesChosen
<1>1. ASSUME NEW p \in Process, FilesChosen', BrowserIsSaved(p)', SavesChosen(p)', GivenAway(p)',
             (\E c \in Commands : Begin(p, c)) \/ Load(p) \/ OpenTemp(p) \/ WriteTemp(p) \/ Rename(p) \/ Die(p)
      PROVE  BrowserInv'
  <2>1. ASSUME NEW q \in Process \ {p} PROVE BrowserIsSaved(q)' /\ SavesChosen(q)' /\ GivenAway(q)'
    <3>1. GoesOn(q)
      BY <1>0, <1>1, OthersGoOn
    <3>2. interrupted \subseteq interrupted'
      BY <1>1, ChangesAreTold
    <3>3. (LoadConfig' # LoadConfig \/ main' # main) /\ run[q].pc # "idle" =>
             run[q].source \in interrupted'
      BY <1>1, ChangesAreTold
    <3>. QED  BY <3>1, <3>2, <3>3, OthersKeepBrowser
  <2>. QED  BY <1>1, <2>1 DEF BrowserInv, FilesChosen
<1>2. ASSUME NEW p \in Process, run'[p] = Idle
      PROVE  BrowserIsSaved(p)' /\ SavesChosen(p)' /\ GivenAway(p)'
  BY <1>2, IdleIsOK DEF BrowserIsSaved, SavesChosen, GivenAway, AtBrowser, Saves, Writing
<1>3. UNCHANGED <<content, interrupted>> => FilesChosen'
  BY <1>0 DEF FilesChosen, Quiet
<1>4. ASSUME NEW p \in Process, NEW c \in Commands, Begin(p, c) PROVE BrowserInv'
  <2>. DEFINE own == IF c.source = "all" THEN {} ELSE LoadConfig.sources[c.source].auth
  <2>1. own \in SUBSET Item
    BY <1>0, CommandAssumption DEF Config, Section
  <2>2. /\ run' = [run EXCEPT ![p] = [Idle EXCEPT !.pc = "load", !.source = c.source,
                                                 !.todo = Updates(c, own)]]
        /\ Updates(c, own) # <<>> /\ UNCHANGED <<content, main, interrupted>>
    BY <1>4 DEF Begin
  <2>3. c.source = "browser_history" => own = Browser(LoadConfig).auth
    BY DEF Browser
  <2>. HIDE DEF own
  <2>4. run'[p] = [Idle EXCEPT !.pc = "load", !.source = c.source, !.todo = Updates(c, own)]
    BY <1>0, <2>2 DEF Shape
  <2>5. run'[p].pc = "load" /\ run'[p].source = c.source /\ run'[p].todo = Updates(c, own)
    BY <2>4, IdleIsOK DEF Fields
  <2>6. LoadConfig' = LoadConfig
    BY <2>2 DEF LoadConfig
  <2>7. BrowserIsSaved(p)'
    BY <2>1, <2>2, <2>3, <2>5, <2>6, UpdatesAreTyped DEF BrowserIsSaved, AtBrowser, Saves
  <2>8. SavesChosen(p)' /\ GivenAway(p)'
    BY <2>5 DEF SavesChosen, GivenAway, Saves, Writing
  <2>. QED  BY <1>1, <1>3, <1>4, <2>2, <2>7, <2>8
<1>5. ASSUME NEW p \in Process, Load(p) PROVE BrowserInv'
  <2>. DEFINE u == run[p].todo[1]
  <2>1. /\ run'[p].pc = "open" /\ run'[p].source = run[p].source /\ run'[p].todo = run[p].todo
        /\ run'[p].config = IF u.what = "forget" THEN Empty ELSE Patched(run[p].source, u, LoadConfig)
    BY <1>0, <1>5, OwnStep
  <2>2. /\ u \in Update /\ run[p].source \in Source \cup {"all"} /\ run[p].pc = "load"
        /\ BrowserIsSaved(p)
    BY <1>0, <1>5 DEF Load, Types, RunTyped, BrowserInv
  <2>3. UNCHANGED <<content, main, interrupted>>
    BY <1>5 DEF Load
  <2>4. LoadConfig' = LoadConfig /\ Quiet' = Quiet
    BY <2>3 DEF LoadConfig, Quiet
  <2>5. AtBrowser(p) => /\ u.what \in {"auth", "enable", "off", "clear"}
                        /\ u.what = "auth" => u.auth # {}
                        /\ Quiet /\ u.what = "enable" => Browser(LoadConfig).auth # {}
    BY <2>2, BrowserTodoIs DEF BrowserIsSaved
  <2>. HIDE DEF u
  <2>6. Browser(LoadConfig) \in Section
    BY <1>0 DEF Config, Browser, Source
  <2>7. CASE run[p].source = "browser_history"
    <3>1. AtBrowser(p) /\ Browser(run'[p].config) = Updated(u, Browser(LoadConfig))
      BY <1>0, <2>1, <2>2, <2>5, <2>7, PatchedIsConfig DEF AtBrowser
    <3>2. /\ u.what = "auth" => Browser(run'[p].config).auth = u.auth
          /\ u.what = "enable" => Browser(run'[p].config).auth = Browser(LoadConfig).auth
          /\ u.what \in {"off", "clear"} => Browser(run'[p].config).enabled = FALSE
      BY <2>6, <3>1 DEF Updated, Section
    <3>3. Quiet => Chosen(run'[p].config)
      BY <2>5, <3>1, <3>2 DEF Chosen
    <3>4. SavesChosen(p)'
      BY <2>4, <3>3 DEF SavesChosen
    <3>5. BrowserIsSaved(p)'
      BY <2>1, <2>2, <2>4, <2>5, <3>1, <3>2 DEF BrowserIsSaved, AtBrowser, u
    <3>. QED  BY <1>1, <1>3, <1>5, <2>1, <2>3, <3>4, <3>5 DEF GivenAway, Writing
  <2>8. CASE run[p].source # "browser_history"
    <3>1. Quiet => Chosen(run'[p].config)
      BY <1>0, <2>1, <2>2, <2>8, PatchedIsConfig, EmptyIsConfig DEF Chosen
    <3>2. SavesChosen(p)' /\ BrowserIsSaved(p)' /\ GivenAway(p)'
      BY <2>1, <2>4, <2>8, <3>1 DEF SavesChosen, BrowserIsSaved, AtBrowser, GivenAway, Writing
    <3>. QED  BY <1>1, <1>3, <1>5, <2>3, <3>2
  <2>. QED  BY <2>7, <2>8
<1>6. ASSUME NEW p \in Process, OpenTemp(p) PROVE BrowserInv'
  <2>1. /\ run'[p].pc = "write" /\ run'[p].file = Target /\ run'[p].source = run[p].source
        /\ run'[p].todo = run[p].todo /\ run'[p].config = run[p].config
    BY <1>0, <1>6, OwnStep
  <2>2. Target \in File /\ Target # main
    BY <1>0, TargetIsNotMain DEF IInv
  <2>3. run[p].pc = "open" /\ content' = [content EXCEPT ![Target] = Torn] /\ UNCHANGED <<main, interrupted>>
    BY <1>6 DEF OpenTemp
  <2>. DEFINE t == Target
  <2>. HIDE DEF t
  <2>4. \A f \in File : content'[f] = content[f] \/ content'[f] = Torn
    BY <1>0, <2>2, <2>3 DEF Types
  <2>5. Quiet' = Quiet /\ LoadConfig' = LoadConfig
    BY <1>6, ChangesAreTold, <2>3 DEF Quiet, OpenTemp, WriteTemp, Rename
  <2>6. FilesChosen'
    BY <1>0, <2>4, <2>5, EmptyIsConfig DEF FilesChosen
  <2>7. BrowserIsSaved(p) /\ SavesChosen(p)
    BY DEF BrowserInv
  <2>8. BrowserIsSaved(p)'
    BY <2>1, <2>3, <2>5, <2>7 DEF BrowserIsSaved, AtBrowser, Saves
  <2>9. SavesChosen(p)' /\ GivenAway(p)'
    BY <2>1, <2>2, <2>3, <2>5, <2>7 DEF SavesChosen, Saves, GivenAway
  <2>. QED  BY <1>1, <1>6, <2>6, <2>8, <2>9
<1>7. ASSUME NEW p \in Process, WriteTemp(p) PROVE BrowserInv'
  <2>. DEFINE g == run[p].file
  <2>1. /\ run'[p].pc = "rename" /\ run'[p].file = g /\ run'[p].source = run[p].source
        /\ run'[p].todo = run[p].todo /\ run'[p].config = run[p].config
    BY <1>0, <1>7, OwnStep
  <2>2. run[p].pc = "write" /\ main' = main
    BY <1>7 DEF WriteTemp
  <2>3. \/ content' = [content EXCEPT ![g] = Written(run[p].config)]
        \/ content' = [content EXCEPT ![g] = Torn]
    BY <1>7 DEF WriteTemp
  <2>4. /\ interrupted \subseteq interrupted'
        /\ LoadConfig' # LoadConfig => g = main
    BY <1>7, ChangesAreTold, <2>2 DEF Rename
  <2>5. BrowserIsSaved(p) /\ SavesChosen(p) /\ GivenAway(p)
    BY DEF BrowserInv
  <2>6. Quiet' => Quiet
    BY <2>4 DEF Quiet
  <2>7. Quiet' => Chosen(run[p].config)
    BY <2>2, <2>5, <2>6 DEF SavesChosen, Saves
  <2>8. \A f \in File : content'[f] \in {content[f], Torn, Written(run[p].config)}
    BY <1>0, <2>3 DEF Types
  <2>9. FilesChosen'
    BY <1>0, <2>6, <2>7, <2>8, EmptyIsConfig DEF FilesChosen, Written
  <2>10. AtBrowser(p) /\ Quiet' => LoadConfig' = LoadConfig
    BY <2>2, <2>4, <2>5 DEF GivenAway, Writing, AtBrowser, Quiet
  <2>11. BrowserIsSaved(p)'
    BY <2>1, <2>2, <2>5, <2>6, <2>10 DEF BrowserIsSaved, AtBrowser, Saves
  <2>12. SavesChosen(p)' /\ GivenAway(p)'
    BY <2>1, <2>2, <2>4, <2>5, <2>7 DEF SavesChosen, GivenAway, Writing
  <2>. QED  BY <1>1, <1>7, <2>9, <2>11, <2>12
<1>8. ASSUME NEW p \in Process, Rename(p) PROVE BrowserInv'
  <2>1. /\ interrupted \subseteq interrupted' /\ (Quiet' => Quiet)
        /\ run[p].pc = "rename" /\ BrowserIsSaved(p) /\ RunOK(p) /\ SaveOK(p)
    BY <1>0, <1>8, ChangesAreTold DEF Quiet, Rename, BrowserInv, IInv, Shape
  <2>2. \A f \in File : content'[f] = content[f] \/ content'[f] = Torn
    BY <1>0, <1>8 DEF Rename
  <2>3. FilesChosen'
    BY <1>0, <2>1, <2>2, EmptyIsConfig DEF FilesChosen
  <2>4. CASE run'[p] = Idle
    BY <1>1, <1>2, <1>8, <2>3, <2>4
  <2>5. CASE run'[p] # Idle
    <3>1. /\ temp # NoFile /\ Len(run[p].todo) # 1 /\ run'[p].pc = "load"
          /\ run'[p].source = run[p].source /\ run'[p].todo = Tail(run[p].todo)
      BY <1>0, <1>8, <2>5, OwnStep
    <3>2. SavesChosen(p)' /\ GivenAway(p)'
      BY <3>1 DEF SavesChosen, GivenAway, Saves, Writing
    <3>3. ASSUME AtBrowser(p)
          PROVE  /\ run'[p].todo \in BrowserTodo /\ run[p].todo[1].what = "auth"
                 /\ Browser(run[p].config).auth # {}
      BY <2>1, <3>1, <3>3, BrowserTodoIs DEF BrowserIsSaved, Saves
    <3>4. ASSUME AtBrowser(p), Quiet' PROVE LoadConfig' = run[p].config
      <4>1. /\ main' = temp
            /\ content' = [f \in File |-> IF f = main /\ ~Open(f) THEN Torn ELSE content[f]]
            /\ mixed' = IF temp = run[p].file THEN mixed ELSE mixed \cup {temp}
            /\ Interrupted(IF temp \in mixed' THEN Process ELSE Process \ {p})
        BY <1>8, <3>1 DEF Rename
      <4>2. temp \notin mixed'
        BY <2>1, <3>4, <4>1 DEF Interrupted, AtBrowser, Quiet
      <4>3. temp = run[p].file /\ temp \notin mixed
        BY <4>1, <4>2
      <4>4. temp \in File /\ temp # main /\ temp # NoFile
        BY <1>0, <3>1 DEF Shape, IInv, NamesDiffer
      <4>5. content'[temp] = Written(run[p].config)
        BY <2>1, <4>1, <4>3, <4>4 DEF SaveOK, SavedIsWhole
      <4>. QED  BY <4>1, <4>4, <4>5 DEF LoadConfig, Written
    <3>5. BrowserIsSaved(p)'
      BY <2>1, <3>1, <3>3, <3>4 DEF BrowserIsSaved, AtBrowser, Saves
    <3>. QED  BY <1>1, <1>8, <2>3, <3>2, <3>5
  <2>. QED  BY <2>4, <2>5
<1>9. ASSUME NEW p \in Process, Die(p) PROVE BrowserInv'
  <2>1. run'[p] = Idle /\ UNCHANGED <<content, interrupted>>
    BY <1>0, <1>9, OwnStep DEF Die
  <2>. QED  BY <1>1, <1>2, <1>3, <1>9, <2>1
<1>10. CASE Edit
  <2>1. interrupted \subseteq interrupted' /\ (Quiet' => Quiet)
        /\ \A q \in Process : run[q].pc # "idle" => run[q].source \in interrupted'
    BY <1>10 DEF Edit, Interrupted, Quiet
  <2>2. ASSUME NEW q \in Process PROVE BrowserIsSaved(q)' /\ SavesChosen(q)' /\ GivenAway(q)'
    BY <1>0, <1>10, <2>1, EditGoesOn, OthersKeepBrowser
  <2>3. PICK x \in Edited : content' = [content EXCEPT ![main] = x]
    BY <1>10 DEF Edit, Edited
  <2>4. x.whole /\ Chosen(LoadConfig) => Chosen(x.config)
    BY <1>0, EditedIsTyped
  <2>5. FilesChosen'
    BY <1>0, <2>1, <2>3, <2>4 DEF FilesChosen, Types
  <2>. QED  BY <2>2, <2>5 DEF BrowserInv, FilesChosen
<1>11. CASE UNCHANGED vars
  <2>1. FilesChosen'
    BY <1>3, <1>11 DEF vars
  <2>2. ASSUME NEW q \in Process PROVE BrowserIsSaved(q)' /\ SavesChosen(q)' /\ GivenAway(q)'
    BY <1>11 DEF vars, BrowserInv, BrowserIsSaved, SavesChosen, GivenAway, AtBrowser, Saves, Writing,
                 LoadConfig, Quiet
  <2>. QED  BY <2>1, <2>2 DEF BrowserInv, FilesChosen
<1>. QED  BY <1>4, <1>5, <1>6, <1>7, <1>8, <1>9, <1>10, <1>11 DEF Next

\* A config.json that enables no browser_history, and processes that do nothing.
LEMMA InitiallyTyped == Init => BrowserInv
<1>. SUFFICES ASSUME Init PROVE BrowserInv
  OBVIOUS
<1>. DEFINE on == [Fresh EXCEPT !.enabled = TRUE]
            notes == [Fresh EXCEPT !.enabled = TRUE, !.auth = Item]
            Given == [Empty EXCEPT !.mcp = TRUE, !.sources["whatsapp"].enabled = TRUE,
                                   !.sources["notebook"] = [Fresh EXCEPT !.enabled = TRUE, !.auth = Item]]
<1>1. Given \in Config /\ Chosen(Given)
  <2>1. Fresh \in Section /\ on \in Section /\ notes \in Section /\ Fresh.enabled = FALSE
    BY DEF Fresh, Section
  <2>. DEFINE first == [Empty EXCEPT !.mcp = TRUE]
              second == [first EXCEPT !.sources["whatsapp"].enabled = TRUE]
              third == [second EXCEPT !.sources["notebook"] = notes]
  <2>2. Given = third
    OBVIOUS
  <2>. HIDE DEF on, notes, Given
  <2>3. first \in Config /\ Browser(first).enabled = FALSE
    BY <2>1, EmptyIsConfig DEF Empty, Config, Browser, Source
  <2>4. second \in Config /\ Browser(second) = Browser(first)
    <3>. HIDE DEF first
    <3>1. first.sources \in [Source -> Section]
      BY <2>3 DEF Config
    <3>2. [first.sources["whatsapp"] EXCEPT !.enabled = TRUE] \in Section
      BY <3>1 DEF Section, Source
    <3>3. [first.sources EXCEPT !["whatsapp"].enabled = TRUE] \in [Source -> Section]
      BY <3>1, <3>2
    <3>. QED  BY <2>3, <3>1, <3>3 DEF Config, Browser, Source
  <2>5. third \in Config /\ Browser(third) = Browser(second)
    <3>. HIDE DEF second
    <3>1. second.sources \in [Source -> Section]
      BY <2>4 DEF Config
    <3>2. [second.sources EXCEPT !["notebook"] = notes] \in [Source -> Section]
      BY <2>1, <3>1
    <3>. QED  BY <2>4, <3>1, <3>2 DEF Config, Browser, Source
  <2>. QED  BY <2>2, <2>3, <2>4, <2>5 DEF Chosen
<1>2. PICK c \in {Empty, Given} : content = [f \in File |-> IF f = 0 THEN Written(c) ELSE Torn]
  BY DEF Init
<1>. HIDE DEF Given
<1>3. c \in Config /\ Chosen(c)
  BY <1>1, EmptyIsConfig
<1>4. /\ content \in [File -> [whole : BOOLEAN, config : Config]]
      /\ \A f \in File : content[f].whole => Chosen(content[f].config)
  BY <1>2, <1>3, EmptyIsConfig DEF Written
<1>5. \A p \in Process : run[p] = Idle
  BY DEF Init
<1>6. Types
  BY <1>4, <1>5, IdleIsTyped, IdleIsOK, BoundAssumption DEF Init, Types, RunTyped
<1>7. \A p \in Process : BrowserIsSaved(p) /\ SavesChosen(p) /\ GivenAway(p)
  BY <1>5, IdleIsOK DEF BrowserIsSaved, SavesChosen, GivenAway, AtBrowser, Saves, Writing
<1>. QED  BY <1>4, <1>6, <1>7 DEF BrowserInv

\* The types and the browser are kept by every step.
LEMMA BrowserInvariant == Spec => [](IInv /\ BrowserInv)
<1>1. Init => BrowserInv
  BY InitiallyTyped
<1>2. IInv /\ BrowserInv /\ [Next]_vars => BrowserInv'
  BY NextKeepsTypes, NextKeepsBrowser DEF BrowserInv
<1>. QED  BY <1>1, <1>2, Invariant, PTL DEF Spec

\* Whatever commands run, what every file holds is a configuration or none, and what is
\* counted stays within its bounds.
THEOREM TypeCorrect == Spec => []TypeOK
<1>1. IInv /\ BrowserInv => TypeOK
  BY DEF IInv, Shape, BrowserInv, Types, TypeOK
<1>. QED  BY <1>1, BrowserInvariant, PTL

\* For any processes, commands and items: browser_history is not enabled without a
\* browser, whichever of its commands died halfway, unless another process or the user
\* saved during one (browser_history/cli.go:36-61).
THEOREM EnabledHasABrowser == Spec => []EnabledBrowserIsChosen
<1>1. IInv /\ BrowserInv => EnabledBrowserIsChosen
  <2>. SUFFICES ASSUME IInv, BrowserInv PROVE EnabledBrowserIsChosen
    OBVIOUS
  <2>1. Quiet => Chosen(LoadConfig)
    BY LoadIsConfig DEF BrowserInv, IInv, Shape
  <2>. QED  BY <2>1 DEF EnabledBrowserIsChosen, Quiet, Chosen, Browser
<1>. QED  BY <1>1, BrowserInvariant, PTL
=============================================================================
