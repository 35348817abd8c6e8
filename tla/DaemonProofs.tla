---------------------------- MODULE DaemonProofs ----------------------------
(***************************************************************************)
(* Proofs about Daemon and SourceReset for any sources, goroutines, edits  *)
(* and deaths: an entry names a goroutine that is wanted, an instance at   *)
(* work can be stopped unless it was started beside an earlier one, the    *)
(* daemon with its index run implements the daemon, and what a reset has   *)
(* settled stays settled.                                                  *)
(***************************************************************************)
EXTENDS SourceReset, TLAPS

\* The parts of the type: the files and the user, the goroutines, the main loop.
FilesOK ==
  /\ config \in [Source -> SourceConfig] /\ cfg \in [Source -> SourceConfig]
  /\ newCfg \in [Source -> SourceConfig] /\ token \subseteq Source
  /\ cli \in SingleOrNone(Source)
  /\ edits \in 0..MaxEdits /\ crashes \in 0..MaxCrashes
LifeOK ==
  /\ overlap \subseteq Source /\ running \in [Source -> Instance \cup {Nobody}]
  /\ instance \in [Instance -> Goroutine]
  /\ \A i \in Instance : instance[i].pc = "idle" <=> instance[i].src = {}
MainOK ==
  /\ main \in Main /\ (main.at # {} <=> main.pc \in {"files", "forget", "disable"})

\* An entry names a goroutine of its source that has not been cancelled.
EntriesAreLive ==
  \A s \in Source : running[s] # Nobody =>
    /\ running[s] \in Instance /\ instance[running[s]].src = {s}
    /\ ~instance[running[s]].canceled

\* A source that was never started beside an earlier goroutine of its has at most one.
OneGoroutine ==
  \A s \in Source \ overlap : \A i, j \in Instance :
    instance[i].src = {s} /\ instance[j].src = {s} => i = j

\* What a goroutine at work is cancelled by.
Stoppable ==
  \A s \in Source \ overlap : \A i \in Instance :
    instance[i].src = {s} /\ instance[i].pc \in {"running", "wiped"} =>
      instance[i].canceled \/ running[s] = i

LifeInv == LifeOK /\ EntriesAreLive /\ OneGoroutine /\ Stoppable

\* How far the tick has got with its four loops: resets are done in its copy of the
\* configuration before anything starts, and the last loop stops what is not enabled.
ResetsAreDone ==
  /\ main.pc \in {"reset", "files", "forget", "disable"} =>
       \A s \in Source \ main.todo : newCfg[s].reset = FALSE
  /\ main.pc \in {"restart", "start", "stop"} =>
       \A s \in Source : newCfg[s].reset = FALSE
StopsAreDone ==
  main.pc = "stop" =>
    \A s \in Source \ main.todo : running[s] # Nobody => newCfg[s].enabled = TRUE
SeenAtTheTick ==
  main.pc = "select" =>
    \A s \in Source : running[s] # Nobody => cfg[s].enabled = TRUE /\ cfg[s].reset = FALSE

TickInv == MainOK /\ ResetsAreDone /\ StopsAreDone /\ SeenAtTheTick

IInv == FilesOK /\ LifeInv /\ TickInv

-----------------------------------------------------------------------------
(* The files.                                                              *)

\* Every command and every step writes a configuration into the files.
LEMMA NextKeepsFiles == FilesOK /\ LifeOK /\ [Next]_vars => FilesOK'
<1>. SUFFICES ASSUME FilesOK, LifeOK, [Next]_vars PROVE FilesOK'
  OBVIOUS
<1>. USE DEF FilesOK, SourceConfig
<1>1. ASSUME NEW s \in Source, NEW on \in BOOLEAN, SetSourceEnabled(s, on)
      PROVE  config' \in [Source -> SourceConfig]
  BY <1>1 DEF SetSourceEnabled
<1>2. {} \in SingleOrNone(Source) /\ \A s \in Source : {s} \in SingleOrNone(Source)
  BY DEF SingleOrNone
<1>3. Zero \in SourceConfig
  BY DEF Zero
<1>4. CASE Tick \/ NextLoop \/ EndTick
  BY <1>4 DEF Tick, NextLoop, EndTick, fileVars, userVars
<1>5. ASSUME NEW s \in Source, PassBy(s) \/ ResetStops(s) \/ ResetRows(s) \/ Restart(s) \/ Start(s) \/ Stop(s)
      PROVE  FilesOK'
  BY <1>5 DEF PassBy, ResetStops, ResetRows, Restart, Start, Stop, fileVars, userVars
<1>6. ASSUME NEW s \in Source, NEW ok \in BOOLEAN, ResetFiles(s, ok) PROVE FilesOK'
  BY <1>6 DEF ResetFiles, RemoveFiles, userVars
<1>7. ASSUME NEW s \in Source, ResetDisables(s) \/ ResetCannotDisable(s) PROVE FilesOK'
  <2>1. newCfg' \in [Source -> SourceConfig]
    BY <1>3, <1>7 DEF ResetDisables, ResetCannotDisable, EndReset
  <2>2. config' \in [Source -> SourceConfig]
    BY <1>1, <1>7 DEF ResetDisables, ResetCannotDisable
  <2>. QED  BY <1>7, <2>1, <2>2 DEF ResetDisables, ResetCannotDisable, EndReset, userVars
<1>8. CASE MainStep
  BY <1>4, <1>5, <1>6, <1>7, <1>8 DEF MainStep
<1>9. ASSUME NEW i \in Instance, InstanceStep(i) PROVE FilesOK'
  <2>1. CASE SaveToken(i)
    <3>1. instance[i].src \subseteq Source
      BY DEF LifeOK, Goroutine, SingleOrNone
    <3>. QED  BY <2>1, <3>1 DEF SaveToken, userVars
  <2>2. CASE AuthLostWipes(i)
    BY <2>2 DEF AuthLostWipes, RemoveFiles, userVars
  <2>3. CASE AuthLostDisables(i)
    <3>1. instance[i].src \subseteq Source
      BY DEF LifeOK, Goroutine, SingleOrNone
    <3>2. config' \in [Source -> SourceConfig]
      BY <1>1, <2>3, <3>1 DEF AuthLostDisables
    <3>. QED  BY <2>3, <3>2 DEF AuthLostDisables, userVars
  <2>4. CASE Return(i) \/ DeleteEntry(i)
    BY <2>4 DEF Return, DeleteEntry, fileVars, userVars
  <2>. QED  BY <1>9, <2>1, <2>2, <2>3, <2>4 DEF InstanceStep
<1>10. Edit => edits' \in 0..MaxEdits
  BY DaemonAssumption DEF Edit
<1>11. ASSUME NEW s \in Source, NEW on \in BOOLEAN, EnableOrDisable(s, on) PROVE FilesOK'
  BY <1>1, <1>10, <1>11 DEF EnableOrDisable, Edit
<1>12. ASSUME NEW s \in Source, Login(s) PROVE FilesOK'
  BY <1>1, <1>10, <1>12 DEF Login, Edit
<1>13. ASSUME NEW s \in Source, ChangeAuth(s) \/ FlagReset(s) PROVE FilesOK'
  <2>1. config' \in [Source -> SourceConfig]
    <3>1. CASE ChangeAuth(s)
      <4>1. 1 - config[s].auth \in {0, 1}
        OBVIOUS
      <4>2. [config[s] EXCEPT !.auth = 1 - config[s].auth] \in SourceConfig
        BY <4>1
      <4>. QED  BY <3>1, <4>2 DEF ChangeAuth
    <3>2. CASE FlagReset(s)
      <4>1. [config[s] EXCEPT !.reset = TRUE] \in SourceConfig
        OBVIOUS
      <4>. QED  BY <3>2, <4>1 DEF FlagReset
    <3>. QED  BY <1>13, <3>1, <3>2
  <2>. QED  BY <1>10, <1>13, <2>1 DEF ChangeAuth, FlagReset, Edit
<1>14. ASSUME NEW s \in Source, CliReset(s) PROVE FilesOK'
  BY <1>2, <1>10, <1>14 DEF CliReset, Edit, RemoveFiles
<1>15. ASSUME NEW s \in Source, CliDisables(s) PROVE FilesOK'
  BY <1>1, <1>2, <1>15 DEF CliDisables
<1>16. CASE UserStep
  BY <1>11, <1>12, <1>13, <1>14, <1>15, <1>16 DEF UserStep
<1>17. CASE DieAndRestart
  BY <1>17, DaemonAssumption DEF DieAndRestart, fileVars
<1>18. CASE UNCHANGED vars
  BY <1>18 DEF vars, fileVars, userVars
<1>. QED  BY <1>4, <1>8, <1>9, <1>16, <1>17, <1>18 DEF Next

-----------------------------------------------------------------------------
(* The goroutines.                                                         *)

\* Cancelling an entry and forgetting it: the entry was the goroutine's own.
LEMMA CancelKeepsLife ==
  ASSUME LifeInv, NEW s \in Source, CancelAndForget(s), UNCHANGED overlap
  PROVE  LifeInv'
<1>. USE DEF LifeInv, LifeOK
<1>1. CASE running[s] = Nobody
  <2>1. UNCHANGED <<instance, running>>
    BY <1>1 DEF CancelAndForget
  <2>. QED  BY <2>1 DEF EntriesAreLive, OneGoroutine, Stoppable
<1>2. CASE running[s] # Nobody
  <2>. DEFINE r == running[s]
  <2>1. r \in Instance /\ instance[r].src = {s}
    BY <1>2 DEF EntriesAreLive
  <2>2. instance' = [instance EXCEPT ![r] = [instance[r] EXCEPT !.canceled = TRUE]]
    BY <1>2, <2>1 DEF CancelAndForget
  <2>3. [instance[r] EXCEPT !.canceled = TRUE] \in Goroutine
    <3>1. instance[r] \in Goroutine
      BY <2>1
    <3>. QED  BY <3>1 DEF Goroutine
  <2>4. running' = [running EXCEPT ![s] = Nobody]
    BY DEF CancelAndForget
  <2>5. \A i \in Instance : /\ instance'[i].src = instance[i].src
                            /\ instance'[i].pc = instance[i].pc
                            /\ i # r => instance'[i] = instance[i]
    BY <2>1, <2>2, <2>3 DEF Goroutine
  <2>6. instance'[r].canceled = TRUE
    BY <2>1, <2>2, <2>3 DEF Goroutine
  <2>7. LifeOK'
    BY <2>1, <2>2, <2>3, <2>4, <2>5
  <2>8. EntriesAreLive'
    BY <2>1, <2>4, <2>5 DEF EntriesAreLive
  <2>9. OneGoroutine'
    BY <2>5 DEF OneGoroutine
  <2>10. Stoppable'
    BY <2>4, <2>5, <2>6 DEF Stoppable
  <2>. QED  BY <2>7, <2>8, <2>9, <2>10
<1>. QED  BY <1>1, <1>2

\* startSource: the entry is the new goroutine's, and a source that already had a
\* goroutine is counted in `overlap`.
LEMMA StartKeepsLife ==
  ASSUME LifeInv, NEW s \in Source, Start(s)
  PROVE  LifeInv'
<1>. USE DEF LifeInv, LifeOK
<1>. DEFINE g == [pc |-> "running", src |-> {s}, canceled |-> FALSE]
<1>1. PICK i \in Instance : /\ instance[i].pc = "idle"
                            /\ instance' = [instance EXCEPT ![i] = g]
                            /\ running' = [running EXCEPT ![s] = i]
  BY DEF Start
<1>2. g \in Goroutine
  BY DEF Goroutine, SingleOrNone
<1>3. instance[i].src = {}
  BY <1>1
<1>4. overlap' = overlap \/ overlap' = overlap \cup {s}
  BY DEF Start
<1>5. s \notin overlap' => \A j \in Instance : instance[j].src # {s}
  BY DEF Start, Goroutines
<1>6. instance'[i] = g /\ \A j \in Instance \ {i} : instance'[j] = instance[j]
  BY <1>1
<1>7. LifeOK'
  BY <1>1, <1>2, <1>4, <1>6
<1>8. EntriesAreLive'
  BY <1>1, <1>3, <1>6 DEF EntriesAreLive
<1>9. OneGoroutine'
  BY <1>3, <1>4, <1>5, <1>6 DEF OneGoroutine
<1>10. Stoppable'
  BY <1>1, <1>4, <1>5, <1>6 DEF Stoppable
<1>. QED  BY <1>7, <1>8, <1>9, <1>10

\* A goroutine that loses auth or returns keeps its source and its cancellation.
LEMMA ReturnKeepsLife ==
  ASSUME LifeInv, NEW i \in Instance, NEW pc \in {"wiped", "ended"},
         instance[i].pc \in {"running", "wiped"},
         instance' = [instance EXCEPT ![i].pc = pc], UNCHANGED <<running, overlap>>
  PROVE  LifeInv'
<1>. USE DEF LifeInv, LifeOK
<1>1. [instance[i] EXCEPT !.pc = pc] \in Goroutine
  BY DEF Goroutine
<1>2. instance' = [instance EXCEPT ![i] = [instance[i] EXCEPT !.pc = pc]]
  OBVIOUS
<1>3. \A j \in Instance : /\ instance'[j].src = instance[j].src
                          /\ instance'[j].canceled = instance[j].canceled
                          /\ j # i => instance'[j].pc = instance[j].pc
  BY <1>1, <1>2 DEF Goroutine
<1>4. instance'[i].pc = pc
  BY <1>1, <1>2 DEF Goroutine
<1>5. LifeOK'
  BY <1>1, <1>2, <1>3, <1>4
<1>6. EntriesAreLive'
  BY <1>3 DEF EntriesAreLive
<1>7. OneGoroutine'
  BY <1>3 DEF OneGoroutine
<1>8. Stoppable'
  BY <1>3, <1>4 DEF Stoppable
<1>. QED  BY <1>5, <1>6, <1>7, <1>8

\* A goroutine that deletes its source's entry: another goroutine of that source would
\* be there only beside it.
LEMMA DeleteKeepsLife ==
  ASSUME LifeInv, NEW i \in Instance, DeleteEntry(i)
  PROVE  LifeInv'
<1>. USE DEF LifeInv, LifeOK
<1>1. instance' = [instance EXCEPT ![i] = Idle] /\ overlap' = overlap
  BY DEF DeleteEntry
<1>2. running' = [s \in Source |-> IF {s} = instance[i].src THEN Nobody ELSE running[s]]
  BY DEF DeleteEntry
<1>3. Idle \in Goroutine /\ Idle.pc = "idle" /\ Idle.src = {}
  BY DEF Idle, Goroutine, SingleOrNone
<1>4. instance'[i] = Idle /\ \A j \in Instance \ {i} : instance'[j] = instance[j]
  BY <1>1
<1>5. LifeOK'
  BY <1>1, <1>2, <1>3, <1>4
<1>6. EntriesAreLive'
  BY <1>2, <1>4 DEF EntriesAreLive
<1>7. OneGoroutine'
  BY <1>1, <1>3, <1>4 DEF OneGoroutine
<1>8. Stoppable'
  BY <1>1, <1>2, <1>3, <1>4 DEF Stoppable, OneGoroutine
<1>. QED  BY <1>5, <1>6, <1>7, <1>8

\* A daemon that starts has no goroutines and no entries.
LEMMA BootIsClean ==
  ASSUME running = [s \in Source |-> Nobody], instance = [i \in Instance |-> Idle], overlap = {}
  PROVE  LifeInv
<1>1. Idle \in Goroutine /\ Idle.pc = "idle" /\ Idle.src = {}
  BY DEF Idle, Goroutine, SingleOrNone
<1>. QED  BY <1>1 DEF LifeInv, LifeOK, EntriesAreLive, OneGoroutine, Stoppable

\* Every step leaves the goroutines alone or is one of those above.
LEMMA NextKeepsLife == LifeInv /\ [Next]_vars => LifeInv'
<1>. SUFFICES ASSUME LifeInv, [Next]_vars PROVE LifeInv'
  OBVIOUS
<1>1. UNCHANGED lifeVars => LifeInv'
  BY DEF LifeInv, LifeOK, EntriesAreLive, OneGoroutine, Stoppable, lifeVars
<1>2. CASE MainStep
  <2>1. ASSUME NEW s \in Source, ResetStops(s) \/ Restart(s) \/ Stop(s) PROVE LifeInv'
    BY <2>1, CancelKeepsLife DEF ResetStops, Restart, Stop
  <2>2. ASSUME NEW s \in Source, Start(s) PROVE LifeInv'
    BY <2>2, StartKeepsLife
  <2>3. ASSUME NEW s \in Source,
               PassBy(s) \/ (\E ok \in BOOLEAN : ResetFiles(s, ok)) \/ ResetRows(s)
                 \/ ResetDisables(s) \/ ResetCannotDisable(s)
        PROVE  UNCHANGED lifeVars
    BY <2>3 DEF PassBy, ResetFiles, ResetRows, ResetDisables, ResetCannotDisable, EndReset
  <2>4. CASE NextLoop \/ EndTick
    BY <1>1, <2>4 DEF NextLoop, EndTick
  <2>. QED  BY <1>1, <1>2, <2>1, <2>2, <2>3, <2>4 DEF MainStep
<1>3. ASSUME NEW i \in Instance, InstanceStep(i) PROVE LifeInv'
  <2>1. CASE SaveToken(i)
    BY <1>1, <2>1 DEF SaveToken
  <2>2. CASE AuthLostWipes(i)
    BY <2>2, ReturnKeepsLife DEF AuthLostWipes
  <2>3. CASE AuthLostDisables(i) \/ Return(i)
    BY <2>3, ReturnKeepsLife DEF AuthLostDisables, Return
  <2>4. CASE DeleteEntry(i)
    BY <2>4, DeleteKeepsLife
  <2>. QED  BY <1>3, <2>1, <2>2, <2>3, <2>4 DEF InstanceStep
<1>4. CASE Tick
  BY <1>1, <1>4 DEF Tick
<1>5. CASE UserStep
  BY <1>1, <1>5 DEF UserStep, EnableOrDisable, Login, ChangeAuth, FlagReset, CliReset, CliDisables, Edit
<1>6. CASE DieAndRestart
  <2>1. /\ running' = [s \in Source |-> Nobody] /\ instance' = [i \in Instance |-> Idle]
        /\ overlap' = {}
    BY <1>6 DEF DieAndRestart
  <2>2. Idle \in Goroutine /\ Idle.pc = "idle" /\ Idle.src = {}
    BY DEF Idle, Goroutine, SingleOrNone
  <2>. QED  BY <2>1, <2>2 DEF LifeInv, LifeOK, EntriesAreLive, OneGoroutine, Stoppable
<1>7. CASE UNCHANGED vars
  BY <1>1, <1>7 DEF vars
<1>. QED  BY <1>2, <1>3, <1>4, <1>5, <1>6, <1>7 DEF Next

-----------------------------------------------------------------------------
(* The tick.                                                               *)

\* One more source is done with in the loop of the tick that the main loop is in.
LEMMA DoneKeepsMain ==
  ASSUME MainOK, NEW s \in Source, MainDone(s)
  PROVE  MainOK' /\ main'.pc = main.pc /\ main'.todo = main.todo \ {s}
BY DEF MainOK, MainDone, Main

\* Entries that go do not disturb what the tick has done.
LEMMA FewerEntries ==
  ASSUME TickInv, UNCHANGED <<main, cfg, newCfg>>,
         \A s \in Source : running'[s] # Nobody => running[s] # Nobody
  PROVE  TickInv'
BY DEF TickInv, MainOK, ResetsAreDone, StopsAreDone, SeenAtTheTick

\* Every step of the main loop does one source of one loop, and no other step undoes it.
LEMMA NextKeepsTick == FilesOK /\ LifeOK /\ TickInv /\ [Next]_vars => TickInv'
<1>. SUFFICES ASSUME FilesOK, LifeOK, TickInv, [Next]_vars PROVE TickInv'
  OBVIOUS
<1>. USE DEF TickInv
<1>1. CASE Tick
  BY <1>1 DEF Tick, MainOK, Main, Phase, ResetsAreDone, StopsAreDone, SeenAtTheTick, SingleOrNone
<1>2. ASSUME NEW s \in Source, PassBy(s) PROVE TickInv'
  <2>1. MainOK' /\ main'.pc = main.pc /\ main'.todo = main.todo \ {s}
    BY <1>2, DoneKeepsMain DEF PassBy
  <2>2. main.pc = "reset" => newCfg[s].reset = FALSE
    BY <1>2 DEF PassBy, ShouldReset, FilesOK, SourceConfig
  <2>3. main.pc = "stop" /\ running[s] # Nobody => newCfg[s].enabled = TRUE
    BY <1>2 DEF PassBy, ShouldStop, FilesOK, SourceConfig
  <2>4. main.pc \in {"reset", "restart", "start", "stop"} /\ UNCHANGED <<newCfg, cfg, running>>
    BY <1>2 DEF PassBy, lifeVars
  <2>. QED  BY <2>1, <2>2, <2>3, <2>4 DEF ResetsAreDone, StopsAreDone, SeenAtTheTick
<1>3. ASSUME NEW s \in Source, ResetStops(s) PROVE TickInv'
  <2>1. main' \in Main /\ main'.pc = "files" /\ main'.at = {s} /\ main'.todo = main.todo
    BY <1>3 DEF ResetStops, MainOK, Main, Phase, SingleOrNone
  <2>2. main.pc = "reset" /\ newCfg' = newCfg
    BY <1>3 DEF ResetStops
  <2>. QED  BY <2>1, <2>2 DEF MainOK, ResetsAreDone, StopsAreDone, SeenAtTheTick
<1>4. ASSUME NEW s \in Source, NEW ok \in BOOLEAN, ResetFiles(s, ok) \/ ResetRows(s) PROVE TickInv'
  <2>1. /\ main' \in Main /\ main'.pc \in {"forget", "disable"}
        /\ main'.at = main.at /\ main'.todo = main.todo
    BY <1>4 DEF ResetFiles, ResetRows, MainOK, Main, Phase
  <2>2. main.pc \in {"files", "forget"} /\ newCfg' = newCfg
    BY <1>4 DEF ResetFiles, ResetRows
  <2>. QED  BY <2>1, <2>2 DEF MainOK, ResetsAreDone, StopsAreDone, SeenAtTheTick
<1>5. ASSUME NEW s \in Source, EndReset(s) PROVE TickInv'
  <2>1. main' \in Main /\ main'.pc = "reset" /\ main'.at = {} /\ main'.todo = main.todo \ {s}
    BY <1>5 DEF EndReset, MainOK, Main, Phase, SingleOrNone
  <2>2. main.pc = "disable"
    BY <1>5 DEF EndReset
  <2>3. newCfg'[s].reset = FALSE /\ \A t \in Source \ {s} : newCfg'[t] = newCfg[t]
    BY <1>5 DEF EndReset, Zero, FilesOK
  <2>. QED  BY <2>1, <2>2, <2>3 DEF MainOK, ResetsAreDone, StopsAreDone, SeenAtTheTick
<1>6. ASSUME NEW s \in Source, Restart(s) \/ Start(s) PROVE TickInv'
  <2>1. MainOK' /\ main'.pc = main.pc /\ main'.todo = main.todo \ {s}
    BY <1>6, DoneKeepsMain DEF Restart, Start
  <2>2. main.pc \in {"restart", "start"} /\ newCfg' = newCfg
    BY <1>6 DEF Restart, Start
  <2>. QED  BY <2>1, <2>2 DEF ResetsAreDone, StopsAreDone, SeenAtTheTick
<1>7. ASSUME NEW s \in Source, Stop(s) PROVE TickInv'
  <2>1. MainOK' /\ main'.pc = main.pc /\ main'.todo = main.todo \ {s}
    BY <1>7, DoneKeepsMain DEF Stop
  <2>2. main.pc = "stop" /\ newCfg' = newCfg
    BY <1>7 DEF Stop
  <2>3. running' = [running EXCEPT ![s] = Nobody]
    BY <1>7 DEF Stop, CancelAndForget
  <2>. QED  BY <2>1, <2>2, <2>3 DEF ResetsAreDone, StopsAreDone, SeenAtTheTick, LifeOK
<1>8. CASE NextLoop
  <2>1. /\ main' \in Main /\ main'.at = main.at /\ main'.todo = Source
        /\ main.pc = "reset" => main'.pc = "restart"
        /\ main.pc = "restart" => main'.pc = "start"
        /\ main.pc = "start" => main'.pc = "stop"
    BY <1>8 DEF NextLoop, MainOK, Main, Phase
  <2>2. main.pc \in {"reset", "restart", "start"} /\ main.todo = {} /\ newCfg' = newCfg
    BY <1>8 DEF NextLoop
  <2>. QED  BY <2>1, <2>2 DEF MainOK, ResetsAreDone, StopsAreDone, SeenAtTheTick
<1>9. CASE EndTick
  <2>1. main' \in Main /\ main'.at = main.at /\ main'.pc = "select"
    BY <1>9 DEF EndTick, MainOK, Main, Phase
  <2>2. main.pc = "stop" /\ main.todo = {} /\ cfg' = newCfg /\ running' = running
    BY <1>9 DEF EndTick, lifeVars
  <2>. QED  BY <2>1, <2>2 DEF MainOK, ResetsAreDone, StopsAreDone, SeenAtTheTick
<1>10. CASE MainStep
  BY <1>2, <1>3, <1>4, <1>5, <1>6, <1>7, <1>8, <1>9, <1>10
     DEF MainStep, ResetDisables, ResetCannotDisable
<1>11. ASSUME NEW i \in Instance, InstanceStep(i) PROVE TickInv'
  <2>1. UNCHANGED <<main, cfg, newCfg>>
    BY <1>11 DEF InstanceStep, SaveToken, AuthLostWipes, AuthLostDisables, Return, DeleteEntry
  <2>2. CASE DeleteEntry(i)
    BY <2>1, <2>2, FewerEntries DEF DeleteEntry
  <2>3. CASE running' = running
    BY <2>1, <2>3, FewerEntries
  <2>. QED  BY <1>11, <2>2, <2>3
            DEF InstanceStep, SaveToken, AuthLostWipes, AuthLostDisables, Return, lifeVars
<1>12. CASE UserStep
  <2>1. UNCHANGED <<main, cfg, newCfg, running>>
    BY <1>12 DEF UserStep, EnableOrDisable, Login, ChangeAuth, FlagReset, CliReset, CliDisables,
                 Edit, lifeVars
  <2>. QED  BY <2>1, FewerEntries
<1>13. CASE DieAndRestart
  BY <1>13 DEF DieAndRestart, Boot, MainOK, Main, Phase, SingleOrNone, ResetsAreDone,
               StopsAreDone, SeenAtTheTick
<1>14. CASE UNCHANGED vars
  BY <1>14, FewerEntries DEF vars, lifeVars
<1>. QED  BY <1>1, <1>10, <1>11, <1>12, <1>13, <1>14 DEF Next

-----------------------------------------------------------------------------

\* The state in which a daemon starts for the first time.
LEMMA Initially == Init => IInv
<1>. SUFFICES ASSUME Init PROVE IInv
  OBVIOUS
<1>1. FilesOK
  <2>1. config \in [Source -> SourceConfig]
    BY DEF Init
  <2>2. cli \in SingleOrNone(Source)
    BY DEF Init, SingleOrNone
  <2>3. edits \in 0..MaxEdits /\ crashes \in 0..MaxCrashes
    BY DaemonAssumption DEF Init
  <2>. QED  BY <2>1, <2>2, <2>3 DEF Init, FilesOK
<1>2. LifeInv
  BY BootIsClean DEF Init
<1>3. TickInv
  BY DEF Init, TickInv, Boot, MainOK, Main, Phase, SingleOrNone, ResetsAreDone, StopsAreDone,
         SeenAtTheTick
<1>. QED  BY <1>1, <1>2, <1>3 DEF IInv

\* The three parts are kept together.
LEMMA Invariant == Spec => []IInv
<1>1. IInv /\ [Next]_vars => IInv'
  BY NextKeepsFiles, NextKeepsLife, NextKeepsTick DEF IInv, LifeInv
<1>. QED  BY <1>1, Initially, PTL DEF Spec

\* The configuration, the goroutines and the main loop of runCore are well typed, and
\* only a reset in progress names a source (runtime.go).
THEOREM TypeCorrect == Spec => []TypeOK
<1>1. IInv => TypeOK
  BY DEF IInv, LifeInv, TickInv, FilesOK, LifeOK, MainOK, TypeOK
<1>. QED  BY <1>1, Invariant, PTL

\* For any number of sources and goroutines, although goroutines delete entries that may
\* no longer be theirs: an entry of `running` names a goroutine of its source that is not
\* cancelled, and between ticks is of a source that the daemon has seen enabled.
THEOREM EntriesAreWanted == Spec => []RunningIsWanted
<1>1. IInv => RunningIsWanted
  BY DEF IInv, LifeInv, EntriesAreLive, TickInv, SeenAtTheTick, RunningIsWanted, Goroutines
<1>. QED  BY <1>1, Invariant, PTL

\* For any number of sources and goroutines: an instance at work has been cancelled, or its
\* source's entry is its own, unless it was started beside an earlier goroutine.
THEOREM InstancesCanBeStopped == Spec => []WorkingIsStoppable
<1>1. IInv => WorkingIsStoppable
  BY DEF IInv, LifeInv, Stoppable, WorkingIsStoppable, Live, Goroutines
<1>. QED  BY <1>1, Invariant, PTL

-----------------------------------------------------------------------------
(* The daemon with its index run, and what a reset leaves in search.db.    *)

\* The pool, the run and what it visits.
PoolOK ==
  /\ disk \in [Source -> 0..MaxFile] /\ rows \in [Source -> SUBSET (0..MaxFile)]
  /\ pool \in [Source -> Pooled] /\ index \in Run
  /\ index.todo # {} \/ index.held # {} => index.pc = "visiting"
  /\ \A s \in index.todo \cup index.held : pool[s].open
  /\ clearing \subseteq Source /\ cleared \subseteq Source

\* A source whose reset is settled has no rows, is disabled, and no run visits it: it can
\* get rows only through a run that begins after it has been enabled.
Settled ==
  /\ settled \subseteq cleared
  /\ \A s \in settled : /\ rows[s] = {} /\ config[s].enabled = FALSE
                        /\ s \notin index.todo \cup index.held

ResetInv == IInv /\ PoolOK /\ Settled

\* Every step of the composition is a step of the daemon, or leaves it as it is.
LEMMA ResetStepsAreDaemonSteps == ResetNext => Next \/ UNCHANGED vars
<1>. SUFFICES ASSUME ResetNext PROVE Next \/ UNCHANGED vars
  OBVIOUS
<1>1. ASSUME NEW s \in Source, RemovesFiles(s) PROVE Next
  <2>1. CASE ResetFiles(s, TRUE)
    BY <2>1 DEF Next, MainStep
  <2>2. CASE CliReset(s)
    BY <2>2 DEF Next, UserStep
  <2>3. ASSUME NEW i \in Goroutines(s), AuthLostWipes(i) PROVE Next
    BY <2>3 DEF Next, InstanceStep, Goroutines
  <2>. QED  BY <1>1, <2>1, <2>2, <2>3 DEF RemovesFiles
<1>2. ASSUME NEW s \in Source, DaemonClears(s) \/ DaemonDisables(s) PROVE Next
  BY <1>2 DEF DaemonClears, DaemonDisables, Next, MainStep
<1>3. ASSUME NEW s \in Source, CliClears(s) PROVE UNCHANGED vars
  BY <1>3 DEF CliClears
<1>4. ASSUME NEW s \in Source, Enables(s) PROVE Next
  BY <1>4 DEF Enables, Next, UserStep
<1>5. RequestsIndex => Next
  BY DEF RequestsIndex, Next, MainStep
<1>6. Dies => Next
  BY DEF Dies, Next
<1>7. Elsewhere => Next
  <2>1. Tick \/ NextLoop => Next
    BY DEF Next, MainStep
  <2>2. ASSUME NEW s \in Source,
               \/ PassBy(s) \/ ResetStops(s) \/ ResetFiles(s, FALSE)
               \/ ResetCannotDisable(s) \/ Restart(s) \/ Start(s) \/ Stop(s)
        PROVE  Next
    BY <2>2 DEF Next, MainStep
  <2>3. ASSUME NEW s \in Source,
               EnableOrDisable(s, FALSE) \/ ChangeAuth(s) \/ FlagReset(s) \/ CliDisables(s)
        PROVE  Next
    BY <2>3 DEF Next, UserStep
  <2>4. ASSUME NEW i \in Instance,
               SaveToken(i) \/ AuthLostDisables(i) \/ Return(i) \/ DeleteEntry(i)
        PROVE  Next
    BY <2>4 DEF Next, InstanceStep
  <2>. QED  BY <2>1, <2>2, <2>3, <2>4 DEF Elsewhere
<1>8. IndexStep => UNCHANGED vars
  BY DEF IndexStep
<1>. QED  BY <1>1, <1>2, <1>3, <1>4, <1>5, <1>6, <1>7, <1>8 DEF ResetNext

\* The files, the rows and the index run keep their types, and a run visits only what it
\* has opened.
LEMMA NextKeepsPool ==
  FilesOK /\ FilesOK' /\ LifeOK /\ PoolOK /\ [ResetNext]_allVars => PoolOK'
<1>. SUFFICES ASSUME FilesOK, FilesOK', LifeOK, PoolOK, [ResetNext]_allVars PROVE PoolOK'
  OBVIOUS
<1>. USE DEF PoolOK
<1>1. ASSUME NEW s \in Source, RemovesFiles(s) PROVE PoolOK'
  <2>1. disk' \in [Source -> 0..MaxFile]
    BY <1>1, FileAssumption DEF RemovesFiles, Replaced
  <2>2. clearing' \subseteq Source
    BY <1>1 DEF RemovesFiles, FilesOK, SingleOrNone
  <2>3. UNCHANGED <<rows, pool, index, cleared>>
    BY <1>1 DEF RemovesFiles
  <2>. QED  BY <2>1, <2>2, <2>3
<1>2. ASSUME NEW s \in Source, DeleteRows(s)
      PROVE  rows' \in [Source -> SUBSET (0..MaxFile)] /\ cleared' \subseteq Source
  BY <1>2 DEF DeleteRows
<1>3. ASSUME NEW s \in Source, DaemonClears(s) \/ DaemonDisables(s) PROVE PoolOK'
  <2>1. rows' \in [Source -> SUBSET (0..MaxFile)] /\ cleared' \subseteq Source
    BY <1>2, <1>3 DEF DaemonClears, DaemonDisables
  <2>2. UNCHANGED <<disk, pool, index, clearing>>
    BY <1>3 DEF DaemonClears, DaemonDisables
  <2>. QED  BY <2>1, <2>2
<1>4. ASSUME NEW s \in Source, CliClears(s) PROVE PoolOK'
  BY <1>2, <1>4 DEF CliClears
<1>5. ASSUME NEW s \in Source, Enables(s) PROVE PoolOK'
  BY <1>5 DEF Enables
<1>6. CASE RequestsIndex
  <2>1. [NoRun EXCEPT !.pc = "requested"] \in Run
    BY DEF NoRun, Run, SingleOrNone
  <2>2. /\ index' \in Run
        /\ index' # index => index'.todo = {} /\ index'.held = {}
    BY <1>6, <2>1 DEF RequestsIndex, NoRun, Run
  <2>3. UNCHANGED <<disk, rows, pool, clearing, cleared>>
    BY <1>6 DEF RequestsIndex
  <2>. QED  BY <2>2, <2>3
<1>7. CASE Dies
  <2>1. Closed \in Pooled
    BY FileAssumption DEF Closed, Pooled, SourceConfig
  <2>2. NoRun \in Run /\ NoRun.todo = {} /\ NoRun.held = {}
    BY DEF NoRun, Run, SingleOrNone
  <2>3. pool' \in [Source -> Pooled] /\ index' = NoRun /\ UNCHANGED <<disk, rows, clearing, cleared>>
    BY <1>7, <2>1 DEF Dies
  <2>. QED  BY <2>2, <2>3
<1>8. CASE Elsewhere
  BY <1>8 DEF Elsewhere, searchVars
<1>9. CASE IndexBegins
  <2>1. \A s \in Source : Opened(s) \in Pooled
    <3>1. Closed \in Pooled
      BY FileAssumption DEF Closed, Pooled, SourceConfig
    <3>2. \A s \in Source : [open |-> TRUE, file |-> disk[s], config |-> config[s]] \in Pooled
      BY DEF Pooled, FilesOK
    <3>. QED  BY <3>1, <3>2 DEF Opened
  <2>2. index.held = {}
    BY <1>9 DEF IndexBegins
  <2>3. /\ index' \in Run /\ index'.held = {} /\ index'.pc = "visiting"
        /\ index'.todo = {s \in Source : Opened(s).open}
    BY <1>9, <2>2 DEF IndexBegins, Run
  <2>4. pool' = [s \in Source |-> Opened(s)] /\ UNCHANGED <<disk, rows, clearing, cleared>>
    BY <1>9 DEF IndexBegins
  <2>. QED  BY <2>1, <2>3, <2>4
<1>10. ASSUME NEW s \in Source, IndexSkips(s) \/ IndexReads(s) PROVE PoolOK'
  <2>1. /\ index' \in Run /\ index'.pc = index.pc
        /\ index'.todo \cup index'.held \subseteq index.todo
    <3>1. CASE IndexSkips(s)
      BY <3>1 DEF IndexSkips, Run
    <3>2. CASE IndexReads(s)
      <4>1. {s} \in SingleOrNone(Source)
        BY DEF SingleOrNone
      <4>2. index' = [index EXCEPT !.todo = index.todo \ {s}, !.held = {s}] /\ s \in index.todo
        BY <3>2 DEF IndexReads
      <4>. QED  BY <4>1, <4>2 DEF Run
    <3>. QED  BY <1>10, <3>1, <3>2
  <2>2. index.todo # {} /\ UNCHANGED <<disk, rows, pool, clearing, cleared>>
    BY <1>10 DEF IndexSkips, IndexReads
  <2>. QED  BY <2>1, <2>2
<1>11. ASSUME NEW s \in Source, IndexWrites(s) PROVE PoolOK'
  <2>1. rows' \in [Source -> SUBSET (0..MaxFile)]
    BY <1>11 DEF IndexWrites, Pooled
  <2>2. index' \in Run /\ index'.pc = index.pc /\ index'.todo = index.todo /\ index'.held = {}
    BY <1>11 DEF IndexWrites, Run, SingleOrNone
  <2>3. UNCHANGED <<disk, pool, clearing, cleared>>
    BY <1>11 DEF IndexWrites
  <2>. QED  BY <2>1, <2>2, <2>3
<1>12. CASE IndexEnds
  BY <1>12 DEF IndexEnds, NoRun, Run, SingleOrNone
<1>13. CASE UNCHANGED allVars
  BY <1>13 DEF allVars, searchVars
<1>. QED  BY <1>1, <1>3, <1>4, <1>5, <1>6, <1>7, <1>8, <1>9, <1>10, <1>11, <1>12, <1>13
          DEF ResetNext, IndexStep

\* The steps that are neither `enable` nor `login`.
OtherStep ==
  \/ \E s \in Source : RemovesFiles(s) \/ DaemonClears(s) \/ DaemonDisables(s) \/ CliClears(s)
  \/ RequestsIndex \/ Dies \/ Elsewhere \/ IndexStep
  \/ UNCHANGED allVars

\* Only `enable` and `login` enable a source.
LEMMA OthersDoNotEnable ==
  ASSUME FilesOK, LifeOK, OtherStep, NEW s \in Source, ~config[s].enabled
  PROVE  config'[s].enabled = FALSE
<1>. USE DEF FilesOK, SourceConfig
<1>1. config[s].enabled = FALSE
  OBVIOUS
<1>2. ASSUME NEW t \in Source, SetSourceEnabled(t, FALSE) PROVE config'[s].enabled = FALSE
  BY <1>1, <1>2 DEF SetSourceEnabled
<1>4. ASSUME NEW t \in Source, RemovesFiles(t) \/ DaemonClears(t) PROVE config' = config
  BY <1>4 DEF RemovesFiles, ResetFiles, CliReset, AuthLostWipes, DaemonClears, ResetRows, fileVars
<1>5. ASSUME NEW t \in Source, DaemonDisables(t) PROVE config'[s].enabled = FALSE
  BY <1>2, <1>5 DEF DaemonDisables, ResetDisables
<1>6. ASSUME NEW t \in Source, CliClears(t) PROVE config' = config
  BY <1>6 DEF CliClears, vars, fileVars
<1>8. RequestsIndex \/ Dies \/ IndexStep => config' = config
  BY DEF RequestsIndex, EndTick, Dies, DieAndRestart, IndexStep, vars, fileVars
<1>9. CASE Elsewhere
  <2>1. CASE Tick \/ NextLoop
    BY <1>1, <2>1 DEF Tick, NextLoop, fileVars
  <2>2. ASSUME NEW t \in Source,
               \/ PassBy(t) \/ ResetStops(t) \/ ResetFiles(t, FALSE)
               \/ ResetCannotDisable(t) \/ Restart(t) \/ Start(t) \/ Stop(t)
        PROVE  config' = config
    BY <2>2 DEF PassBy, ResetStops, ResetFiles, ResetCannotDisable, Restart, Start, Stop, fileVars
  <2>3. ASSUME NEW t \in Source, EnableOrDisable(t, FALSE) \/ CliDisables(t)
        PROVE  config'[s].enabled = FALSE
    BY <1>2, <2>3 DEF EnableOrDisable, CliDisables
  <2>4. ASSUME NEW t \in Source, ChangeAuth(t) PROVE config'[s].enabled = FALSE
    BY <1>1, <2>4 DEF ChangeAuth
  <2>5. ASSUME NEW t \in Source, FlagReset(t) PROVE config'[s].enabled = FALSE
    BY <1>1, <2>5 DEF FlagReset
  <2>6. ASSUME NEW i \in Instance, SaveToken(i) \/ Return(i) \/ DeleteEntry(i)
        PROVE  config' = config
    BY <2>6 DEF SaveToken, Return, DeleteEntry, fileVars
  <2>7. ASSUME NEW i \in Instance, AuthLostDisables(i) PROVE config'[s].enabled = FALSE
    <3>1. instance[i].src \subseteq Source
      BY DEF LifeOK, Goroutine, SingleOrNone
    <3>. QED  BY <1>2, <2>7, <3>1 DEF AuthLostDisables
  <2>. QED  BY <1>1, <1>9, <2>1, <2>2, <2>3, <2>4, <2>5, <2>6, <2>7 DEF Elsewhere
<1>10. CASE UNCHANGED allVars
  BY <1>1, <1>10 DEF allVars, vars, fileVars
<1>. QED  BY <1>1, <1>4, <1>5, <1>6, <1>8, <1>9, <1>10 DEF OtherStep

\* No step brings rows back to a source that is settled, nor a run that visits it.
LEMMA NextKeepsSettled ==
  FilesOK /\ LifeOK /\ PoolOK /\ Settled /\ [ResetNext]_allVars => Settled'
<1>. SUFFICES ASSUME FilesOK, LifeOK, PoolOK, Settled, [ResetNext]_allVars PROVE Settled'
  OBVIOUS
<1>1. OtherStep => \A s \in settled : config'[s].enabled = FALSE
  <2>1. \A s \in settled : s \in Source /\ ~config[s].enabled
    BY DEF Settled, PoolOK
  <2>. QED  BY <2>1, OthersDoNotEnable
<1>2. ASSUME NEW s \in Source, Enables(s) PROVE Settled'
  <2>1. cleared' = cleared \ {s} /\ settled' = settled \ {s} /\ UNCHANGED <<rows, index>>
    BY <1>2 DEF Enables
  <2>2. \A t \in settled' : config'[t].enabled = FALSE
    <3>1. config' = [config EXCEPT ![s].enabled = TRUE, ![s].reset = FALSE]
      BY <1>2 DEF Enables, EnableOrDisable, Login, SetSourceEnabled
    <3>. QED  BY <2>1, <3>1 DEF Settled, PoolOK, FilesOK
  <2>. QED  BY <2>1, <2>2 DEF Settled
<1>3. ASSUME NEW s \in Source, DeleteRows(s)
      PROVE  cleared \subseteq cleared' /\ \A t \in settled : rows'[t] = {}
  BY <1>3 DEF DeleteRows, Settled, PoolOK
<1>4. ASSUME OtherStep, UNCHANGED <<settled, index>>, cleared \subseteq cleared',
             \A t \in settled : rows'[t] = {}
      PROVE  Settled'
  BY <1>1, <1>4 DEF Settled
<1>5. ASSUME NEW s \in Source, DaemonDisables(s) \/ CliClears(s) PROVE Settled'
  <2>1. Settle(s) /\ index' = index /\ cleared \subseteq cleared'
    BY <1>3, <1>5 DEF DaemonDisables, CliClears
  <2>2. \A t \in settled : rows'[t] = {} /\ config'[t].enabled = FALSE
    BY <1>1, <1>3, <1>5 DEF DaemonDisables, CliClears, OtherStep, Settled
  <2>3. config'[s].enabled \in BOOLEAN
    BY <1>5 DEF DaemonDisables, ResetDisables, SetSourceEnabled, CliClears, vars, fileVars,
                FilesOK, SourceConfig
  <2>4. settled' \ settled # {} =>
          /\ settled' = settled \cup {s} /\ s \in cleared' /\ rows'[s] = {}
          /\ config'[s].enabled = FALSE /\ s \notin index.todo \cup index.held
    BY <2>1, <2>3 DEF Settle
  <2>5. settled \subseteq settled'
    BY <2>1 DEF Settle
  <2>. QED  BY <2>1, <2>2, <2>4, <2>5 DEF Settled
<1>6. ASSUME NEW s \in Source, RemovesFiles(s) PROVE Settled'
  BY <1>4, <1>6 DEF RemovesFiles, OtherStep, Settled
<1>7. ASSUME NEW s \in Source, DaemonClears(s) PROVE Settled'
  <2>1. UNCHANGED <<settled, index>> /\ cleared \subseteq cleared' /\ \A t \in settled : rows'[t] = {}
    BY <1>3, <1>7 DEF DaemonClears, Settled
  <2>. QED  BY <1>4, <1>7, <2>1 DEF OtherStep
<1>8. CASE RequestsIndex \/ Dies
  <2>1. UNCHANGED <<settled, cleared, rows>>
    BY <1>8 DEF RequestsIndex, Dies
  <2>2. index' = index \/ (index'.todo = {} /\ index'.held = {})
    BY <1>8 DEF RequestsIndex, Dies, NoRun
  <2>. QED  BY <1>1, <1>8, <2>1, <2>2 DEF OtherStep, Settled
<1>9. CASE Elsewhere
  BY <1>4, <1>9 DEF Elsewhere, searchVars, OtherStep, Settled
<1>10. CASE IndexStep
  <2>1. \A s \in settled : config'[s].enabled = FALSE
    BY <1>1, <1>10 DEF OtherStep
  <2>2. CASE IndexBegins
    <3>1. \A s \in settled : Opened(s).open = FALSE
      <4>1. ASSUME NEW s \in settled PROVE Opened(s) = Closed
        BY <4>1 DEF Settled, Opened
      <4>. QED  BY <4>1 DEF Closed
    <3>2. index.held = {} /\ index'.held = index.held /\ index'.todo = {s \in Source : Opened(s).open}
      BY <2>2 DEF IndexBegins, PoolOK, Run
    <3>3. UNCHANGED <<settled, cleared, rows>>
      BY <2>2 DEF IndexBegins
    <3>. QED  BY <2>1, <3>1, <3>2, <3>3 DEF Settled
  <2>3. ASSUME NEW s \in Source, IndexSkips(s) \/ IndexReads(s) PROVE Settled'
    <3>1. UNCHANGED <<settled, cleared, rows>>
      BY <2>3 DEF IndexSkips, IndexReads
    <3>2. index'.todo \cup index'.held \subseteq index.todo \cup index.held
      <4>1. s \in index.todo /\ index \in Run
        BY <2>3 DEF IndexSkips, IndexReads, PoolOK
      <4>2. CASE IndexSkips(s)
        BY <4>1, <4>2 DEF IndexSkips, Run
      <4>3. CASE IndexReads(s)
        BY <4>1, <4>3 DEF IndexReads, Run
      <4>. QED  BY <2>3, <4>2, <4>3
    <3>. QED  BY <2>1, <3>1, <3>2 DEF Settled
  <2>4. ASSUME NEW s \in Source, IndexWrites(s) PROVE Settled'
    <3>1. s \notin settled /\ UNCHANGED <<settled, cleared>>
      BY <2>4 DEF IndexWrites, Settled
    <3>2. \A t \in settled : rows'[t] = rows[t]
      BY <2>4, <3>1 DEF IndexWrites, PoolOK
    <3>3. index'.todo = index.todo /\ index'.held = {}
      BY <2>4 DEF IndexWrites, PoolOK, Run
    <3>. QED  BY <2>1, <3>1, <3>2, <3>3 DEF Settled
  <2>5. CASE IndexEnds
    BY <2>1, <2>5 DEF IndexEnds, NoRun, Settled
  <2>. QED  BY <1>10, <2>2, <2>3, <2>4, <2>5 DEF IndexStep
<1>11. CASE UNCHANGED allVars
  BY <1>11 DEF allVars, vars, fileVars, searchVars, Settled
<1>. QED  BY <1>2, <1>5, <1>6, <1>7, <1>8, <1>9, <1>10, <1>11 DEF ResetNext

\* The three ways a source is reset, with the index run, keep all of it.
LEMMA ResetInvariant == ResetSpec => []ResetInv
<1>1. ResetInit => ResetInv
  <2>. SUFFICES ASSUME ResetInit PROVE ResetInv
    OBVIOUS
  <2>1. IInv
    BY Initially DEF ResetInit
  <2>2. 0 \in 0..MaxFile
    BY FileAssumption
  <2>3. Closed \in Pooled
    BY <2>2 DEF Closed, Pooled, SourceConfig
  <2>4. NoRun \in Run /\ NoRun.todo = {} /\ NoRun.held = {}
    BY DEF NoRun, Run, SingleOrNone
  <2>5. PoolOK
    BY <2>2, <2>3, <2>4 DEF ResetInit, PoolOK
  <2>6. Settled
    BY DEF ResetInit, Settled
  <2>. QED  BY <2>1, <2>5, <2>6 DEF ResetInv
<1>2. ResetInv /\ [ResetNext]_allVars => ResetInv'
  <2>. SUFFICES ASSUME ResetInv, [ResetNext]_allVars PROVE ResetInv'
    OBVIOUS
  <2>1. [Next]_vars
    BY ResetStepsAreDaemonSteps DEF allVars
  <2>2. IInv'
    BY <2>1, NextKeepsFiles, NextKeepsLife, NextKeepsTick DEF ResetInv, IInv, LifeInv
  <2>. QED  BY <2>2, NextKeepsPool, NextKeepsSettled DEF ResetInv, IInv, LifeInv
<1>. QED  BY <1>1, <1>2, PTL DEF ResetSpec

\* The daemon's loop with the three ways of a reset and the index run implements the
\* daemon's loop alone: nothing that its properties exclude comes back through them.
THEOREM ResetsImplementTheDaemon == ResetSpec => Spec
<1>1. ResetInit => Init
  BY DEF ResetInit
<1>2. [ResetNext]_allVars => [Next]_vars
  BY ResetStepsAreDaemonSteps DEF allVars
<1>. QED  BY <1>1, <1>2, PTL DEF ResetSpec, Spec

\* The files, the rows and the index run are well typed, and a run visits only sources
\* that it has opened (reconcileIndexSources).
THEOREM ResetTypeCorrect == ResetSpec => []ResetTypeOK
<1>1. ResetInv => ResetTypeOK
  BY DEF ResetInv, IInv, LifeInv, TickInv, FilesOK, LifeOK, MainOK, TypeOK, PoolOK, Settled,
         ResetTypeOK
<1>. QED  BY <1>1, ResetInvariant, PTL

\* For any number of sources, whichever way they are reset, whenever runs begin and the
\* daemon dies: once a reset has ended with the rows gone and no run visiting the source,
\* it has no rows until it is enabled again.
THEOREM SettledResetsStay == ResetSpec => []SettledResetStays
<1>1. ResetInv => SettledResetStays
  BY DEF ResetInv, Settled, SettledResetStays
<1>. QED  BY <1>1, ResetInvariant, PTL
=============================================================================
