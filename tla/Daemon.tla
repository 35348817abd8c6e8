------------------------------- MODULE Daemon -------------------------------
(***************************************************************************)
(* runCore of runtime.go around its index coordinator: the main loop that  *)
(* reads config.json at every tick and starts, restarts, stops and resets  *)
(* sources; the goroutines that run StartCore and then delete their entry  *)
(* of the `running` map without any lock; the commands of the CLI, which   *)
(* work on the same files from another process; and the daemon's death,    *)
(* after which launchd starts it again.  A source may lose its auth as     *)
(* gsuite or as whatsapp does.  An update of config.json is one step.      *)
(* What a reset leaves in search.db is in SourceReset, the index run a     *)
(* tick asks for in IndexCoordinator and Indexer.                          *)
(***************************************************************************)
EXTENDS Naturals, FiniteSets

CONSTANTS Source,      \* the sources that run in the background (RunsCore)
          Instance,    \* identities of StartCore goroutines, recycled
          Nobody,      \* running[name] = nil
          MaxEdits,    \* bound on what the user does
          MaxCrashes   \* bound on the daemon's deaths

ASSUME DaemonAssumption ==
  Nobody \notin Instance /\ MaxEdits \in Nat /\ MaxCrashes \in Nat

VARIABLES config,    \* config.json
          token,     \* sources whose credentials are on disk
          cfg,       \* the daemon's configuration at its last tick
          newCfg,    \* the one it read when the current tick began
          running,   \* the instance whose context running[name] cancels
          instance,  \* the StartCore goroutines
          main,      \* the main loop: phase of the tick, sources left, source being reset
          cli,       \* the source a reset command has still to disable
          edits, crashes,
          overlap    \* history: sources started while an earlier goroutine of theirs was left

fileVars == <<config, token>>
lifeVars == <<running, instance, overlap>>
userVars == <<cli, edits, crashes>>
vars == <<fileVars, cfg, newCfg, main, lifeVars, userVars>>

SourceConfig == [enabled : BOOLEAN, reset : BOOLEAN, auth : {0, 1}]
Zero == [enabled |-> FALSE, reset |-> FALSE, auth |-> 0]
SingleOrNone(S) == {{x} : x \in S} \cup {{}}

\* "wiped": auth was lost and the files removed, the source is still to be
\* disabled.  "ended": StartCore has returned, its entry of `running` is still
\* to be deleted.
Goroutine == [pc : {"idle", "running", "wiped", "ended"}, src : SingleOrNone(Source),
              canceled : BOOLEAN]
Idle == [pc |-> "idle", src |-> {}, canceled |-> FALSE]

Phase == {"select", "reset", "files", "forget", "disable", "restart", "start", "stop"}
Main == [pc : Phase, todo : SUBSET Source, at : SingleOrNone(Source)]
Boot == [pc |-> "reset", todo |-> Source, at |-> {}]

Goroutines(s) == {i \in Instance : instance[i].src = {s}}
Live(s) == {i \in Goroutines(s) : instance[i].pc \in {"running", "wiped"}}

Init ==
  /\ config \in [Source -> {c \in SourceConfig : c.auth = 0}]
  /\ token = Source
  /\ cfg = config /\ newCfg = config
  /\ running = [s \in Source |-> Nobody] /\ instance = [i \in Instance |-> Idle]
  /\ main = Boot /\ overlap = {}
  /\ cli = {} /\ edits = 0 /\ crashes = 0

-----------------------------------------------------------------------------
\* Source.Reset: the databases and the credentials go.
RemoveFiles(s) == token' = token \ {s}

\* Mutant of SetSourceEnabled: the reset flag stays.
SetSourceEnabledOnly(s, on) == config' = [config EXCEPT ![s].enabled = on]

\* SetSourceEnabled clears the reset flag and keeps the auth blob.
SetSourceEnabled(s, on) == config' = [config EXCEPT ![s].enabled = on, ![s].reset = FALSE]

\* Mutant of CancelAndForget: the entry is left.
CancelOnly(s) ==
  /\ instance' = IF running[s] = Nobody THEN instance
                 ELSE [instance EXCEPT ![running[s]].canceled = TRUE]
  /\ UNCHANGED running

\* Mutant of CancelAndForget: the context is not cancelled.
ForgetOnly(s) == running' = [running EXCEPT ![s] = Nobody] /\ UNCHANGED instance

\* cancel(); delete(running, name)
CancelAndForget(s) ==
  /\ instance' = IF running[s] = Nobody THEN instance
                 ELSE [instance EXCEPT ![running[s]].canceled = TRUE]
  /\ running' = [running EXCEPT ![s] = Nobody]

-----------------------------------------------------------------------------
(* The main loop.  A tick is four loops over the configuration, one source *)
(* at a time; startup is a tick that finds nothing running.                *)

Tick ==
  /\ main.pc = "select"
  /\ newCfg' = config
  /\ main' = [pc |-> "reset", todo |-> Source, at |-> {}]
  /\ UNCHANGED <<fileVars, cfg, lifeVars, userVars>>

MainDone(s) == main' = [main EXCEPT !.todo = @ \ {s}]

\* The loop body does nothing for this source.
ShouldReset(s) == newCfg[s].reset
ShouldRestart(s) ==   \* shouldRestartSource, of a running source
  /\ running[s] # Nobody /\ newCfg[s].enabled /\ ~newCfg[s].reset
  /\ cfg[s].enabled = newCfg[s].enabled /\ cfg[s].reset = newCfg[s].reset
  /\ cfg[s].auth # newCfg[s].auth
ShouldStart(s) == newCfg[s].enabled /\ ~newCfg[s].reset /\ running[s] = Nobody /\ s \in token
\* Mutant of ShouldStop: only a reset stops a source.
ShouldStopOnReset(s) == running[s] # Nobody /\ newCfg[s].reset
ShouldStop(s) == running[s] # Nobody /\ ~newCfg[s].enabled

PassBy(s) ==
  /\ s \in main.todo
  /\ \/ main.pc = "reset" /\ ~ShouldReset(s)
     \/ main.pc = "restart" /\ ~ShouldRestart(s)
     \/ main.pc = "start" /\ ~ShouldStart(s)
     \/ main.pc = "stop" /\ ~ShouldStop(s)
  /\ MainDone(s)
  /\ UNCHANGED <<fileVars, cfg, newCfg, lifeVars, userVars>>

ResetStops(s) ==
  /\ main.pc = "reset" /\ s \in main.todo /\ ShouldReset(s)
  /\ CancelAndForget(s)
  /\ main' = [main EXCEPT !.pc = "files", !.at = {s}]
  /\ UNCHANGED <<fileVars, cfg, newCfg, overlap, userVars>>

\* handleReset, Source.Reset: a failure is logged and the reset goes on.
ResetFiles(s, ok) ==
  /\ main.pc = "files" /\ s \in main.at
  /\ IF ok THEN RemoveFiles(s) ELSE UNCHANGED token
  /\ main' = [main EXCEPT !.pc = "forget"]
  /\ UNCHANGED <<config, cfg, newCfg, lifeVars, userVars>>

\* handleReset, DeleteBySource: its effect is in SourceReset.
ResetRows(s) ==
  /\ main.pc = "forget" /\ s \in main.at
  /\ main' = [main EXCEPT !.pc = "disable"]
  /\ UNCHANGED <<fileVars, cfg, newCfg, lifeVars, userVars>>

\* handleReset, SetSourceDisabled: the daemon's own copy is disabled anyway.
EndReset(s) ==
  /\ main.pc = "disable" /\ s \in main.at
  /\ newCfg' = [newCfg EXCEPT ![s] = Zero]
  /\ main' = [main EXCEPT !.pc = "reset", !.at = {}, !.todo = @ \ {s}]
  /\ UNCHANGED <<token, cfg, lifeVars, userVars>>

ResetDisables(s) == EndReset(s) /\ SetSourceEnabled(s, FALSE)
ResetCannotDisable(s) == EndReset(s) /\ UNCHANGED config

Restart(s) ==
  /\ main.pc = "restart" /\ s \in main.todo /\ ShouldRestart(s)
  /\ CancelAndForget(s)
  /\ MainDone(s)
  /\ UNCHANGED <<fileVars, cfg, newCfg, overlap, userVars>>

\* startSource
Start(s) ==
  /\ main.pc = "start" /\ s \in main.todo /\ ShouldStart(s)
  /\ \E i \in Instance :
       /\ instance[i].pc = "idle"
       /\ instance' = [instance EXCEPT ![i] = [pc |-> "running", src |-> {s}, canceled |-> FALSE]]
       /\ running' = [running EXCEPT ![s] = i]
  /\ overlap' = IF Goroutines(s) = {} THEN overlap ELSE overlap \cup {s}
  /\ MainDone(s)
  /\ UNCHANGED <<fileVars, cfg, newCfg, userVars>>

Stop(s) ==
  /\ main.pc = "stop" /\ s \in main.todo /\ ShouldStop(s)
  /\ CancelAndForget(s)
  /\ MainDone(s)
  /\ UNCHANGED <<fileVars, cfg, newCfg, overlap, userVars>>

NextLoop ==
  /\ main.pc \in {"reset", "restart", "start"} /\ main.todo = {}
  /\ main' = [main EXCEPT !.todo = Source,
                          !.pc = CASE @ = "reset" -> "restart" [] @ = "restart" -> "start"
                                   [] @ = "start" -> "stop"]
  /\ UNCHANGED <<fileVars, cfg, newCfg, lifeVars, userVars>>

EndTick ==
  /\ main.pc = "stop" /\ main.todo = {}
  /\ cfg' = newCfg
  /\ main' = [main EXCEPT !.pc = "select"]
  /\ UNCHANGED <<fileVars, newCfg, lifeVars, userVars>>

MainStep ==
  \/ \E s \in Source : \/ PassBy(s) \/ ResetStops(s) \/ (\E ok \in BOOLEAN : ResetFiles(s, ok))
                       \/ ResetRows(s) \/ ResetDisables(s) \/ ResetCannotDisable(s)
                       \/ Restart(s) \/ Start(s) \/ Stop(s)
  \/ NextLoop \/ EndTick

-----------------------------------------------------------------------------
(* The goroutines of startSource.                                          *)

\* syncAllApps ends by saving the refreshed token, whatever has happened to
\* the file meanwhile.
SaveToken(i) ==
  /\ instance[i].pc = "running"
  /\ token' = token \cup instance[i].src
  /\ UNCHANGED <<config, cfg, newCfg, main, lifeVars, userVars>>

\* invalid_grant: gsuite removes its own files, then disables itself.
AuthLostWipes(i) ==
  /\ instance[i].pc = "running"
  /\ \E s \in instance[i].src : RemoveFiles(s)
  /\ instance' = [instance EXCEPT ![i].pc = "wiped"]
  /\ UNCHANGED <<config, cfg, newCfg, main, running, overlap, userVars>>

\* The end of that, or whatsapp's handleLoggedOut, which removes nothing.
AuthLostDisables(i) ==
  /\ instance[i].pc \in {"running", "wiped"}
  /\ \E s \in instance[i].src : SetSourceEnabled(s, FALSE)
  /\ instance' = [instance EXCEPT ![i].pc = "ended"]
  /\ UNCHANGED <<token, cfg, newCfg, main, running, overlap, userVars>>

\* StartCore returns: an error, its context is cancelled, or auth was lost and
\* the source could not be disabled.
Return(i) ==
  /\ instance[i].pc \in {"running", "wiped"}
  /\ instance' = [instance EXCEPT ![i].pc = "ended"]
  /\ UNCHANGED <<fileVars, cfg, newCfg, main, running, overlap, userVars>>

\* Mutant of DeleteEntry: the entry stays, as if StartCore still ran.
DeleteEntryForgotten(i) ==
  /\ instance[i].pc = "ended"
  /\ instance' = [instance EXCEPT ![i] = Idle]
  /\ UNCHANGED <<fileVars, cfg, newCfg, main, running, overlap, userVars>>

\* delete(running, name): the entry goes, whose ever it is by now.
DeleteEntry(i) ==
  /\ instance[i].pc = "ended"
  /\ running' = [s \in Source |-> IF {s} = instance[i].src THEN Nobody ELSE running[s]]
  /\ instance' = [instance EXCEPT ![i] = Idle]
  /\ UNCHANGED <<fileVars, cfg, newCfg, main, overlap, userVars>>

InstanceStep(i) ==
  SaveToken(i) \/ AuthLostWipes(i) \/ AuthLostDisables(i) \/ Return(i) \/ DeleteEntry(i)

-----------------------------------------------------------------------------
(* The user: commands of the CLI and edits of config.json.                 *)

Edit ==
  /\ edits < MaxEdits /\ edits' = edits + 1
  /\ UNCHANGED <<cfg, newCfg, main, lifeVars, crashes>>

EnableOrDisable(s, on) == Edit /\ SetSourceEnabled(s, on) /\ UNCHANGED <<token, cli>>

\* `whatsapp login`, `gsuite login`
Login(s) == Edit /\ token' = token \cup {s} /\ SetSourceEnabled(s, TRUE) /\ UNCHANGED cli

\* saveAppsConfig of `gsuite manage`
ChangeAuth(s) ==
  Edit /\ config' = [config EXCEPT ![s].auth = 1 - @] /\ UNCHANGED <<token, cli>>

\* "reset": true is written into config.json.
FlagReset(s) ==
  Edit /\ config' = [config EXCEPT ![s].reset = TRUE] /\ UNCHANGED <<token, cli>>

\* RunReset of gsuite and whatsapp: the files, then config.json.
CliReset(s) == cli = {} /\ Edit /\ RemoveFiles(s) /\ cli' = {s} /\ UNCHANGED config

CliDisables(s) ==
  /\ s \in cli
  /\ SetSourceEnabled(s, FALSE) /\ cli' = {}
  /\ UNCHANGED <<token, cfg, newCfg, main, lifeVars, edits, crashes>>

UserStep ==
  \E s \in Source :
    \/ \E on \in BOOLEAN : EnableOrDisable(s, on)
    \/ Login(s) \/ ChangeAuth(s) \/ FlagReset(s) \/ CliReset(s) \/ CliDisables(s)

\* The daemon ends, by a signal, a crash or the runtime's check of concurrent
\* map accesses, and launchd starts another one.
DieAndRestart ==
  /\ crashes < MaxCrashes /\ crashes' = crashes + 1
  /\ cfg' = config /\ newCfg' = config
  /\ running' = [s \in Source |-> Nobody] /\ instance' = [i \in Instance |-> Idle]
  /\ main' = Boot /\ overlap' = {}
  /\ UNCHANGED <<fileVars, cli, edits>>

Next ==
  \/ Tick \/ MainStep \/ UserStep \/ DieAndRestart
  \/ \E i \in Instance : InstanceStep(i)

Spec == Init /\ [][Next]_vars

\* A goroutine that has been told to end, or has lost auth.
MustReturn(i) == instance[i].canceled \/ instance[i].pc = "wiped"

\* The ticker fires, the main loop and the goroutines are scheduled; StartCore
\* returns once its context is cancelled or it has lost auth; disabling a
\* source in config.json does not fail for ever.
Fairness ==
  /\ WF_vars(Tick) /\ WF_vars(MainStep)
  /\ \A s \in Source : SF_vars(ResetDisables(s))
  /\ \A i \in Instance : /\ WF_vars(DeleteEntry(i))
                         /\ WF_vars(MustReturn(i) /\ (Return(i) \/ AuthLostDisables(i)))

FairSpec == Spec /\ Fairness

-----------------------------------------------------------------------------
TypeOK ==
  /\ config \in [Source -> SourceConfig] /\ cfg \in [Source -> SourceConfig]
  /\ newCfg \in [Source -> SourceConfig]
  /\ token \subseteq Source /\ overlap \subseteq Source
  /\ running \in [Source -> Instance \cup {Nobody}]
  /\ instance \in [Instance -> Goroutine]
  /\ \A i \in Instance : instance[i].pc = "idle" <=> instance[i].src = {}
  /\ main \in Main /\ (main.at # {} <=> main.pc \in {"files", "forget", "disable"})
  /\ cli \in SingleOrNone(Source)
  /\ edits \in 0..MaxEdits /\ crashes \in 0..MaxCrashes

\* An entry of `running` always names a goroutine of its source that has not
\* been cancelled, and between ticks only sources that the daemon has seen
\* enabled and without a reset have one.
RunningIsWanted ==
  \A s \in Source : running[s] # Nobody =>
    /\ running[s] \in Goroutines(s) /\ ~instance[running[s]].canceled
    /\ main.pc = "select" => cfg[s].enabled /\ ~cfg[s].reset

\* Every instance at work has been cancelled or can be: its source's entry is
\* its own, unless it was started before an earlier goroutine had ended.
WorkingIsStoppable ==
  \A s \in Source \ overlap : \A i \in Live(s) : instance[i].canceled \/ running[s] = i

\* A reset asked for in config.json is done and withdrawn.
ResetIsHandled == \A s \in Source : config[s].reset ~> ~config[s].reset

\* A source that stays enabled and logged in works again and again, however
\* often StartCore fails, the daemon dies or the source is restarted.
EnabledSourceWorks ==
  \A s \in Source :
    <>[](config[s].enabled /\ ~config[s].reset /\ s \in token) => []<>(Live(s) # {})

\* A source that stays disabled ends up with nothing at work, unless it was
\* started before an earlier goroutine had ended.
DisabledSourceStopsAlone ==
  \A s \in Source : <>[](~config[s].enabled /\ s \notin overlap) => <>[](Live(s) = {})

-----------------------------------------------------------------------------
\* docs/spec.md, "Stops disabled sources".
DisabledSourceStops ==
  \A s \in Source : <>[](~config[s].enabled) => <>[](Live(s) = {})
=============================================================================
