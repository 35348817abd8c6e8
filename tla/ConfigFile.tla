------------------------------ MODULE ConfigFile ------------------------------
(***************************************************************************)
(* config.json: the switches and settings of every source, read and        *)
(* written as a whole by the daemon and by every command, without a lock,  *)
(* through one temporary file of a fixed name.  A file keeps what its      *)
(* writer puts into it after the name has been given away, so the names    *)
(* and the files they stand for are apart.                                 *)
(***************************************************************************)
EXTENDS Naturals, Sequences, FiniteSets

CONSTANTS
  Process,       \* the daemon and the terminals
  Commands,      \* what they run: [source, name, items]
  Item,          \* directories, apps and browsers
  MaxRun,        \* bound on commands
  MaxFault       \* bound on processes that die and on edits of the user

Source == {"browser_history", "gsuite", "notebook", "whatsapp"}
ASSUME CommandAssumption ==
  \A c \in Commands : c.source \in Source \cup {"all"} /\ c.items \in SUBSET Item
ASSUME ProcessAssumption == IsFiniteSet(Process)
ASSUME BoundAssumption == MaxRun \in Nat /\ MaxFault \in Nat

VARIABLES
  content,       \* what is in every file
  main, temp,    \* the files with the names config.json and config.json.tmp
  run,           \* what every process does
  runs, faults,  \* so far
  mixed,         \* history: files opened by two processes, or by one and renamed by another
  interrupted    \* history: sources at whose commands another process saved, or both at once

vars == <<content, main, temp, run, runs, faults, mixed, interrupted>>

Section == [enabled : BOOLEAN, reset : BOOLEAN, auth : SUBSET Item]
Fresh == [enabled |-> FALSE, reset |-> FALSE, auth |-> {}]
Config == [sources : [Source -> Section], mcp : BOOLEAN]
Empty == [sources |-> [s \in Source |-> Fresh], mcp |-> FALSE]

\* A file holds a configuration, or the start or a mix of some, or what a user has made
\* of it.
File == 0..(Cardinality(Process) + 2)
NoFile == Cardinality(Process) + 3
Written(c) == [whole |-> TRUE, config |-> c]
Torn == [whole |-> FALSE, config |-> Empty]
Broken == [whole |-> FALSE, config |-> [Empty EXCEPT !.mcp = TRUE]]

Idle == [pc |-> "idle", source |-> "all", todo |-> <<>>, config |-> Empty,
         file |-> NoFile, stale |-> FALSE]

Init ==
  /\ \E c \in {Empty,
               [Empty EXCEPT !.mcp = TRUE,
                  !.sources["whatsapp"].enabled = TRUE,
                  !.sources["notebook"] = [Fresh EXCEPT !.enabled = TRUE, !.auth = Item]]} :
       content = [f \in File |-> IF f = 0 THEN Written(c) ELSE Torn]
  /\ main \in {0, NoFile} /\ temp = NoFile
  /\ run = [p \in Process |-> Idle] /\ runs = 0 /\ faults = 0
  /\ mixed = {} /\ interrupted = {}

\* LoadConfig: a file that is missing or cannot be parsed is an empty configuration.
LoadConfig == IF main # NoFile /\ content[main].whole THEN content[main].config ELSE Empty

-----------------------------------------------------------------------------
(* Updates: what UpdateSourceConfig is given.                              *)

Updated(u, section) ==
  CASE u.what = "enable"  -> [section EXCEPT !.enabled = TRUE, !.reset = FALSE]
    [] u.what = "disable" -> [section EXCEPT !.enabled = FALSE, !.reset = FALSE]
    [] u.what = "off"     -> [section EXCEPT !.enabled = FALSE]
    [] u.what = "auth"    -> [section EXCEPT !.auth = u.auth]
    [] u.what = "add"     -> [enabled |-> TRUE, reset |-> FALSE, auth |-> u.auth]
    [] u.what = "remove"  -> [section EXCEPT !.auth = u.auth,
                                             !.enabled = @ /\ u.auth # {}]
    [] u.what = "clear"   -> [section EXCEPT !.enabled = FALSE, !.auth = {}]

SetSourceEnabled(enabled) == [what |-> IF enabled THEN "enable" ELSE "disable", auth |-> {}]
SaveAuth(items) == [what |-> "auth", auth |-> items]

\* notebook: own is what the command read when it started.
NotebookUpdates(c, own) ==
  CASE c.name = "add" ->
         IF c.items \subseteq own THEN <<>> ELSE <<[what |-> "add", auth |-> own \cup c.items]>>
    [] c.name = "remove" ->
         IF c.items \cap own = {} THEN <<>> ELSE <<[what |-> "remove", auth |-> own \ c.items]>>
    [] c.name = "reset" -> <<[what |-> "clear", auth |-> {}]>>
    [] OTHER -> <<SetSourceEnabled(c.name = "enable")>>

\* Mutant of BrowserUpdates: the source is enabled before its browser is saved.
BrowserEnabledFirst(c, own) ==
  CASE c.name = "enable" -> <<SetSourceEnabled(TRUE)>> \o
         (IF c.items # {} THEN <<SaveAuth(c.items)>> ELSE <<>>)
    [] c.name = "disable" -> <<[what |-> "off", auth |-> {}]>>
    [] OTHER -> <<[what |-> "clear", auth |-> {}]>>

\* browser_history: enable saves the browser it is given, or needs one.
BrowserUpdates(c, own) ==
  CASE c.name = "enable" /\ c.items # {} -> <<SaveAuth(c.items), SetSourceEnabled(TRUE)>>
    [] c.name = "enable" /\ c.items = {} ->
         IF own = {} THEN <<>> ELSE <<SetSourceEnabled(TRUE)>>
    [] c.name = "disable" -> <<[what |-> "off", auth |-> {}]>>
    [] OTHER -> <<[what |-> "clear", auth |-> {}]>>

\* gsuite: login chooses the apps, manage toggles some; of enable and disable all apps
\* are an item, and only that disables the source.
GSuiteUpdates(c, own) ==
  CASE c.name = "login" -> <<[what |-> "add", auth |-> c.items]>>
    [] c.name = "manage" -> <<SaveAuth((own \ c.items) \cup (c.items \ own))>>
    [] c.name = "enable" -> <<SaveAuth(own \cup c.items), SetSourceEnabled(TRUE)>>
    [] c.name = "disable" ->
         IF c.items = Item THEN <<SaveAuth({}), SetSourceEnabled(FALSE)>>
                           ELSE <<SaveAuth(own \ c.items)>>
    [] OTHER -> <<SetSourceEnabled(FALSE)>>

\* whatsapp; reset and the daemon that was logged out disable it.
WhatsAppUpdates(c, own) == <<SetSourceEnabled(c.name \in {"enable", "login"})>>

\* reset writes an empty configuration over what there is.
Updates(c, own) ==
  CASE c.source = "notebook"        -> NotebookUpdates(c, own)
    [] c.source = "browser_history" -> BrowserUpdates(c, own)
    [] c.source = "gsuite"          -> GSuiteUpdates(c, own)
    [] c.source = "whatsapp"        -> WhatsAppUpdates(c, own)
    [] OTHER                        -> <<[what |-> "forget", auth |-> {}]>>

-----------------------------------------------------------------------------
(* Saving.                                                                 *)

\* A command starts and reads its settings; it then asks its user, signs in or removes
\* files, and gives up or goes on to its updates.
Begin(p, c) ==
  /\ run[p].pc = "idle" /\ runs < MaxRun /\ runs' = runs + 1
  /\ LET own == IF c.source = "all" THEN {} ELSE LoadConfig.sources[c.source].auth
         todo == Updates(c, own)
     IN  /\ todo # <<>>
         /\ run' = [run EXCEPT ![p] = [Idle EXCEPT !.pc = "load", !.source = c.source,
                                                   !.todo = todo]]
  /\ UNCHANGED <<content, main, temp, faults, mixed, interrupted>>

\* Mutant of Patched: only the section is saved.
PatchedAlone(s, u, c) == [Empty EXCEPT !.sources[s] = Updated(u, c.sources[s])]

Patched(s, u, c) == [c EXCEPT !.sources[s] = Updated(u, @)]

\* UpdateSourceConfig up to SaveConfig.
Load(p) ==
  /\ run[p].pc = "load"
  /\ run' = [run EXCEPT ![p].pc = "open", ![p].stale = FALSE,
               ![p].config = IF run[p].todo[1].what = "forget" THEN Empty
                             ELSE Patched(run[p].source, run[p].todo[1], LoadConfig)]
  /\ UNCHANGED <<content, main, temp, runs, faults, mixed, interrupted>>

Open(f) == \E p \in Process : run[p].file = f
Unused(f) == f # main /\ f # temp /\ ~Open(f)

\* Mutant of Target: config.json itself is written.
TargetInPlace == IF main # NoFile THEN main ELSE CHOOSE f \in File : Unused(f)

\* The file with the temporary name, or a new one.
Target == IF temp # NoFile THEN temp ELSE CHOOSE f \in File : Unused(f)

\* os.WriteFile opens the file and makes it empty.
OpenTemp(p) ==
  /\ run[p].pc = "open"
  /\ temp' = Target /\ content' = [content EXCEPT ![Target] = Torn]
  /\ run' = [run EXCEPT ![p].pc = "write", ![p].file = Target]
  /\ mixed' = IF Open(Target) THEN mixed \cup {Target} ELSE mixed \ {Target}
  /\ UNCHANGED <<main, runs, faults, interrupted>>

\* Others have read a config.json that is no more.
Outdated(p) ==
  [q \in Process |-> IF q # p /\ run[q].pc # "idle" THEN [run[q] EXCEPT !.stale = TRUE]
                                                    ELSE run[q]]
Interrupted(others) ==
  interrupted' = interrupted \cup {run[q].source : q \in {r \in others : run[r].pc # "idle"}}

\* It then writes from the start of the file: of something longer the end remains.
WriteTemp(p) ==
  LET f == run[p].file IN
  /\ run[p].pc = "write"
  /\ \/ content' = [content EXCEPT ![f] = Written(run[p].config)]
     \/ f \in mixed /\ content[f] # Torn /\ content' = [content EXCEPT ![f] = Torn]
  /\ run' = [IF f = main THEN Outdated(p) ELSE run EXCEPT ![p].pc = "rename"]
  /\ IF f = main THEN Interrupted(Process \ {p}) ELSE UNCHANGED interrupted
  /\ UNCHANGED <<main, temp, runs, faults, mixed>>

\* A command goes on to its next update, or is done.
Saved(r) == IF Len(r.todo) = 1 THEN Idle
            ELSE [r EXCEPT !.pc = "load", !.todo = Tail(@), !.file = NoFile]

\* os.Rename: whatever has the temporary name becomes config.json; there may be nothing
\* with that name, and the command ends with an error.  What has neither a name nor a
\* writer is gone.
Rename(p) ==
  /\ run[p].pc = "rename"
  /\ IF temp # NoFile
       THEN /\ main' = temp /\ temp' = NoFile
            /\ run' = [Outdated(p) EXCEPT ![p] = Saved(@)]
            /\ content' = [f \in File |-> IF f = main /\ ~Open(f) THEN Torn ELSE content[f]]
            /\ mixed' = IF temp = run[p].file THEN mixed ELSE mixed \cup {temp}
            /\ Interrupted(IF temp \in mixed' THEN Process ELSE Process \ {p})
       ELSE run' = [run EXCEPT ![p] = Idle] /\ UNCHANGED <<content, main, temp, mixed, interrupted>>
  /\ UNCHANGED <<runs, faults>>

-----------------------------------------------------------------------------
(* What else happens.                                                      *)

Die(p) ==
  /\ run[p].pc # "idle" /\ faults < MaxFault /\ faults' = faults + 1
  /\ run' = [run EXCEPT ![p] = Idle]
  /\ UNCHANGED <<content, main, temp, runs, mixed, interrupted>>

\* The user edits config.json, its mcp block or the reset flag of a source, well or not.
Edit ==
  /\ faults < MaxFault /\ faults' = faults + 1
  /\ main # NoFile /\ main \notin mixed
  /\ \E x \in {Broken, Written([LoadConfig EXCEPT !.mcp = ~@])}
          \cup {Written([LoadConfig EXCEPT !.sources[s].reset = TRUE]) : s \in Source} :
       content' = [content EXCEPT ![main] = x]
  /\ run' = [p \in Process |->
               IF run[p].pc = "idle" THEN Idle ELSE [run[p] EXCEPT !.stale = TRUE]]
  /\ Interrupted(Process)
  /\ UNCHANGED <<main, temp, runs, mixed>>

Next ==
  \/ \E p \in Process :
       \/ \E c \in Commands : Begin(p, c)
       \/ Load(p) \/ OpenTemp(p) \/ WriteTemp(p) \/ Rename(p) \/ Die(p)
  \/ Edit

Spec == Init /\ [][Next]_vars

-----------------------------------------------------------------------------
(* Properties.                                                             *)

TypeOK ==
  /\ content \in [File -> [whole : BOOLEAN, config : Config]]
  /\ main \in File \cup {NoFile} /\ temp \in File \cup {NoFile}
  /\ mixed \subseteq File /\ interrupted \subseteq Source \cup {"all"}
  /\ runs \in 0..MaxRun /\ faults \in 0..MaxFault

\* Whoever reads config.json finds a whole configuration, whatever dies while saving,
\* unless two processes shared a temporary file or a user broke config.json
\* (core/helpers.go:306-321).
ConfigIsWhole ==
  main # NoFile => content[main].whole \/ content[main] = Broken \/ main \in mixed

\* A save changes what it is for in what there is, and nothing else: the other
\* sections and the mcp block stay, unless the file changed after it was read or two
\* saves shared the temporary file (core/helpers.go:329-336).
SavesOnlyWhatTheyAreFor ==
  [][\A p \in Process :
       /\ run[p].pc = "rename" /\ run'[p].pc # "rename"
       /\ main' # main /\ run[p].file \notin mixed /\ ~run[p].stale
       => LoadConfig' = IF run[p].todo[1].what = "forget" THEN Empty
                        ELSE [LoadConfig EXCEPT !.sources[run[p].source] =
                                Updated(run[p].todo[1], @)]]_vars

\* browser_history is never enabled without a browser, also when its command died
\* halfway, unless another process or the user saved during a command (browser_history/cli.go:36-61).
EnabledBrowserIsChosen ==
  interrupted \cap {"browser_history", "all"} = {} =>
    LET s == LoadConfig.sources["browser_history"] IN s.enabled => s.auth # {}
=============================================================================
