------------------------------ MODULE GSuiteSync ------------------------------
(***************************************************************************)
(* The poll of the gsuite source (all its apps but gmail, which derives    *)
(* threads from its rows): every enabled app lists what Google has, page by *)
(* page, stores what is new in gsuite.db and deletes the rows that *)
(* were not listed, while the remote data changes, calls fail, the daemon  *)
(* dies and the user switches apps on and off and clears them.  What       *)
(* happens to the whole source when its auth is lost is in Daemon.         *)
(*                                                                         *)
(* A version number stands for a remote modification time and for what the *)
(* item holds since then; 0 for an item that is not there.                 *)
(***************************************************************************)
EXTENDS Naturals, Sequences

CONSTANTS
  Apps,          \* the apps, in the order of allApps
  Fetched,       \* docs, sheets, slides: content comes from a call of its own
  Lists,         \* tasks, calendar: several lists, each with pages
  Id,            \* items
  Pages,         \* the pages of an app's listing: [list, ids]
  MaxChange,     \* bound on the versions of remote data
  MaxFault       \* bound on failed calls and deaths of the daemon

App == {Apps[k] : k \in DOMAIN Apps}

ASSUME AppAssumption == Fetched \subseteq App /\ Lists \subseteq App \ Fetched
ASSUME PagesAssumption ==
  /\ Apps \in Seq(App)
  /\ Pages \in [App -> Seq([list : Nat, ids : SUBSET Id])]
ASSUME BoundAssumption == MaxChange \in Nat \ {0} /\ MaxFault \in Nat

VARIABLES
  remote,        \* Google's side: version of every item of every app
  rows,          \* gsuite.db: stored modification time and content of every item
  config,        \* the apps enabled in config.json
  manage,        \* gsuite manage: the apps it will save as enabled
  apps,          \* g.apps, the apps of the running poll
  at,            \* the current app, as its place in Apps; 0 between polls
  page,          \* the next page of the current app's listing
  remoteIDs,     \* ids listed so far
  pending,       \* items of the page that are still to be looked at
  changes,       \* the last version of remote data
  faults,        \* failed calls and deaths so far
  absent,        \* history: ids the current app lacked at some time of its sync
  off            \* history: apps that were disabled ever since the poll started

local == <<apps, at, page, remoteIDs, pending>>
vars == <<remote, rows, config, manage, local, changes, faults, absent, off>>

Version == 0..MaxChange
Row == [time : Version, content : Version]
NoRow == [time |-> 0, content |-> 0]
File == [id : Id, time : Version]

app == Apps[at]
Items(a) == UNION {Pages[a][p].ids : p \in DOMAIN Pages[a]}
Syncing == at # 0
Present(a) == {i \in Id : remote[a][i] # 0}
Stored(a) == {i \in Id : rows[a][i] # NoRow}

TypeOK ==
  /\ remote \in [App -> [Id -> Version]]
  /\ rows \in [App -> [Id -> Row]]
  /\ config \subseteq App /\ manage \subseteq SUBSET App
  /\ apps \subseteq App /\ at \in 0..Len(Apps) /\ page \in Nat \ {0}
  /\ Syncing => page <= Len(Pages[app]) + 1
  /\ remoteIDs \subseteq Id /\ pending \subseteq File /\ absent \subseteq Id
  /\ off \subseteq App
  /\ changes \in Version /\ faults \in 0..MaxFault

Init ==
  /\ \E v \in {0, 1} :      \* what Google has before the source is first used
       remote = [a \in App |-> [i \in Id |-> IF i \in Items(a) THEN v ELSE 0]]
  /\ rows = [a \in App |-> [i \in Id |-> NoRow]]
  /\ config \in SUBSET App /\ manage = {}
  /\ apps = {} /\ at = 0 /\ page = 1 /\ remoteIDs = {} /\ pending = {}
  /\ changes = 1 /\ faults = 0 /\ absent = {} /\ off = {}

Fault == faults < MaxFault /\ faults' = faults + 1

-----------------------------------------------------------------------------
(* The poll.                                                               *)

\* No app is being synced.
EndPoll ==
  /\ apps' = {} /\ at' = 0 /\ page' = 1 /\ remoteIDs' = {} /\ pending' = {}
  /\ absent' = {} /\ off' = {}

Later(s) == {k \in DOMAIN Apps : k > at /\ Apps[k] \in s}

\* To the next of the apps in s, or to the end of the poll.
GoOnWith(s) ==
  \/ Later(s) = {} /\ EndPoll
  \/ \E k \in Later(s) :
       /\ \A j \in Later(s) : k <= j
       /\ apps' = s /\ at' = k /\ page' = 1 /\ remoteIDs' = {} /\ pending' = {}
       /\ absent' = Items(Apps[k]) \ Present(Apps[k])
       /\ off' = IF Syncing THEN off ELSE App \ config

\* Mutant of StartPoll: the poll takes all apps.
StartPollOfAllApps ==
  /\ ~Syncing
  /\ GoOnWith(App)
  /\ UNCHANGED <<remote, rows, config, manage, changes, faults>>

\* The apps are read from config.json once, when the poll starts.
StartPoll ==
  /\ ~Syncing /\ config # {}
  /\ GoOnWith(config)
  /\ UNCHANGED <<remote, rows, config, manage, changes, faults>>

AtPage == Syncing /\ pending = {} /\ page <= Len(Pages[app])

ListPage ==
  /\ AtPage
  /\ LET ids == Pages[app][page].ids \cap Present(app) IN
       /\ pending' = {[id |-> i, time |-> remote[app][i]] : i \in ids}
       /\ remoteIDs' = remoteIDs \cup ids
  /\ page' = page + 1
  /\ UNCHANGED <<remote, rows, config, manage, apps, at, changes, faults, absent, off>>

\* Listing the task lists or the calendars fails: the app is left as it is.
ListOfListsFails ==
  /\ AtPage /\ page = 1 /\ app \in Lists
  /\ Fault /\ GoOnWith(apps)
  /\ UNCHANGED <<remote, rows, config, manage, changes>>

\* The first page of the next list, or the end of the listing.
IsNextList(q) ==
  LET listing == Pages[app] IN
    /\ q \in DOMAIN listing => listing[q].list # listing[page].list
    /\ \A p \in page + 1 .. q - 1 : listing[p].list = listing[page].list

GiveUpList == \E q \in page + 1 .. Len(Pages[app]) + 1 : IsNextList(q) /\ page' = q

\* Mutant of PageFails: every app goes on with what it has.
PageFailsEverywhere ==
  /\ AtPage /\ Fault /\ GiveUpList
  /\ UNCHANGED <<remote, rows, config, manage, apps, at, remoteIDs, pending, changes, absent, off>>

\* Tasks and calendar give up the list and go on with the next one, the other
\* apps give up the sync.
PageFails ==
  /\ AtPage /\ Fault
  /\ \/ /\ app \in Lists /\ GiveUpList
        /\ UNCHANGED <<apps, at, remoteIDs, pending, absent, off>>
     \/ /\ app \notin Lists /\ GoOnWith(apps)
  /\ UNCHANGED <<remote, rows, config, manage, changes>>

\* Mutant of UpToDate: a stored row is good.
UpToDateWhenStored(f) == f.id \in Stored(app)

UpToDate(f) == rows[app][f.id].time = f.time

Skip(f) ==
  /\ UpToDate(f) /\ pending' = pending \ {f}
  /\ UNCHANGED <<remote, rows, config, manage, apps, at, page, remoteIDs, changes, faults, absent, off>>

\* Mutant of RecordOf: content fetched first, stored with the time it has by then.
RecordOfOldContent(f) == [time |-> remote[app][f.id], content |-> f.time]

\* The listing's modification time, with content that may be newer.
RecordOf(f) ==
  [time |-> f.time,
   content |-> IF app \in Fetched THEN remote[app][f.id] ELSE f.time]

Store(f) ==
  /\ ~UpToDate(f)
  /\ app \in Fetched => f.id \in Present(app)
  /\ rows' = [rows EXCEPT ![app][f.id] = RecordOf(f)]
  /\ pending' = pending \ {f}
  /\ UNCHANGED <<remote, config, manage, apps, at, page, remoteIDs, changes, faults, absent, off>>

\* Fetching the content fails, as it does when the item is gone, or the INSERT
\* does: a warning at most, and the row stays as it was.
Miss(f) ==
  /\ ~UpToDate(f)
  /\ IF app \in Fetched /\ f.id \notin Present(app) THEN UNCHANGED faults ELSE Fault
  /\ pending' = pending \ {f}
  /\ UNCHANGED <<remote, rows, config, manage, apps, at, page, remoteIDs, changes, absent, off>>

LookAtItem == Syncing /\ \E f \in pending : Skip(f) \/ Store(f) \/ Miss(f)

\* deleteOrphanedRows, which ends the app's sync; rows are deleted one by one,
\* and a statement that fails is passed over.
DeleteOrphans ==
  /\ Syncing /\ pending = {} /\ page > Len(Pages[app])
  /\ \E kept \in SUBSET (Stored(app) \ remoteIDs) :
       /\ rows' = [rows EXCEPT ![app] =
                     [i \in Id |-> IF i \in remoteIDs \cup kept THEN @[i] ELSE NoRow]]
       /\ IF kept = {} THEN UNCHANGED faults ELSE Fault
  /\ GoOnWith(apps)
  /\ UNCHANGED <<remote, config, manage, changes>>

\* The daemon dies; the next one starts with a poll.
Die ==
  /\ Syncing /\ Fault /\ EndPoll
  /\ UNCHANGED <<remote, rows, config, manage, changes>>

-----------------------------------------------------------------------------
(* The rest of the world.                                                  *)

\* Somebody adds, edits or removes an item.
ChangeRemote(a, i) ==
  /\ changes < MaxChange /\ changes' = changes + 1
  /\ \/ remote' = [remote EXCEPT ![a][i] = changes']
     \/ i \in Present(a) /\ remote' = [remote EXCEPT ![a][i] = 0]
  /\ absent' = IF Syncing /\ a = app /\ remote'[a][i] = 0 THEN absent \cup {i} ELSE absent
  /\ UNCHANGED <<rows, config, manage, local, faults, off>>

\* gsuite enable <app>, and gsuite disable <app>, which keeps the data.
EnableOrDisable(a) ==
  /\ config' \in {config \cup {a}, config \ {a}} \ {config} /\ off' = off \ config'
  /\ UNCHANGED <<remote, rows, manage, local, changes, faults, absent>>

\* gsuite manage clears the data of an app it switches off ...
ResetApp(a) ==
  /\ a \in config /\ manage = {}
  /\ rows' = [rows EXCEPT ![a] = [i \in Id |-> NoRow]]
  /\ manage' = {config \ {a}}
  /\ UNCHANGED <<remote, config, local, changes, faults, absent, off>>

\* ... and saves the apps at its end, over what was saved in between.
SaveApps ==
  /\ config' \in manage /\ manage' = {} /\ off' = off \ config'
  /\ UNCHANGED <<remote, rows, local, changes, faults, absent>>

Poll == StartPoll \/ ListPage \/ LookAtItem \/ DeleteOrphans

Next ==
  \/ Poll
  \/ ListOfListsFails \/ PageFails \/ Die
  \/ \E a \in App : \/ \E i \in Items(a) : ChangeRemote(a, i)
                    \/ EnableOrDisable(a) \/ ResetApp(a)
  \/ SaveApps

\* The poll loop runs for ever; nothing makes the user or a failure act.
Spec == Init /\ [][Next]_vars /\ WF_vars(Poll)

-----------------------------------------------------------------------------
(* Properties.                                                             *)

\* What a row holds is at least as new as the modification time it is stored
\* with (docs, sheets, slides: the time comes from the listing, the content
\* from a later call).  Otherwise the next poll would take the row for good.
ContentAsNewAsTime ==
  \A a \in App, i \in Id : rows[a][i].content >= rows[a][i].time

\* Rows the poll takes away from an app.
Deleted(a) == {i \in Stored(a) : rows'[a][i] = NoRow}

\* deleteOrphanedRows of docs, sheets, slides and contacts deletes no
\* row of an item that was there all through the app's sync, whatever calls
\* failed; only gsuite manage clears rows of live items.
OnlyGoneItemsAreDeleted ==
  [][\A a \in App : a \notin Lists /\ manage' = manage => Deleted(a) \subseteq absent]_vars

\* The comments on syncTasks and syncCalendar: they remove rows absent from
\* the latest listing.  A listing that failed says nothing about what it lacks.
OnlyGoneListItemsAreDeleted ==
  [][\A a \in App : a \in Lists /\ manage' = manage => Deleted(a) \subseteq absent]_vars

\* The stored rows are what Google has.
InSync(a) == \A i \in Id : rows[a][i].content = remote[a][i]

\* An app that stays enabled ends up in sync, whatever failed, whatever was
\* skipped, half stored, wrongly deleted or cleared on the way, once Google's
\* data rests and calls go through.
EnabledAppGetsInSync == \A a \in App : <>[](a \in config) => <>[]InSync(a)

\* A disabled app is left alone: only the poll that was running when the app
\* was switched off may still fill or clear its rows, the one that starts next
\* has read the switch.
DisabledAppIsLeftAlone == [][\A a \in off : rows'[a] = rows[a]]_vars
=============================================================================
