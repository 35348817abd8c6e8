--------------------------- MODULE GSuiteSyncProofs ---------------------------
(***************************************************************************)
(* Proofs about GSuiteSync for any apps, items and pages: rows are never   *)
(* stored with a time newer than their content, an app that gives up its   *)
(* sync when a page fails deletes no row of an item that stayed, and a     *)
(* poll leaves alone the apps that were disabled when it started.          *)
(***************************************************************************)
EXTENDS GSuiteSync, TLAPS

\* What was listed is not newer than what Google has now.
PendingIsOld ==
  \A f \in pending :
    /\ Syncing /\ f.id \in Items(app)
    /\ f.time > 0 /\ f.time <= changes
    /\ f.id \in Present(app) => f.time <= remote[app][f.id]

VersionsAreCounted == \A a \in App, i \in Id : remote[a][i] <= changes

RowsAreOfItems == \A a \in App : Stored(a) \subseteq Items(a)

\* What Google lacks now, it lacks at some time of the sync.
MissingIsAbsent == Syncing => Items(app) \ Present(app) \subseteq absent

\* Whatever the passed pages could list was listed, or was missing meanwhile.
PassedPagesAreListed ==
  Syncing /\ app \notin Lists =>
    \A p \in DOMAIN Pages[app] : p < page => Pages[app][p].ids \subseteq remoteIDs \cup absent

IInv ==
  /\ TypeOK /\ ContentAsNewAsTime
  /\ PendingIsOld /\ VersionsAreCounted /\ RowsAreOfItems
  /\ MissingIsAbsent /\ PassedPagesAreListed

-----------------------------------------------------------------------------
(* The current app and what its pages list.                                *)

\* The pages of every app list items of Id.
LEMMA PagesListItems ==
  ASSUME NEW a \in App
  PROVE  /\ Items(a) \subseteq Id /\ Len(Pages[a]) \in Nat
         /\ DOMAIN Pages[a] = 1 .. Len(Pages[a])
         /\ \A p \in DOMAIN Pages[a] : Pages[a][p].ids \subseteq Items(a)
<1>. DEFINE Page == [list : Nat, ids : SUBSET Id]
<1>1. Pages[a] \in Seq(Page)
  BY PagesAssumption
<1>2. DOMAIN Pages[a] = 1 .. Len(Pages[a]) /\ \A p \in DOMAIN Pages[a] : Pages[a][p] \in Page
  <2>. HIDE DEF Page
  <2>. QED  BY <1>1
<1>. QED  BY <1>1, <1>2 DEF Items

\* While a poll is running it has a current app.
LEMMA CurrentApp ==
  /\ Len(Apps) \in Nat /\ DOMAIN Apps = 1 .. Len(Apps)
  /\ \A k \in DOMAIN Apps : Apps[k] \in App
BY PagesAssumption DEF App

\* The part of the state that a poll keeps for itself.
LocalOK ==
  /\ apps \subseteq App /\ at \in 0..Len(Apps) /\ page \in Nat \ {0}
  /\ Syncing => page <= Len(Pages[app]) + 1
  /\ remoteIDs \subseteq Id /\ pending \subseteq File /\ absent \subseteq Id
  /\ off \subseteq App

\* The next app's sync starts from scratch.
LEMMA GoOnIsFresh ==
  ASSUME TypeOK, NEW s \in SUBSET App, GoOnWith(s) \/ EndPoll, remote' = remote
  PROVE  LocalOK' /\ pending' = {} /\ PassedPagesAreListed' /\ MissingIsAbsent'
<1>1. CASE EndPoll
  BY <1>1 DEF EndPoll, LocalOK, Syncing, PassedPagesAreListed, MissingIsAbsent
<1>2. CASE GoOnWith(s) /\ ~EndPoll
  <2>1. PICK k \in Later(s) :
          /\ apps' = s /\ at' = k /\ page' = 1 /\ remoteIDs' = {} /\ pending' = {}
          /\ absent' = Items(Apps[k]) \ Present(Apps[k])
          /\ off' = IF Syncing THEN off ELSE App \ config
    BY <1>2 DEF GoOnWith
  <2>2. k \in DOMAIN Apps /\ k # 0 /\ k \in 0..Len(Apps) /\ Apps[k] \in App
    BY <2>1, CurrentApp DEF Later
  <2>3. Items(Apps[k]) \subseteq Id /\ Len(Pages[Apps[k]]) \in Nat
    BY <2>2, PagesListItems
  <2>4. ~\E p \in DOMAIN Pages[Apps[k]] : p < 1
    BY <2>2, PagesListItems
  <2>. QED  BY <2>1, <2>2, <2>3, <2>4 
       DEF LocalOK, TypeOK, Syncing, app, PassedPagesAreListed, MissingIsAbsent, Items, Present
<1>. QED  BY <1>1, <1>2

-----------------------------------------------------------------------------
(* The invariant is inductive.                                             *)

LEMMA InitIInv == Init => IInv
<1>. SUFFICES ASSUME Init PROVE IInv
  OBVIOUS
<1>1. \A a \in App : Items(a) \subseteq Id
  BY PagesListItems
<1>2. PICK v \in {0, 1} :
        remote = [a \in App |-> [i \in Id |-> IF i \in Items(a) THEN v ELSE 0]]
  BY DEF Init
<1>3. TypeOK
  BY <1>2, BoundAssumption DEF Init, TypeOK, Version, Row, NoRow, File, Syncing
<1>4. ContentAsNewAsTime /\ RowsAreOfItems
  BY DEF Init, ContentAsNewAsTime, RowsAreOfItems, Stored, NoRow
<1>5. VersionsAreCounted
  BY <1>2 DEF Init, VersionsAreCounted
<1>6. PendingIsOld /\ MissingIsAbsent /\ PassedPagesAreListed
  BY DEF Init, PendingIsOld, MissingIsAbsent, PassedPagesAreListed, Syncing
<1>. QED  BY <1>3, <1>4, <1>5, <1>6 DEF IInv

\* Rows that only disappear stay right.
RowsShrink ==
  /\ rows' \in [App -> [Id -> Row]]
  /\ \A a \in App, i \in Id : rows'[a][i] \in {rows[a][i], NoRow}

LEMMA NoRowIsRow == NoRow \in Row /\ 0 \in Version
BY BoundAssumption DEF NoRow, Row, Version

LEMMA ShrunkRowsAreRight ==
  ASSUME RowsShrink, ContentAsNewAsTime, RowsAreOfItems
  PROVE  ContentAsNewAsTime' /\ RowsAreOfItems'
<1>1. ContentAsNewAsTime'
  BY DEF RowsShrink, ContentAsNewAsTime, NoRow
<1>2. RowsAreOfItems'
  BY DEF RowsShrink, RowsAreOfItems, Stored, Items
<1>. QED  BY <1>1, <1>2

\* A step that takes the poll to its next app, or to its end.
LEMMA FreshKeepsIInv ==
  ASSUME IInv, NEW s \in SUBSET App, GoOnWith(s) \/ EndPoll, RowsShrink,
         UNCHANGED <<remote, config, manage, changes>>, faults' \in 0..MaxFault
  PROVE  IInv'
<1>. USE DEF IInv
<1>1. LocalOK' /\ pending' = {} /\ PassedPagesAreListed' /\ MissingIsAbsent'
  BY GoOnIsFresh
<1>2. TypeOK'
  BY <1>1 DEF TypeOK, LocalOK, RowsShrink
<1>3. PendingIsOld'
  BY <1>1 DEF PendingIsOld
<1>. QED  BY <1>1, <1>2, <1>3, ShrunkRowsAreRight DEF VersionsAreCounted

\* Faults stay in their bound.
LEMMA FaultIsCounted ==
  ASSUME TypeOK, Fault \/ UNCHANGED faults PROVE faults' \in 0..MaxFault
BY BoundAssumption DEF TypeOK, Fault

\* A listed page holds the present versions.
LEMMA ListPageKeepsIInv == IInv /\ ListPage => IInv'
<1>. SUFFICES ASSUME IInv, ListPage PROVE IInv'
  OBVIOUS
<1>. USE DEF IInv
<1>. DEFINE listed == Pages[app][page].ids \cap Present(app)
<1>1. app \in App /\ page \in DOMAIN Pages[app] /\ Len(Pages[app]) \in Nat
  BY CurrentApp, PagesListItems DEF ListPage, AtPage, TypeOK, Syncing, app
<1>2. listed \subseteq Items(app) /\ listed \subseteq Id /\ listed \subseteq Present(app)
  BY <1>1, PagesListItems
<1>3. /\ pending' = {[id |-> i, time |-> remote[app][i]] : i \in listed}
      /\ remoteIDs' = remoteIDs \cup listed /\ page' = page + 1
      /\ UNCHANGED <<remote, rows, config, manage, apps, at, changes, faults, absent, off>>
  BY DEF ListPage
<1>4. \A i \in listed : remote[app][i] \in Version /\ remote[app][i] > 0
                        /\ remote[app][i] <= changes
  BY <1>1, <1>2 DEF TypeOK, Version, Present, VersionsAreCounted
<1>5. TypeOK'
  <2>1. pending' \subseteq File
    BY <1>2, <1>3, <1>4 DEF File
  <2>2. page' \in Nat \ {0} /\ page' <= Len(Pages[app]) + 1
    BY <1>1, <1>3 DEF ListPage, AtPage, TypeOK
  <2>. QED  BY <2>1, <2>2, <1>2, <1>3 DEF TypeOK, Syncing, app
<1>6. PendingIsOld'
  <2>1. \A f \in pending' : \E i \in listed : f = [id |-> i, time |-> remote[app][i]]
    BY <1>3
  <2>2. SUFFICES ASSUME NEW f \in pending'
                 PROVE  /\ Syncing' /\ f.id \in Items(app)'
                        /\ f.time > 0 /\ f.time <= changes'
                        /\ f.id \in Present(app)' => f.time <= remote'[app'][f.id]
    BY DEF PendingIsOld
  <2>3. PICK i \in listed : f = [id |-> i, time |-> remote[app][i]]
    BY <2>1
  <2>4. app' = app /\ Syncing' /\ Items(app)' = Items(app)
    BY <1>3 DEF ListPage, AtPage, app, Syncing, Items
  <2>. QED  BY <2>3, <2>4, <1>2, <1>3, <1>4 DEF Version
<1>7. PassedPagesAreListed'
  <2>1. SUFFICES ASSUME app \notin Lists, NEW p \in DOMAIN Pages[app], p < page + 1
                 PROVE  Pages[app][p].ids \subseteq remoteIDs' \cup absent
    BY <1>3 DEF PassedPagesAreListed, Syncing, app
  <2>2. CASE p = page
    <3>1. Pages[app][p].ids \subseteq listed \cup (Items(app) \ Present(app))
      BY <2>2, <1>1, PagesListItems
    <3>. QED  BY <3>1, <1>3 DEF ListPage, AtPage, MissingIsAbsent
  <2>3. CASE p < page
    BY <2>1, <2>3, <1>3 DEF ListPage, AtPage, PassedPagesAreListed
  <2>. QED  BY <2>1, <2>2, <2>3, <1>1, PagesListItems DEF TypeOK
<1>8. MissingIsAbsent'
  BY <1>3 DEF MissingIsAbsent, Syncing, app, Items, Present
<1>. QED  BY <1>3, <1>5, <1>6, <1>7, <1>8
       DEF ContentAsNewAsTime, VersionsAreCounted, RowsAreOfItems, Stored

\* A list that is given up leaves the rest as it is; the other apps start anew.
LEMMA PageFailsKeepsIInv == IInv /\ PageFails => IInv'
<1>. SUFFICES ASSUME IInv, PageFails PROVE IInv'
  OBVIOUS
<1>. USE DEF IInv
<1>1. faults' \in 0..MaxFault
  BY FaultIsCounted DEF PageFails
<1>2. CASE app \in Lists /\ GiveUpList /\ UNCHANGED <<apps, at, remoteIDs, pending, absent, off>>
  <2>1. UNCHANGED <<remote, rows, config, manage, changes>>
    BY DEF PageFails
  <2>2. app \in App /\ Len(Pages[app]) \in Nat
    BY CurrentApp, PagesListItems DEF PageFails, AtPage, TypeOK, Syncing, app
  <2>3. page' \in Nat \ {0} /\ page' <= Len(Pages[app]) + 1
    BY <1>2, <2>2 DEF GiveUpList, TypeOK
  <2>4. TypeOK'
    BY <1>1, <1>2, <2>1, <2>3 DEF TypeOK, Syncing, app
  <2>5. PendingIsOld'
    BY <2>1, <1>2 DEF PageFails, AtPage, PendingIsOld
  <2>6. PassedPagesAreListed' /\ MissingIsAbsent'
    BY <2>1, <1>2 DEF PassedPagesAreListed, MissingIsAbsent, app, Syncing, Items, Present
  <2>. QED  BY <2>1, <2>4, <2>5, <2>6
         DEF ContentAsNewAsTime, VersionsAreCounted, RowsAreOfItems, Stored
<1>3. CASE GoOnWith(apps)
  <2>1. apps \in SUBSET App /\ RowsShrink
    BY DEF TypeOK, RowsShrink, PageFails
  <2>2. UNCHANGED <<remote, rows, config, manage, changes>>
    BY DEF PageFails
  <2>. QED  BY <1>1, <1>3, <2>1, <2>2, FreshKeepsIInv
<1>. QED  BY <1>2, <1>3 DEF PageFails

\* The steps that start a poll, or end an app's sync.
LEMMA FreshStepsKeepIInv ==
  IInv /\ (StartPoll \/ ListOfListsFails \/ DeleteOrphans \/ Die) => IInv'
<1>. SUFFICES ASSUME IInv, StartPoll \/ ListOfListsFails \/ DeleteOrphans \/ Die
              PROVE  IInv'
  OBVIOUS
<1>. USE DEF IInv
<1>1. CASE StartPoll \/ ListOfListsFails \/ Die
  <2>1. /\ GoOnWith(config) \/ GoOnWith(apps) \/ EndPoll
        /\ UNCHANGED <<remote, rows, config, manage, changes>>
        /\ Fault \/ UNCHANGED faults
    BY <1>1 DEF StartPoll, ListOfListsFails, Die
  <2>2. config \in SUBSET App /\ apps \in SUBSET App /\ RowsShrink
    BY <2>1 DEF TypeOK, RowsShrink
  <2>. QED  BY <2>1, <2>2, FaultIsCounted, FreshKeepsIInv
<1>2. CASE DeleteOrphans
  <2>1. /\ GoOnWith(apps) /\ UNCHANGED <<remote, config, manage, changes>>
        /\ Fault \/ UNCHANGED faults
    BY <1>2 DEF DeleteOrphans
  <2>2. PICK kept \in SUBSET (Stored(app) \ remoteIDs) :
          rows' = [rows EXCEPT ![app] =
                    [i \in Id |-> IF i \in remoteIDs \cup kept THEN @[i] ELSE NoRow]]
    BY <1>2 DEF DeleteOrphans
  <2>3. RowsShrink
    BY <2>2, NoRowIsRow DEF TypeOK, RowsShrink
  <2>4. apps \in SUBSET App
    BY DEF TypeOK
  <2>. QED  BY <2>1, <2>3, <2>4, FaultIsCounted, FreshKeepsIInv
<1>. QED  BY <1>1, <1>2

\* A step that looks at a listed item, without the rows.
LEMMA PendingShrinks ==
  ASSUME IInv, pending' \subseteq pending, Fault \/ UNCHANGED faults,
         UNCHANGED <<remote, config, manage, apps, at, page, remoteIDs, changes, absent, off>>
  PROVE  /\ rows' \in [App -> [Id -> Row]] => TypeOK'
         /\ PendingIsOld' /\ VersionsAreCounted' /\ MissingIsAbsent' /\ PassedPagesAreListed'
<1>. USE DEF IInv
<1>1. rows' \in [App -> [Id -> Row]] => TypeOK'
  BY FaultIsCounted DEF TypeOK, Syncing, app
<1>2. PendingIsOld'
  BY DEF PendingIsOld, Syncing, app, Items, Present
<1>3. VersionsAreCounted' /\ MissingIsAbsent' /\ PassedPagesAreListed'
  BY DEF VersionsAreCounted, MissingIsAbsent, PassedPagesAreListed, Syncing, app, Items, Present
<1>. QED  BY <1>1, <1>2, <1>3

LEMMA LookAtItemKeepsIInv == IInv /\ LookAtItem => IInv'
<1>. SUFFICES ASSUME IInv, NEW f \in pending, Skip(f) \/ Store(f) \/ Miss(f) PROVE IInv'
  BY DEF LookAtItem
<1>. USE DEF IInv
<1>1. /\ pending' \subseteq pending
      /\ Fault \/ UNCHANGED faults
      /\ UNCHANGED <<remote, config, manage, apps, at, page, remoteIDs, changes, absent, off>>
  BY DEF Skip, Store, Miss
<1>2. CASE UNCHANGED rows
  <2>1. TypeOK' /\ ContentAsNewAsTime' /\ RowsAreOfItems'
    BY <1>1, <1>2, PendingShrinks DEF TypeOK, ContentAsNewAsTime, RowsAreOfItems, Stored, Items
  <2>. QED  BY <1>1, <2>1, PendingShrinks
<1>3. CASE Store(f)
  <2>1. app \in App /\ f.id \in Items(app) /\ f.id \in Id /\ f.time \in Version
    BY CurrentApp, PagesListItems DEF PendingIsOld, Syncing, app, TypeOK, File
  <2>2. rows' = [rows EXCEPT ![app][f.id] = RecordOf(f)]
    BY <1>3 DEF Store
  <2>3. RecordOf(f) \in Row /\ RecordOf(f).content >= RecordOf(f).time
    <3>1. CASE app \in Fetched
      <4>1. f.id \in Present(app) /\ f.time <= remote[app][f.id]
        BY <1>3, <3>1 DEF Store, PendingIsOld
      <4>. QED  BY <2>1, <3>1, <4>1 DEF RecordOf, Row, TypeOK, Version
    <3>2. CASE app \notin Fetched
      BY <2>1, <3>2 DEF RecordOf, Row, Version
    <3>. QED  BY <3>1, <3>2
  <2>4. rows' \in [App -> [Id -> Row]] /\ ContentAsNewAsTime'
    BY <2>1, <2>2, <2>3 DEF TypeOK, ContentAsNewAsTime
  <2>5. RowsAreOfItems'
    BY <2>1, <2>2 DEF TypeOK, RowsAreOfItems, Stored, Items
  <2>. QED  BY <1>1, <2>4, <2>5, PendingShrinks
<1>. QED  BY <1>2, <1>3 DEF Skip, Miss

\* A change gets a version above all versions there are, so that what was listed
\* before stays older.
LEMMA ChangeRemoteKeepsIInv ==
  ASSUME IInv, NEW a \in App, NEW i \in Items(a), ChangeRemote(a, i) PROVE IInv'
<1>. USE DEF IInv
<1>1. /\ changes' = changes + 1 /\ changes' \in Version /\ changes \in Nat
      /\ UNCHANGED <<rows, config, manage, apps, at, page, remoteIDs, pending, faults, off>>
  BY BoundAssumption DEF ChangeRemote, local, TypeOK, Version
<1>2. i \in Id
  BY PagesListItems
<1>3. PICK v \in {0, changes'} : remote' = [remote EXCEPT ![a][i] = v]
  BY DEF ChangeRemote
<1>4. absent' = IF Syncing /\ a = app /\ v = 0 THEN absent \cup {i} ELSE absent
  BY <1>2, <1>3 DEF ChangeRemote, TypeOK
<1>5. TypeOK'
  <2>1. remote' \in [App -> [Id -> Version]]
    BY <1>1, <1>2, <1>3, NoRowIsRow DEF TypeOK
  <2>2. absent' \subseteq Id
    BY <1>2, <1>4 DEF TypeOK
  <2>. QED  BY <1>1, <2>1, <2>2 DEF TypeOK, Syncing, app
<1>6. VersionsAreCounted'
  BY <1>1, <1>2, <1>3 DEF VersionsAreCounted, TypeOK, Version
<1>7. PendingIsOld'
  <2>1. SUFFICES ASSUME NEW f \in pending
                 PROVE  /\ f.time > 0 /\ f.time <= changes'
                        /\ Syncing /\ f.id \in Items(app)
                        /\ f.id \in Present(app)' => f.time <= remote'[app][f.id]
    BY <1>1 DEF PendingIsOld, Syncing, app, Items
  <2>2. /\ f.time > 0 /\ f.time <= changes /\ Syncing /\ f.id \in Items(app)
        /\ f.id \in Id /\ f.time \in Nat /\ app \in App
        /\ f.id \in Present(app) => f.time <= remote[app][f.id]
    <3>1. f.id \in Id /\ f.time \in Nat
      BY DEF TypeOK, File, Version
    <3>2. at \in 0..Len(Apps)
      BY DEF TypeOK
    <3>3. Syncing => app \in App
      BY <3>2, CurrentApp DEF Syncing, app
    <3>. QED  BY <3>1, <3>3 DEF PendingIsOld
  <2>3. app' = app
    BY <1>1 DEF app
  <2>4. f.id \in Present(app)' => f.time <= remote'[app][f.id]
    <3>1. CASE app = a /\ f.id = i
      BY <3>1, <1>1, <1>2, <1>3, <2>2, <2>3 DEF Present, TypeOK
    <3>2. CASE ~(app = a /\ f.id = i)
      BY <3>2, <1>2, <1>3, <2>2, <2>3 DEF Present, TypeOK
    <3>. QED  BY <3>1, <3>2
  <2>. QED  BY <1>1, <2>2, <2>4
<1>8. MissingIsAbsent'
  <2>1. SUFFICES ASSUME Syncing, NEW j \in Items(app), j \in Id, app \in App, remote'[app][j] = 0
                 PROVE  j \in absent'
    <3>1. at \in 0..Len(Apps) /\ UNCHANGED <<at, page>>
      BY <1>1 DEF TypeOK
    <3>2. Syncing => app \in App /\ Items(app) \subseteq Id
      BY <3>1, CurrentApp, PagesListItems DEF Syncing, app
    <3>3. app' = app /\ Syncing' = Syncing /\ Items(app)' = Items(app)
      BY <3>1 DEF app, Syncing, Items
    <3>4. Present(app)' = {j \in Id : remote'[app][j] # 0}
      BY <3>3 DEF Present
    <3>. QED  BY <3>2, <3>3, <3>4 DEF MissingIsAbsent
  <2>2. CASE remote[app][j] = 0
    BY <2>1, <2>2, <1>4 DEF MissingIsAbsent, Present
  <2>3. CASE remote[app][j] # 0
    BY <2>1, <2>3, <1>2, <1>3, <1>4 DEF TypeOK
  <2>. QED  BY <2>2, <2>3
<1>9. PassedPagesAreListed'
  BY <1>1, <1>4 DEF PassedPagesAreListed, Syncing, app
<1>. QED  BY <1>1, <1>5, <1>6, <1>7, <1>8, <1>9, ShrunkRowsAreRight DEF RowsShrink, TypeOK

\* The commands of the user.
LEMMA CommandsKeepIInv ==
  ASSUME IInv, SaveApps \/ \E a \in App : EnableOrDisable(a) \/ ResetApp(a) PROVE IInv'
<1>. USE DEF IInv
<1>1. /\ UNCHANGED <<remote, apps, at, page, remoteIDs, pending, changes, faults, absent>>
      /\ off' \subseteq App /\ config' \subseteq App /\ manage' \subseteq SUBSET App
  BY DEF EnableOrDisable, ResetApp, SaveApps, local, TypeOK
<1>2. RowsShrink
  <2>1. CASE UNCHANGED rows
    BY <2>1 DEF RowsShrink, TypeOK
  <2>2. CASE \E a \in App : rows' = [rows EXCEPT ![a] = [i \in Id |-> NoRow]]
    BY <2>2, NoRowIsRow DEF RowsShrink, TypeOK
  <2>. QED  BY <2>1, <2>2 DEF EnableOrDisable, ResetApp, SaveApps
<1>3. TypeOK'
  BY <1>1, <1>2 DEF TypeOK, RowsShrink, Syncing, app
<1>4. PendingIsOld' /\ VersionsAreCounted' /\ MissingIsAbsent' /\ PassedPagesAreListed'
  BY <1>1 DEF PendingIsOld, VersionsAreCounted, MissingIsAbsent, PassedPagesAreListed,
              Syncing, app, Items, Present
<1>. QED  BY <1>2, <1>3, <1>4, ShrunkRowsAreRight

LEMMA NextKeepsIInv == IInv /\ [Next]_vars => IInv'
<1>. SUFFICES ASSUME IInv, [Next]_vars PROVE IInv'
  OBVIOUS
<1>1. CASE StartPoll \/ ListOfListsFails \/ DeleteOrphans \/ Die
  BY <1>1, FreshStepsKeepIInv
<1>2. CASE ListPage
  BY <1>2, ListPageKeepsIInv
<1>3. CASE LookAtItem
  BY <1>3, LookAtItemKeepsIInv
<1>4. CASE PageFails
  BY <1>4, PageFailsKeepsIInv
<1>5. ASSUME NEW a \in App, NEW i \in Items(a), ChangeRemote(a, i) PROVE IInv'
  BY <1>5, ChangeRemoteKeepsIInv
<1>6. ASSUME NEW a \in App, EnableOrDisable(a) \/ ResetApp(a) PROVE IInv'
  BY <1>6, CommandsKeepIInv
<1>7. CASE SaveApps
  BY <1>7, CommandsKeepIInv
<1>8. CASE UNCHANGED vars
  BY <1>8 DEF vars, local, IInv, TypeOK, ContentAsNewAsTime, PendingIsOld,
       VersionsAreCounted, RowsAreOfItems, MissingIsAbsent, PassedPagesAreListed,
       Syncing, app, Items, Present, Stored
<1>. QED  BY <1>1, <1>2, <1>3, <1>4, <1>5, <1>6, <1>7, <1>8 DEF Next, Poll

THEOREM Invariance == Spec => []IInv
BY InitIInv, NextKeepsIInv, PTL DEF Spec

-----------------------------------------------------------------------------
(* What follows.                                                           *)

\* The state of the poll and of gsuite.db has its type.
THEOREM TypeCorrect == Spec => []TypeOK
BY Invariance, PTL DEF IInv

\* No row is stored with a modification time newer than what it holds, whatever
\* happens between the listing and the fetch.
THEOREM ContentIsNeverOlder == Spec => []ContentAsNewAsTime
BY Invariance, PTL DEF IInv

\* An app that gives up its sync when a page cannot be listed deletes only rows
\* of items that were missing at some time of that sync.
THEOREM LiveItemsAreKept == Spec => OnlyGoneItemsAreDeleted
<1>. DEFINE DeletesOnlyGone ==
       \A a \in App : a \notin Lists /\ manage' = manage => Deleted(a) \subseteq absent
<1>1. IInv /\ [Next]_vars => [DeletesOnlyGone]_vars
  <2>. SUFFICES ASSUME IInv, Next, NEW a \in App, a \notin Lists, manage' = manage,
                       NEW i \in Stored(a), rows'[a][i] = NoRow
                PROVE  i \in absent
    BY DEF Deleted
  <2>. USE DEF IInv
  <2>1. i \in Id /\ rows[a][i] # NoRow
    BY DEF Stored
  <2>2. rows' # rows
    BY <2>1
  <2>3. CASE DeleteOrphans
    <3>1. a = app /\ i \notin remoteIDs
      BY <2>1, <2>3 DEF DeleteOrphans, TypeOK
    <3>2. Syncing /\ page > Len(Pages[app])
      BY <2>3 DEF DeleteOrphans
    <3>3. PICK p \in DOMAIN Pages[app] : i \in Pages[app][p].ids
      BY <3>1 DEF RowsAreOfItems, Items
    <3>4. p < page
      BY <3>1, <3>2, PagesListItems DEF TypeOK
    <3>. QED  BY <3>1, <3>2, <3>3, <3>4 DEF PassedPagesAreListed
  <2>4. CASE LookAtItem
    <3>1. PICK f \in pending : Store(f)
      BY <2>2, <2>4 DEF LookAtItem, Skip, Miss
    <3>2. rows' = [rows EXCEPT ![app][f.id] = RecordOf(f)] /\ app \in App /\ f.time > 0
      BY <3>1, CurrentApp DEF Store, PendingIsOld, TypeOK, Syncing, app
    <3>3. RecordOf(f) # NoRow
      BY <3>2 DEF RecordOf, NoRow, TypeOK, File, Version
    <3>. QED  BY <2>1, <3>2, <3>3 DEF TypeOK
  <2>5. CASE \E b \in App : ResetApp(b)
    BY <2>5 DEF ResetApp
  <2>. QED
    BY <2>2, <2>3, <2>4, <2>5
       DEF Next, Poll, StartPoll, ListPage, ListOfListsFails, PageFails, Die,
           ChangeRemote, EnableOrDisable, SaveApps
<1>. QED  BY <1>1, Invariance, PTL DEF Spec, OnlyGoneItemsAreDeleted

-----------------------------------------------------------------------------
(* The apps that are off.                                                  *)

\* An app that is off is not enabled, and the running poll does not have it.
OffIsOut ==
  /\ off \cap config = {} /\ off \cap apps = {}
  /\ Syncing => app \in apps

LEMMA GoOnKeepsOffIsOut ==
  ASSUME OffIsOut, NEW s, GoOnWith(s) \/ EndPoll, UNCHANGED config,
         s = IF Syncing THEN apps ELSE config
  PROVE  OffIsOut'
<1>1. CASE EndPoll
  BY <1>1 DEF EndPoll, OffIsOut, Syncing
<1>2. CASE GoOnWith(s) /\ ~EndPoll
  <2>1. PICK k \in Later(s) :
          apps' = s /\ at' = k /\ off' = IF Syncing THEN off ELSE App \ config
    BY <1>2 DEF GoOnWith
  <2>2. Apps[k] \in s
    BY <2>1 DEF Later
  <2>. QED  BY <2>1, <2>2 DEF OffIsOut, app
<1>. QED  BY <1>1, <1>2

LEMMA NextKeepsOffIsOut == TypeOK /\ OffIsOut /\ [Next]_vars => OffIsOut'
<1>. SUFFICES ASSUME TypeOK, OffIsOut, [Next]_vars PROVE OffIsOut'
  OBVIOUS
<1>1. CASE StartPoll
  BY <1>1, GoOnKeepsOffIsOut DEF StartPoll
<1>2. ASSUME Syncing, GoOnWith(apps) \/ EndPoll, UNCHANGED config PROVE OffIsOut'
  BY <1>2, GoOnKeepsOffIsOut
<1>3. CASE ListOfListsFails \/ DeleteOrphans \/ Die
  BY <1>2, <1>3 DEF ListOfListsFails, AtPage, DeleteOrphans, Die
<1>4. CASE PageFails
  BY <1>2, <1>4 DEF PageFails, AtPage, OffIsOut, Syncing, app
<1>5. ASSUME UNCHANGED <<config, apps, at, off>> PROVE OffIsOut'
  BY <1>5 DEF OffIsOut, Syncing, app
<1>6. CASE ListPage \/ LookAtItem \/ UNCHANGED vars
  BY <1>5, <1>6 DEF ListPage, LookAtItem, Skip, Store, Miss, vars, local
<1>7. ASSUME NEW a \in App, ResetApp(a) \/ \E i \in Items(a) : ChangeRemote(a, i)
      PROVE  OffIsOut'
  BY <1>5, <1>7 DEF ResetApp, ChangeRemote, local
<1>8. ASSUME SaveApps \/ \E a \in App : EnableOrDisable(a) PROVE OffIsOut'
  <2>1. off' = off \ config' /\ UNCHANGED <<apps, at>>
    BY <1>8 DEF SaveApps, EnableOrDisable, local
  <2>. QED  BY <2>1 DEF OffIsOut, Syncing, app
<1>. QED  BY <1>1, <1>3, <1>4, <1>6, <1>7, <1>8 DEF Next, Poll

\* While a poll runs that started without a disabled app, nothing touches the
\* rows of that app unless it is enabled again.
THEOREM DisabledAppsRest == Spec => DisabledAppIsLeftAlone
<1>. DEFINE Rest == \A a \in off : rows'[a] = rows[a]
<1>1. Init => OffIsOut
  BY DEF Init, OffIsOut, Syncing
<1>2. TypeOK /\ OffIsOut /\ [Next]_vars => [Rest]_vars
  <2>. SUFFICES ASSUME TypeOK, OffIsOut, Next, NEW a \in off PROVE rows'[a] = rows[a]
    OBVIOUS
  <2>1. a \in App /\ a \notin config /\ (Syncing => app \in App /\ a # app)
    BY CurrentApp DEF TypeOK, OffIsOut, Syncing, app
  <2>2. CASE LookAtItem \/ DeleteOrphans
    BY <2>1, <2>2 DEF LookAtItem, Skip, Store, Miss, DeleteOrphans, TypeOK
  <2>3. CASE \E b \in App : ResetApp(b)
    BY <2>1, <2>3 DEF ResetApp, TypeOK
  <2>. QED
    BY <2>2, <2>3 DEF Next, Poll, StartPoll, ListPage, ListOfListsFails, PageFails, Die,
                      ChangeRemote, EnableOrDisable, SaveApps
<1>. QED  BY <1>1, <1>2, NextKeepsOffIsOut, TypeCorrect, PTL DEF Spec, DisabledAppIsLeftAlone
=============================================================================
