----------------------------- MODULE WhatsAppClient ----------------------------
(***************************************************************************)
(* The WhatsApp client of the core daemon: its instances (one for every    *)
(* StartCore in the life of the daemon's process), the one connection that *)
(* WhatsApp keeps for a paired device, the REST server through which the   *)
(* MCP server sends, and the goroutines that refresh the participants of a *)
(* group.  An instance that has ended has closed its message store.        *)
(*                                                                         *)
(* Two things outlive an instance: the REST server, which nothing shuts    *)
(* down, and the client of an instance that did not find itself connected  *)
(* two seconds after it had connected, which nothing disconnects.          *)
(***************************************************************************)
EXTENDS Naturals

CONSTANTS
  MaxCore,       \* bound on the instances in the life of the process
  Call,          \* sends that the MCP server may ask for
  MaxRefresh,    \* bound on the participant refreshes in progress
  MaxChange,     \* bound on the versions of the group's membership
  MaxFailure     \* bound on failed calls, lost connections and history syncs

ASSUME ClientAssumption ==
  /\ MaxCore \in Nat \ {0} /\ MaxRefresh \in Nat
  /\ MaxChange \in Nat /\ MaxFailure \in Nat

VARIABLES
  core,          \* where each instance is
  cancelled,     \* instances whose context is cancelled, or that were logged out
  client,        \* is the instance's client to connect again when it loses the connection?
  stream,        \* the instance that has the device's connection, or 0
  listen,        \* instances whose ListenAndServe has yet to run
  port,          \* the instance whose REST server has the port, or 0
  left,          \* history: instances that ended without disconnecting their client
  answer,        \* of every call, on the MCP server's side
  server,        \* of every call, in the REST server: [at, core]
  sent,          \* WhatsApp's side: how often the message of the call was taken
  refresh,       \* goroutines of handleMessage: [core, version]
  participants,  \* table group_participants, of one group: the version stored
  membership,    \* WhatsApp's side: the version of the group's membership
  failures       \* so far

coreVars == <<core, cancelled, client, stream, listen, port, left>>
callVars == <<answer, server, sent>>
groupVars == <<refresh, participants, membership>>
clientVars == <<coreVars, callVars, groupVars, failures>>

Core == 1..MaxCore
Version == 0..MaxChange
Unfetched == MaxChange + 1
Free == [core |-> 0, version |-> 0]

Open(i) == core[i] \in {"connecting", "settling", "serving"}

ClientTypeOK ==
  /\ core \in [Core -> {"none", "connecting", "settling", "serving", "ended"}]
  /\ cancelled \subseteq Core /\ client \in [Core -> BOOLEAN]
  /\ stream \in 0..MaxCore /\ listen \subseteq Core /\ port \in 0..MaxCore
  /\ left \subseteq Core
  /\ answer \in [Call -> {"none", "waiting", "ok", "failed", "refused", "gone"}]
  /\ server \in [Call -> [at : {"none", "checking", "sending", "ok", "failed", "refused"},
                          core : 0..MaxCore]]
  /\ sent \in [Call -> Nat]
  /\ refresh \in [1..MaxRefresh -> [core : 0..MaxCore, version : 0..Unfetched]]
  /\ participants \in Version /\ membership \in Version /\ failures \in 0..MaxFailure
  /\ stream # 0 => client[stream]

ClientInit ==
  /\ core = [i \in Core |-> "none"] /\ cancelled = {}
  /\ client = [i \in Core |-> FALSE] /\ stream = 0 /\ listen = {} /\ port = 0 /\ left = {}
  /\ answer = [c \in Call |-> "none"] /\ sent = [c \in Call |-> 0]
  /\ server = [c \in Call |-> [at |-> "none", core |-> 0]]
  /\ refresh = [k \in 1..MaxRefresh |-> Free]
  /\ participants = 0 /\ membership = 0 /\ failures = 0

Failure == failures < MaxFailure /\ failures' = failures + 1

-----------------------------------------------------------------------------
(* An instance.                                                            *)

\* Mutant of StartCore: beside the one that runs.
StartCoreBeside(i) ==
  /\ core[i] = "none"
  /\ core' = [core EXCEPT ![i] = "connecting"]
  /\ UNCHANGED <<cancelled, client, stream, listen, port, left, callVars, groupVars, failures>>

\* The daemon starts the next one when the last has ended or was cancelled,
\* whether or not it has noticed.
StartCore(i) ==
  /\ core[i] = "none"
  /\ \A j \in 1..(i - 1) : core[j] = "ended" \/ j \in cancelled
  /\ core' = [core EXCEPT ![i] = "connecting"]
  /\ UNCHANGED <<cancelled, client, stream, listen, port, left, callVars, groupVars, failures>>

\* WhatsApp keeps one connection of a device: whoever had it is told that it was
\* replaced, and its client does not connect again.
Take(i) ==
  /\ stream' = i
  /\ client' = [j \in Core |-> j = i \/ (client[j] /\ j # stream)]

Connect(i) ==
  /\ core[i] = "connecting"
  /\ \/ /\ core' = [core EXCEPT ![i] = "settling"]
        /\ Take(i) /\ UNCHANGED failures
     \/ /\ core' = [core EXCEPT ![i] = "ended"]
        /\ Failure /\ UNCHANGED <<stream, client>>
  /\ UNCHANGED <<cancelled, listen, port, left, callVars, groupVars>>

\* After two seconds: without a connection StartCore returns, and leaves its client
\* to connect again; with one it starts the REST server.
Settle(i) ==
  /\ core[i] = "settling"
  /\ IF stream = i
       THEN /\ core' = [core EXCEPT ![i] = "serving"]
            /\ listen' = listen \cup {i} /\ UNCHANGED left
       ELSE /\ core' = [core EXCEPT ![i] = "ended"]
            /\ left' = left \cup {i} /\ UNCHANGED listen
  /\ UNCHANGED <<cancelled, client, stream, port, callVars, groupVars, failures>>

\* ListenAndServe on a goroutine of its own: an error when the port is taken.
Listen(i) ==
  /\ i \in listen /\ listen' = listen \ {i}
  /\ port' = IF port = 0 THEN i ELSE port
  /\ UNCHANGED <<core, cancelled, client, stream, left, callVars, groupVars, failures>>

\* The user disables the source, the daemon ends, or the device was logged out.
Cancel(i) ==
  /\ Open(i) /\ i \notin cancelled /\ cancelled' = cancelled \cup {i}
  /\ UNCHANGED <<core, client, stream, listen, port, left, callVars, groupVars, failures>>

\* Mutant of Stop: the client is left alone.
StopWithoutDisconnect(i) ==
  /\ core[i] = "serving" /\ i \in cancelled
  /\ core' = [core EXCEPT ![i] = "ended"]
  /\ UNCHANGED <<cancelled, client, stream, listen, port, left, callVars, groupVars, failures>>

\* StartCore's select: disconnect, return, and close the message store.
Stop(i) ==
  /\ core[i] = "serving" /\ i \in cancelled
  /\ core' = [core EXCEPT ![i] = "ended"]
  /\ client' = [client EXCEPT ![i] = FALSE]
  /\ stream' = IF stream = i THEN 0 ELSE stream
  /\ UNCHANGED <<cancelled, listen, port, left, callVars, groupVars, failures>>

LoseConnection ==
  /\ stream # 0 /\ stream' = 0 /\ Failure
  /\ UNCHANGED <<core, cancelled, client, listen, port, left, callVars, groupVars>>

\* whatsmeow's client connects again by itself.
Reconnect(i) ==
  /\ client[i] /\ stream # i /\ Take(i)
  /\ UNCHANGED <<core, cancelled, listen, port, left, callVars, groupVars, failures>>

-----------------------------------------------------------------------------
(* A send of the MCP server.                                               *)

Post(c) ==
  /\ answer[c] = "none"
  /\ answer' = [answer EXCEPT ![c] = "waiting"]
  /\ UNCHANGED <<coreVars, server, sent, groupVars, failures>>

\* The server that has the port takes the request, or nobody does.
Accept(c) ==
  /\ answer[c] = "waiting" /\ server[c].at = "none"
  /\ IF port = 0
       THEN answer' = [answer EXCEPT ![c] = "refused"] /\ UNCHANGED server
       ELSE /\ server' = [server EXCEPT ![c] = [at |-> "checking", core |-> port]]
            /\ UNCHANGED answer
  /\ UNCHANGED <<coreVars, sent, groupVars, failures>>

\* sendWhatsAppMessage refuses without a connection of its own client, a bad
\* recipient, or a file it cannot read, convert or upload.
Check(c) ==
  /\ server[c].at = "checking"
  /\ \E at \in {"sending", "refused"} :
       /\ at = "sending" => stream = server[c].core
       /\ server' = [server EXCEPT ![c].at = at]
  /\ UNCHANGED <<coreVars, answer, sent, groupVars, failures>>

\* Mutant of Send: the error of SendMessage is ignored.
SendAnyway(c) ==
  /\ server[c].at = "sending"
  /\ \/ sent' = [sent EXCEPT ![c] = @ + 1] /\ UNCHANGED failures
     \/ sent' \in {sent, [sent EXCEPT ![c] = @ + 1]} /\ Failure
  /\ server' = [server EXCEPT ![c].at = "ok"]
  /\ UNCHANGED <<coreVars, answer, groupVars>>

\* client.SendMessage may fail before or after WhatsApp has taken the message.
Send(c) ==
  /\ server[c].at = "sending"
  /\ \/ /\ sent' = [sent EXCEPT ![c] = @ + 1]
        /\ server' = [server EXCEPT ![c].at = "ok"] /\ UNCHANGED failures
     \/ /\ sent' \in {sent, [sent EXCEPT ![c] = @ + 1]}
        /\ server' = [server EXCEPT ![c].at = "failed"] /\ Failure
  /\ UNCHANGED <<coreVars, answer, groupVars>>

\* The response, which a caller that has given up does not see.
Respond(c) ==
  /\ server[c].at \in {"ok", "failed", "refused"} /\ answer[c] = "waiting"
  /\ answer' = [answer EXCEPT ![c] = server[c].at]
  /\ UNCHANGED <<coreVars, server, sent, groupVars, failures>>

\* The HTTP client's 30 seconds; the REST server goes on.
GiveUp(c) ==
  /\ answer[c] = "waiting" /\ server[c].at # "none"
  /\ answer' = [answer EXCEPT ![c] = "gone"]
  /\ UNCHANGED <<coreVars, server, sent, groupVars, failures>>

-----------------------------------------------------------------------------
(* The participants of a group.                                            *)

\* A live message of the group, for a client whose store is open.
HearGroup(k) ==
  /\ stream # 0 /\ Open(stream) /\ refresh[k] = Free
  /\ refresh' = [refresh EXCEPT ![k] = [core |-> stream, version |-> Unfetched]]
  /\ UNCHANGED <<coreVars, callVars, participants, membership, failures>>

\* GetGroupInfo, which needs the connection.
Fetch(k) ==
  /\ refresh[k] # Free /\ refresh[k].version = Unfetched
  /\ \/ /\ stream = refresh[k].core /\ UNCHANGED failures
        /\ refresh' = [refresh EXCEPT ![k].version = membership]
     \/ /\ refresh' = [refresh EXCEPT ![k] = Free]
        /\ IF stream = refresh[k].core THEN Failure ELSE UNCHANGED failures
  /\ UNCHANGED <<coreVars, callVars, participants, membership>>

\* Mutant of StoreGroupParticipants: the transaction is not committed.
StoreUncommitted(k) ==
  /\ refresh[k] # Free /\ refresh[k].version # Unfetched
  /\ refresh' = [refresh EXCEPT ![k] = Free]
  /\ UNCHANGED <<coreVars, callVars, participants, membership, failures>>

\* In a transaction the rows of the group are deleted and those fetched inserted;
\* it fails when the store is closed.
StoreGroupParticipants(k) ==
  /\ refresh[k] # Free /\ refresh[k].version # Unfetched
  /\ refresh' = [refresh EXCEPT ![k] = Free]
  /\ \/ /\ Open(refresh[k].core) /\ participants' = refresh[k].version
        /\ UNCHANGED failures
     \/ /\ UNCHANGED participants
        /\ IF Open(refresh[k].core) THEN Failure ELSE UNCHANGED failures
  /\ UNCHANGED <<coreVars, callVars, membership>>

\* A history sync brings the participants as the phone once knew them.
SyncGroup ==
  /\ stream # 0 /\ Open(stream) /\ Failure
  /\ participants' \in 0..membership
  /\ UNCHANGED <<coreVars, callVars, refresh, membership>>

ChangeMembership ==
  /\ membership < MaxChange /\ membership' = membership + 1
  /\ UNCHANGED <<coreVars, callVars, refresh, participants, failures>>

-----------------------------------------------------------------------------

CoreStep(i) == Connect(i) \/ Settle(i) \/ Listen(i) \/ Stop(i)
CallStep(c) == Accept(c) \/ Check(c) \/ Send(c) \/ Respond(c)
RefreshStep(k) == Fetch(k) \/ StoreGroupParticipants(k)

ClientNext ==
  \/ \E i \in Core : StartCore(i) \/ CoreStep(i) \/ Cancel(i) \/ Reconnect(i)
  \/ LoseConnection
  \/ \E c \in Call : Post(c) \/ CallStep(c) \/ GiveUp(c)
  \/ \E k \in 1..MaxRefresh : HearGroup(k) \/ RefreshStep(k)
  \/ SyncGroup \/ ChangeMembership

\* Goroutines go on, whatsmeow keeps trying to connect, and the HTTP client's
\* timeout ends every wait.
Fairness ==
  /\ \A i \in Core : WF_clientVars(CoreStep(i)) /\ WF_clientVars(Reconnect(i))
  /\ \A c \in Call : WF_clientVars(CallStep(c)) /\ WF_clientVars(GiveUp(c))
  /\ \A k \in 1..MaxRefresh : WF_clientVars(RefreshStep(k))

ClientSpec == ClientInit /\ [][ClientNext]_clientVars /\ Fairness

-----------------------------------------------------------------------------
(* Properties.                                                             *)

\* A send that is reported as done was taken by WhatsApp, one that was refused
\* was not, and none is ever sent twice, although callers give up, answers are
\* lost and instances come and go (client.go:35-176, service.go:800-835).
ReportedAsSent ==
  \A c \in Call :
    /\ answer[c] = "ok" => sent[c] = 1
    /\ answer[c] = "refused" => sent[c] = 0
    /\ sent[c] <= 1

\* What WhatsApp delivers goes to a client whose store is open, unless an instance
\* has returned because it did not find itself connected after it had connected:
\* any other that has ended has let the connection go, and is not given it again
\* (daemon.go:59, 115-145).
ConnectionHasAStore ==
  stream # 0 /\ ~Open(stream) => stream \in left

\* An instance that has not been cancelled keeps its client, and with it the
\* connection it comes back to, unless the client of one that should be gone takes
\* it: one that was cancelled and has not noticed, or was left (daemon.go:115-145).
OnlyStaleClientsTakeOver ==
  [][\A i \in Core \ cancelled :
       core[i] = "serving" /\ client[i] /\ ~client'[i] =>
         stream' \in cancelled \cup left]_clientVars

\* Once the membership rests, and as long as messages of the group keep coming,
\* its participants become and stay those of the last change, although refreshes
\* overtake one another, history syncs bring old lists and instances end in
\* between (daemon.go:189-200, 316-327, store.go:145-165).
ParticipantsConverge ==
  []<><<\E k \in 1..MaxRefresh : HearGroup(k)>>_clientVars
    => <>[](participants = membership)
=============================================================================
