----------------------------- MODULE WhatsAppStore -----------------------------
(***************************************************************************)
(* How the WhatsApp source fills the tables chats and messages of          *)
(* messages.db.  whatsmeow calls its event handler for live messages and   *)
(* for history syncs on goroutines of their own, so a message and a sync   *)
(* may be handled at the same time; both read the name of the chat, ask    *)
(* WhatsApp for a better one, write the chat's row and then the messages.  *)
(* No statement is repeated when it fails, and what the handlers have not  *)
(* written when the client stops is not written at all.  The participants  *)
(* of groups, which nothing here reads, are in WhatsAppClient.             *)
(*                                                                         *)
(* A name is real or a placeholder (a phone number, "Group 123", "(...)"); *)
(* the words of a message are a code when Looks2FA says so, and text when   *)
(* it has only media.                                                      *)
(***************************************************************************)
EXTENDS Naturals, Sequences

CONSTANTS
  Chat,          \* chats
  NoOne,         \* no chat
  Message,       \* what may be said: [id, chat, time]
  MaxSync,       \* bound on conversations of history syncs
  MaxFault       \* bound on failed statements and stops of the client

ASSUME ChatAssumption == NoOne \notin Chat
ASSUME MessageAssumption ==
  \A m \in Message : m.chat \in Chat /\ m.time \in Nat \ {0}
ASSUME BoundAssumption == MaxSync \in Nat /\ MaxFault \in Nat

VARIABLES
  chats,         \* table chats: name and last_message_time
  words,         \* table messages: the content of every message; "" without a row
  fts,           \* messages_fts: [row, words], but for entries of rowids without a row
  pc,            \* of the handlers: live messages, history sync
  chat,          \* the chat each of them is at
  todo,          \* the messages it still has to store, newest first
  name,          \* the name it has read, and then resolved
  syncs, faults, \* so far
  sawReal,       \* history: handlers that looked when their chat had a real name
  spoilt         \* history: chats whose row and newest message may not agree

handler == <<pc, chat, todo, name, sawReal>>
tables == <<chats, words, fts>>
vars == <<tables, handler, syncs, faults, spoilt>>

Handler == {"live", "sync"}
Name == {"none", "placeholder", "real"}
NoChat == [name |-> "none", time |-> 0]
Word == {"text", "code"}
Redacted == "redacted"
Heard == [msg : Message, words : Word \cup {""}, timed : BOOLEAN]

Stored == {m \in Message : words[m] # ""}
Busy(c) == {h \in Handler : pc[h] # "idle" /\ chat[h] = c}

TypeOK ==
  /\ chats \in [Chat -> [name : Name, time : Nat]]
  /\ words \in [Message -> {"", "text", Redacted}]
  /\ fts \subseteq [row : Message, words : {"text", Redacted}]
  /\ pc \in [Handler -> {"idle", "reading", "asking", "chat", "messages"}]
  /\ chat \in [Handler -> Chat \cup {NoOne}] /\ name \in [Handler -> Name]
  /\ \A h \in Handler :
       /\ todo[h] \in Seq({e \in Heard : e.msg.chat = chat[h]})
       /\ pc[h] \in {"chat", "messages"} => todo[h] # <<>> /\ name[h] # "none"
  /\ DOMAIN todo = Handler
  /\ syncs \in 0..MaxSync /\ faults \in 0..MaxFault
  /\ sawReal \subseteq Handler /\ spoilt \subseteq Chat

Init ==
  /\ chats = [c \in Chat |-> NoChat] /\ words = [m \in Message |-> ""] /\ fts = {}
  /\ pc = [h \in Handler |-> "idle"] /\ chat = [h \in Handler |-> NoOne]
  /\ todo = [h \in Handler |-> <<>>] /\ name = [h \in Handler |-> "none"]
  /\ syncs = 0 /\ faults = 0 /\ sawReal = {} /\ spoilt = {}

Fault == faults < MaxFault /\ faults' = faults + 1

-----------------------------------------------------------------------------
(* A handler.                                                              *)

\* handleMessage drops a message without words or media before anything else.
ReceiveMessage(m, w) ==
  /\ pc["live"] = "idle"
  /\ pc' = [pc EXCEPT !["live"] = "reading"]
  /\ chat' = [chat EXCEPT !["live"] = m.chat]
  /\ todo' = [todo EXCEPT !["live"] = <<[msg |-> m, words |-> w, timed |-> TRUE]>>]
  /\ UNCHANGED <<tables, name, sawReal, syncs, faults, spoilt>>

\* What a conversation of a history sync holds: messages of the chat, newest
\* first, some of them without words, media or a timestamp.
Conversations(c) ==
  {s \in UNION {[1..n -> {e \in Heard : e.msg.chat = c}] : n \in 0..2} :
     \A k \in 2..Len(s) : s[k].msg.time < s[k - 1].msg.time}

\* handleHistorySync, one conversation.
ReceiveConversation(c, s) ==
  /\ pc["sync"] = "idle" /\ syncs < MaxSync /\ syncs' = syncs + 1
  /\ pc' = [pc EXCEPT !["sync"] = "reading"]
  /\ chat' = [chat EXCEPT !["sync"] = c]
  /\ todo' = [todo EXCEPT !["sync"] = s]
  /\ UNCHANGED <<tables, name, sawReal, faults, spoilt>>

Finish(h) ==
  /\ pc' = [pc EXCEPT ![h] = "idle"] /\ chat' = [chat EXCEPT ![h] = NoOne]
  /\ todo' = [todo EXCEPT ![h] = <<>>] /\ name' = [name EXCEPT ![h] = "none"]
  /\ sawReal' = sawReal \ {h}

Goto(h, place) ==
  /\ pc' = [pc EXCEPT ![h] = place]
  /\ UNCHANGED <<chat, todo>>

\* With the name n; a conversation without messages ends here.
HaveName(h, n) ==
  IF todo[h] = <<>> THEN Finish(h)
  ELSE /\ name' = [name EXCEPT ![h] = n] /\ Goto(h, "chat") /\ UNCHANGED sawReal

\* Mutant of ReadName: a real name is looked for again.
ReadNameAndAsk(h) ==
  /\ pc[h] = "reading"
  /\ sawReal' = IF chats[chat[h]].name = "real" THEN sawReal \cup {h} ELSE sawReal
  /\ name' = [name EXCEPT ![h] = chats[chat[h]].name]
  /\ Goto(h, "asking")
  /\ UNCHANGED <<tables, syncs, faults, spoilt>>

\* GetChatName starts with the name in the chat's row and keeps a real one.  An
\* error is taken for a chat without a row.
ReadName(h) ==
  /\ pc[h] = "reading"
  /\ \/ /\ chats[chat[h]].name = "real" /\ UNCHANGED faults
        /\ IF todo[h] = <<>> THEN Finish(h)
           ELSE /\ name' = [name EXCEPT ![h] = "real"] /\ Goto(h, "chat")
                /\ sawReal' = sawReal \cup {h}
     \/ /\ chats[chat[h]].name # "real" /\ UNCHANGED <<sawReal, faults>>
        /\ name' = [name EXCEPT ![h] = chats[chat[h]].name] /\ Goto(h, "asking")
     \/ /\ Fault /\ UNCHANGED <<name, sawReal>> /\ Goto(h, "asking")
  /\ UNCHANGED <<tables, syncs, spoilt>>

\* It asks WhatsApp's servers or the contacts for a name, and writes a real one
\* over a placeholder it has read, without looking again.
Ask(h) ==
  /\ pc[h] = "asking"
  /\ \E n \in {"placeholder", "real"} :
       /\ HaveName(h, n)
       /\ IF name[h] = "placeholder" /\ n = "real"
            THEN \/ /\ chats' = [chats EXCEPT ![chat[h]].name = "real"]
                    /\ UNCHANGED faults
                 \/ Fault /\ UNCHANGED chats
            ELSE UNCHANGED <<chats, faults>>
  /\ UNCHANGED <<words, fts, syncs, spoilt>>

\* Mutant of StoreChat: an UPDATE, which does nothing for a chat without a row.
UpdateChat(h) ==
  /\ pc[h] = "chat"
  /\ chats' = IF chats[chat[h]] = NoChat THEN chats
              ELSE [chats EXCEPT ![chat[h]] =
                      [name |-> name[h], time |-> Head(todo[h]).msg.time]]
  /\ Goto(h, "messages")
  /\ UNCHANGED <<words, fts, name, sawReal, syncs, faults, spoilt>>

\* Mutant of StoreChat: the time of the oldest message of the conversation.
StoreChatOfOldest(h) ==
  /\ pc[h] = "chat" /\ Goto(h, "messages")
  /\ chats' = [chats EXCEPT ![chat[h]] =
                 [name |-> name[h], time |-> todo[h][Len(todo[h])].msg.time]]
  /\ spoilt' = IF Head(todo[h]).words = "" THEN spoilt \cup {chat[h]}
               ELSE spoilt \ {chat[h]}
  /\ UNCHANGED <<words, fts, name, sawReal, syncs, faults>>

\* INSERT OR REPLACE of the chat with the time of the newest message, whether or
\* not that message is stored; its error is ignored.  A sync leaves out the whole
\* conversation when that message has no timestamp.
StoreChat(h) ==
  /\ pc[h] = "chat"
  /\ \/ /\ ~Head(todo[h]).timed
        /\ Finish(h) /\ UNCHANGED <<chats, faults, spoilt>>
     \/ /\ Head(todo[h]).timed
        /\ Goto(h, "messages") /\ UNCHANGED <<name, sawReal>>
        /\ \/ /\ chats' = [chats EXCEPT ![chat[h]] =
                             [name |-> name[h], time |-> Head(todo[h]).msg.time]]
              /\ spoilt' = IF Head(todo[h]).words = "" THEN spoilt \cup {chat[h]}
                           ELSE spoilt \ {chat[h]}
              /\ UNCHANGED faults
           \/ Fault /\ UNCHANGED <<chats, spoilt>>
  /\ UNCHANGED <<words, fts, syncs>>

\* StoreMessage's content: a message that looks like a code is not kept.
Kept(w) == IF w = "code" THEN Redacted ELSE w

\* INSERT OR REPLACE gives the row a rowid that no row has had.  It fires the
\* insert trigger but not the delete trigger, so the entry of the replaced row
\* stays in the index with a rowid that joins to nothing.
Insert(m, w) ==
  /\ words' = [words EXCEPT ![m] = w]
  /\ fts' = {e \in fts : e.row # m} \cup {[row |-> m, words |-> w]}

Skipped(e) == e.words = "" \/ ~e.timed

\* The next message: skipped, refused because its chat has no row (foreign
\* key), failed, or stored.
StoreMessage(h) ==
  /\ pc[h] = "messages"
  /\ LET e == Head(todo[h]) IN
     /\ \/ /\ Skipped(e)
           /\ UNCHANGED <<words, fts, faults, spoilt>>
        \/ /\ ~Skipped(e) /\ chats[chat[h]] # NoChat
           /\ Insert(e.msg, Kept(e.words))
           /\ UNCHANGED <<faults, spoilt>>
        \/ /\ ~Skipped(e)
           /\ IF chats[chat[h]] = NoChat THEN UNCHANGED faults ELSE Fault
           /\ spoilt' = spoilt \cup {chat[h]}
           /\ UNCHANGED <<words, fts>>
     /\ IF Len(todo[h]) = 1 THEN Finish(h)
        ELSE /\ todo' = [todo EXCEPT ![h] = Tail(@)]
             /\ UNCHANGED <<pc, chat, name, sawReal>>
  /\ UNCHANGED <<chats, syncs>>

-----------------------------------------------------------------------------
(* The store itself.                                                       *)

\* NewMessageStore, in any process: the query that asks whether the index is
\* empty is always refused (MATCH '*'), so the index is built from the messages.
OpenStore ==
  /\ Stored # {}
  /\ fts' = {[row |-> m, words |-> words[m]] : m \in Stored}
  /\ UNCHANGED <<chats, words, handler, syncs, faults, spoilt>>

\* StartCore returns, or the daemon dies: the store is closed, and every further
\* statement of what is in progress fails.
StopCore ==
  /\ \E h \in Handler : pc[h] # "idle"
  /\ Fault
  /\ pc' = [h \in Handler |-> "idle"] /\ chat' = [h \in Handler |-> NoOne]
  /\ todo' = [h \in Handler |-> <<>>] /\ name' = [h \in Handler |-> "none"]
  /\ sawReal' = {}
  /\ spoilt' = spoilt \cup {chat[h] : h \in {x \in Handler : pc[x] = "messages"}}
  /\ UNCHANGED <<tables, syncs>>

HandlerStep(h) == ReadName(h) \/ Ask(h) \/ StoreChat(h) \/ StoreMessage(h)

Next ==
  \/ \E m \in Message, w \in Word : ReceiveMessage(m, w)
  \/ \E c \in Chat : \E s \in Conversations(c) : ReceiveConversation(c, s)
  \/ \E h \in Handler : HandlerStep(h)
  \/ OpenStore \/ StopCore

Spec == Init /\ [][Next]_vars

-----------------------------------------------------------------------------
(* Properties.                                                             *)

\* A message only goes without a row when something failed: when it is its turn
\* its chat has a row, as the foreign key demands; and a search for words leads
\* to the stored messages that hold them now, and to no other (store.go:36-62,
\* store_init.go:58-77, service.go:186-245).
StoredMessagesAreFound ==
  /\ \A h \in Handler :
       pc[h] = "messages" /\ chats[chat[h]] = NoChat => faults > 0
  /\ \A m \in Message :
       {e.words : e \in {x \in fts : x.row = m}} = {words[m]} \ {""}

\* The newest message of a chat, which list_chats and get_chat look up by the
\* time in the chat's row, is there or about to be stored, except in chats
\* where a store failed, was cut off or had nothing to store (daemon.go:325-415).
ChatShowsItsLastMessage ==
  \A c \in Chat : chats[c] # NoChat /\ c \notin spoilt =>
    \/ \E m \in Stored : m.chat = c /\ m.time = chats[c].time
    \/ \E h \in Busy(c) :
         pc[h] = "messages" /\ Head(todo[h]).msg.time = chats[c].time

\* A real name is only lost to a handler that looked before the row had it, or
\* whose look failed: over a name it has seen a handler never writes a
\* placeholder, in whichever order it, the other handler and WhatsApp's answers
\* come (daemon.go:202, 224-298).
RealNameIsOnlyLostToStaleRead ==
  [][\A c \in Chat : chats[c].name = "real" /\ chats'[c].name # "real" =>
       \E h \in Busy(c) : pc[h] = "chat" /\ h \notin sawReal]_vars
=============================================================================
