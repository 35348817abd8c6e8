------------------------------ MODULE WhatsAppProofs -----------------------------
(***************************************************************************)
(* Proofs about WhatsAppStore and WhatsAppClient, for any values of their  *)
(* constants.  The two have no variable in common, and every theorem is    *)
(* about one of them.                                                      *)
(*                                                                         *)
(* The store: messages find the row of their chat and are found by their   *)
(* words, the newest message of a chat is there, and a real name is only   *)
(* lost to a handler that has not seen it.                                 *)
(*                                                                         *)
(* The client: what is reported as sent was sent, the connection belongs   *)
(* to a client whose store is open or that was left, and only a stale      *)
(* client takes the connection from an instance at work.                   *)
(***************************************************************************)
EXTENDS WhatsAppStore, WhatsAppClient, SequenceTheorems, TLAPS

(*************************** WhatsAppStore ***********************************)

\* What a handler holds of a chat.
HeardIn(c) == {e \in Heard : e.msg.chat = c}

Types ==
  /\ chats \in [Chat -> [name : Name, time : Nat]]
  /\ words \in [Message -> {"", "text", Redacted}]
  /\ pc \in [Handler -> {"idle", "reading", "asking", "chat", "messages"}]
  /\ chat \in [Handler -> Chat \cup {NoOne}] /\ name \in [Handler -> Name]
  /\ todo \in [Handler -> Seq(Heard)]
  /\ faults \in Nat
HandlerOK(h) ==
  /\ pc[h] # "idle" => chat[h] \in Chat /\ todo[h] \in Seq(HeardIn(chat[h]))
  /\ pc[h] \in {"idle", "reading"} => name[h] = "none"
  /\ pc[h] \in {"chat", "messages"} => todo[h] # <<>> /\ name[h] # "none"
  /\ pc[h] = "asking" /\ name[h] = "placeholder" => chats[chat[h]] # NoChat
HandlersOK == \A h \in Handler : HandlerOK(h)

\* Once a handler has written its chat's row, there is one, or something has failed.
RowsComeFirst ==
  \A h \in Handler : pc[h] = "messages" /\ chats[chat[h]] = NoChat => faults > 0

\* The index has the words of every stored message, and no others of it.
WordsAreIn ==
  \A m \in Message : {e.words : e \in {x \in fts : x.row = m}} = {words[m]} \ {""}

\* The message whose time the chat's row has is stored, or next in turn and not skipped.
NextInTurn(h, c) ==
  /\ pc[h] = "messages" /\ chat[h] = c
  /\ Head(todo[h]).msg.time = chats[c].time /\ ~Skipped(Head(todo[h]))
NewestIsThere ==
  \A c \in Chat : chats[c] # NoChat /\ c \notin spoilt =>
    \/ \E m \in Stored : m.chat = c /\ m.time = chats[c].time
    \/ \E h \in Handler : NextInTurn(h, c)

\* A handler that has seen a real name goes on with a real name.
SeenIsKept ==
  \A h \in sawReal : h \in Handler /\ pc[h] \in {"chat", "messages"} /\ name[h] = "real"

Base == Types /\ HandlersOK
IInv == Base /\ RowsComeFirst /\ WordsAreIn /\ NewestIsThere /\ SeenIsKept

-----------------------------------------------------------------------------
(* What a handler holds.                                                   *)

\* The next message of a handler is one of its chat.
LEMMA NextIsOfTheChat ==
  ASSUME Base, NEW h \in Handler, pc[h] \in {"chat", "messages"}
  PROVE  /\ Head(todo[h]) \in HeardIn(chat[h]) /\ chat[h] \in Chat
         /\ Head(todo[h]).msg \in Message /\ Head(todo[h]).msg.chat = chat[h]
         /\ Head(todo[h]).msg.time \in Nat
         /\ Tail(todo[h]) \in Seq(HeardIn(chat[h]))
<1>1. todo[h] \in Seq(HeardIn(chat[h])) /\ todo[h] # <<>> /\ chat[h] \in Chat
  BY DEF Base, HandlersOK, HandlerOK
<1>2. Head(todo[h]) \in HeardIn(chat[h]) /\ Tail(todo[h]) \in Seq(HeardIn(chat[h]))
  BY <1>1, HeadTailProperties
<1>3. Head(todo[h]).msg \in Message /\ Head(todo[h]).msg.chat = chat[h]
  BY <1>2 DEF HeardIn, Heard
<1>. QED  BY <1>1, <1>2, <1>3, MessageAssumption

\* A handler that is done holds nothing, and the others go on.
LEMMA FinishIsClean ==
  ASSUME Types, NEW h \in Handler, Finish(h)
  PROVE  /\ pc' \in [Handler -> {"idle", "reading", "asking", "chat", "messages"}]
         /\ chat' \in [Handler -> Chat \cup {NoOne}] /\ name' \in [Handler -> Name]
         /\ todo' \in [Handler -> Seq(Heard)]
         /\ pc'[h] = "idle" /\ name'[h] = "none" /\ sawReal' = sawReal \ {h}
         /\ \A g \in Handler \ {h} :
              pc'[g] = pc[g] /\ chat'[g] = chat[g] /\ name'[g] = name[g] /\ todo'[g] = todo[g]
<1>1. <<>> \in Seq(Heard)
  OBVIOUS
<1>2. todo' = [todo EXCEPT ![h] = <<>>]
  BY DEF Finish
<1>3. todo' \in [Handler -> Seq(Heard)]
  BY <1>1, <1>2 DEF Types
<1>. QED  BY <1>3 DEF Types, Finish, Name

\* Rows of chats only come.
LEMMA RowsStay ==
  ASSUME Types, HandlersOK, [Next]_vars, NEW c \in Chat, chats[c] # NoChat
  PROVE  chats'[c] # NoChat
<1>1. ASSUME NEW h \in Handler, Ask(h)
      PROVE  chats'[c] # NoChat
  <2>1. \/ chats' = [chats EXCEPT ![chat[h]].name = "real"]
        \/ chats' = chats
    BY <1>1 DEF Ask
  <2>2. chats'[c] = chats[c] \/ chats'[c].name = "real"
    BY <2>1 DEF Types
  <2>. QED  BY <2>2 DEF NoChat
<1>2. ASSUME NEW h \in Handler, StoreChat(h)
      PROVE  chats'[c] # NoChat
  <2>1. name[h] # "none"
    BY <1>2 DEF StoreChat, HandlersOK, HandlerOK
  <2>2. \/ chats' = [chats EXCEPT ![chat[h]] = [name |-> name[h], time |-> Head(todo[h]).msg.time]]
        \/ chats' = chats
    BY <1>2 DEF StoreChat
  <2>3. chats'[c] = chats[c] \/ chats'[c].name = name[h]
    <3>1. CASE chats' = chats
      BY <3>1
    <3>2. CASE chats' = [chats EXCEPT ![chat[h]] = [name |-> name[h], time |-> Head(todo[h]).msg.time]]
      <4>1. DOMAIN chats = Chat
        BY DEF Types
      <4>2. chats'[c] = chats[c] \/ chats'[c] = [name |-> name[h], time |-> Head(todo[h]).msg.time]
        BY <3>2, <4>1, Zenon
      <4>. QED  BY <4>2
    <3>. QED  BY <2>2, <3>1, <3>2
  <2>. QED  BY <2>1, <2>3 DEF NoChat
<1>3. chats' = chats \/ \E h \in Handler : Ask(h) \/ StoreChat(h)
  BY DEF Next, HandlerStep, ReceiveMessage, ReceiveConversation, ReadName, StoreMessage,
         OpenStore, StopCore, tables, vars
<1>. QED  BY <1>1, <1>2, <1>3

\* Whatever happens to others, a handler that goes on as it is holds what it may.
LEMMA OthersAreOK ==
  ASSUME Types, HandlersOK, [Next]_vars, NEW g \in Handler,
         pc'[g] = pc[g], chat'[g] = chat[g], name'[g] = name[g], todo'[g] = todo[g]
  PROVE  HandlerOK(g)'
<1>1. HandlerOK(g)
  BY DEF HandlersOK
<1>2. pc[g] = "asking" /\ name[g] = "placeholder" => chats'[chat[g]] # NoChat
  BY <1>1, RowsStay DEF HandlerOK
<1>. QED  BY <1>1, <1>2 DEF HandlerOK, HeardIn

\* A handler that has finished holds what it may.
LEMMA FinishedIsOK ==
  ASSUME NEW h \in Handler, pc'[h] = "idle", name'[h] = "none"
  PROVE  HandlerOK(h)'
BY DEF HandlerOK

-----------------------------------------------------------------------------
(* Types, and what handlers hold.                                          *)

\* A conversation is a sequence of messages of its chat.
LEMMA ConversationsAreSeqs ==
  ASSUME NEW c, NEW s \in Conversations(c)
  PROVE  s \in Seq(HeardIn(c)) /\ s \in Seq(Heard)
<1>1. s \in UNION {[1..n -> HeardIn(c)] : n \in 0..2}
  BY DEF Conversations, HeardIn
<1>2. PICK n \in 0..2 : s \in [1..n -> HeardIn(c)]
  BY <1>1
<1>3. n \in Nat
  BY <1>2
<1>4. s \in Seq(HeardIn(c))
  BY <1>2, <1>3, SeqDef
<1>. QED  BY <1>4, SeqMonotonic DEF HeardIn

\* A handler that starts has a chat and messages of it.
LEMMA ReceiveKeepsBase ==
  ASSUME Base, [Next]_vars, NEW h \in Handler, pc[h] = "idle", NEW c \in Chat,
         NEW s \in Seq(Heard), s \in Seq(HeardIn(c)),
         pc' = [pc EXCEPT ![h] = "reading"], chat' = [chat EXCEPT ![h] = c],
         todo' = [todo EXCEPT ![h] = s],
         UNCHANGED <<chats, words, name, faults>>
  PROVE  Base'
<1>1. Types'
  BY DEF Base, Types
<1>2. HandlerOK(h)'
  BY DEF Base, Types, HandlersOK, HandlerOK, HeardIn
<1>3. \A g \in Handler \ {h} : HandlerOK(g)'
  BY OthersAreOK DEF Base, Types
<1>. QED  BY <1>1, <1>2, <1>3 DEF Base, HandlersOK

\* A handler that moves on with a name has messages to store.
LEMMA GotoKeepsBase ==
  ASSUME Base, [Next]_vars, NEW h \in Handler, pc[h] # "idle",
         NEW place \in {"asking", "chat", "messages"}, Goto(h, place),
         name' \in [Handler -> Name], \A g \in Handler \ {h} : name'[g] = name[g],
         place = "asking" /\ name'[h] = "placeholder" => chats'[chat[h]] # NoChat,
         place # "asking" => name'[h] # "none" /\ todo[h] # <<>>,
         chats' \in [Chat -> [name : Name, time : Nat]], words' = words, faults' \in Nat
  PROVE  Base'
<1>1. Types'
  BY DEF Base, Types, Goto
<1>2. HandlerOK(h)'
  BY DEF Base, Types, HandlersOK, HandlerOK, HeardIn, Goto
<1>3. \A g \in Handler \ {h} : HandlerOK(g)'
  BY OthersAreOK DEF Base, Types, Goto
<1>. QED  BY <1>1, <1>2, <1>3 DEF Base, HandlersOK

\* So has the state when a handler finishes.
LEMMA FinishKeepsBase ==
  ASSUME Base, [Next]_vars, NEW h \in Handler, Finish(h),
         chats' \in [Chat -> [name : Name, time : Nat]],
         words' \in [Message -> {"", "text", Redacted}], faults' \in Nat
  PROVE  Base'
<1>1. Types'
  BY FinishIsClean DEF Base, Types
<1>2. HandlerOK(h)'
  BY FinishIsClean, FinishedIsOK DEF Base
<1>3. \A g \in Handler \ {h} : HandlerOK(g)'
  BY OthersAreOK, FinishIsClean DEF Base
<1>. QED  BY <1>1, <1>2, <1>3 DEF Base, HandlersOK

\* Every step keeps the types and what handlers hold.
LEMMA NextKeepsBase == Base /\ [Next]_vars => Base'
<1>. SUFFICES ASSUME Base, [Next]_vars PROVE Base'
  OBVIOUS
<1>0. Types /\ HandlersOK
  BY DEF Base
<1>n. faults \in Nat
  BY <1>0 DEF Types
<1>f. Fault => faults' \in Nat
  BY <1>n DEF Fault
<1>1. ASSUME NEW m \in Message, NEW w \in Word, ReceiveMessage(m, w)
      PROVE  Base'
  <2>. DEFINE e == [msg |-> m, words |-> w, timed |-> TRUE]
              s == <<e>>
  <2>1. m.chat \in Chat
    BY MessageAssumption
  <2>e. e \in Heard /\ e \in HeardIn(m.chat)
    BY DEF Heard, HeardIn
  <2>2. s \in Seq(Heard) /\ s \in Seq(HeardIn(m.chat))
    <3>. HIDE DEF e
    <3>. QED  BY <2>e
  <2>3. "live" \in Handler
    BY DEF Handler
  <2>. HIDE DEF s
  <2>. QED  BY <1>1, <2>1, <2>2, <2>3, ReceiveKeepsBase DEF ReceiveMessage, tables, s
<1>2. ASSUME NEW c \in Chat, NEW s \in Conversations(c), ReceiveConversation(c, s)
      PROVE  Base'
  <2>1. "sync" \in Handler
    BY DEF Handler
  <2>. QED  BY <1>2, <2>1, ConversationsAreSeqs, ReceiveKeepsBase DEF ReceiveConversation, tables
<1>3. ASSUME NEW h \in Handler, ReadName(h)
      PROVE  Base'
  <2>1. chat[h] \in Chat /\ pc[h] = "reading" /\ name[h] = "none" /\ UNCHANGED <<chats, words>>
    BY <1>0, <1>3 DEF ReadName, HandlersOK, HandlerOK, tables
  <2>2. chats[chat[h]].name \in Name
    BY <1>0, <2>1 DEF Types
  <2>3. CASE Finish(h) /\ UNCHANGED faults
    BY <1>0, <2>1, <2>3, FinishKeepsBase DEF Types
  <2>4. CASE name' = [name EXCEPT ![h] = "real"] /\ Goto(h, "chat") /\ todo[h] # <<>> /\ UNCHANGED faults
    BY <1>0, <2>1, <2>4, GotoKeepsBase DEF Types, Name
  <2>5. CASE name' = [name EXCEPT ![h] = chats[chat[h]].name] /\ Goto(h, "asking") /\ UNCHANGED faults
    <3>1. name'[h] = "placeholder" => chats'[chat[h]] # NoChat
      <4>1. name'[h] = chats[chat[h]].name /\ chats' = chats
        BY <1>0, <2>1, <2>5 DEF Types
      <4>2. NoChat.name # "placeholder"
        BY DEF NoChat
      <4>. QED  BY <4>1, <4>2
    <3>. QED  BY <1>0, <2>1, <2>2, <2>5, <3>1, GotoKeepsBase DEF Types
  <2>6. CASE Fault /\ UNCHANGED name /\ Goto(h, "asking")
    BY <1>0, <1>f, <2>1, <2>6, GotoKeepsBase DEF Types
  <2>. QED  BY <1>3, <2>3, <2>4, <2>5, <2>6 DEF ReadName
<1>4. ASSUME NEW h \in Handler, Ask(h)
      PROVE  Base'
  <2>1. PICK n \in {"placeholder", "real"} : HaveName(h, n)
    BY <1>4 DEF Ask
  <2>2. pc[h] = "asking" /\ chat[h] \in Chat /\ words' = words /\ faults' \in Nat
    BY <1>0, <1>4, <1>f DEF Ask, HandlersOK, HandlerOK, Types
  <2>3. chats' = [chats EXCEPT ![chat[h]].name = "real"] \/ chats' = chats
    BY <1>4 DEF Ask
  <2>4. chats' \in [Chat -> [name : Name, time : Nat]]
    BY <1>0, <2>3 DEF Types, Name
  <2>5. CASE Finish(h)
    BY <1>0, <2>2, <2>4, <2>5, FinishKeepsBase DEF Types
  <2>6. CASE todo[h] # <<>> /\ name' = [name EXCEPT ![h] = n] /\ Goto(h, "chat")
    BY <1>0, <2>2, <2>4, <2>6, GotoKeepsBase DEF Types, Name
  <2>. QED  BY <2>1, <2>5, <2>6 DEF HaveName
<1>5. ASSUME NEW h \in Handler, StoreChat(h)
      PROVE  Base'
  <2>1. pc[h] = "chat" /\ words' = words /\ todo[h] # <<>> /\ name[h] # "none" /\ faults' \in Nat
    BY <1>0, <1>5, <1>f DEF StoreChat, HandlersOK, HandlerOK, Types
  <2>2. \/ chats' = [chats EXCEPT ![chat[h]] = [name |-> name[h], time |-> Head(todo[h]).msg.time]]
        \/ chats' = chats
    BY <1>5 DEF StoreChat
  <2>3. name[h] \in Name /\ Head(todo[h]).msg.time \in Nat
    BY <1>0, <2>1, NextIsOfTheChat DEF Types
  <2>4. [name |-> name[h], time |-> Head(todo[h]).msg.time] \in [name : Name, time : Nat]
    BY <2>3
  <2>5. chats' \in [Chat -> [name : Name, time : Nat]]
    BY <1>0, <2>2, <2>4 DEF Types
  <2>6. CASE Finish(h)
    BY <1>0, <2>1, <2>5, <2>6, FinishKeepsBase DEF Types
  <2>7. CASE Goto(h, "messages") /\ UNCHANGED name
    BY <1>0, <2>1, <2>5, <2>7, GotoKeepsBase DEF Types
  <2>. QED  BY <1>5, <2>6, <2>7 DEF StoreChat
<1>6. ASSUME NEW h \in Handler, StoreMessage(h)
      PROVE  Base'
  <2>1. pc[h] = "messages" /\ chats' = chats
    BY <1>6 DEF StoreMessage
  <2>2. faults' \in Nat
    BY <1>0, <1>6, <1>f DEF StoreMessage, Types
  <2>3. words' \in [Message -> {"", "text", Redacted}]
    <3>1. Head(todo[h]) \in Heard
      BY <2>1, NextIsOfTheChat DEF HeardIn
    <3>2. Kept(Head(todo[h]).words) \in {"", "text", Redacted}
      BY <3>1 DEF Kept, Heard, Word
    <3>3. \/ words' = words
          \/ words' = [words EXCEPT ![Head(todo[h]).msg] = Kept(Head(todo[h]).words)]
      BY <1>6 DEF StoreMessage, Insert
    <3>. QED  BY <1>0, <3>2, <3>3 DEF Types
  <2>4. CASE Finish(h)
    BY <1>0, <2>1, <2>2, <2>3, <2>4, FinishKeepsBase DEF Types
  <2>5. CASE Len(todo[h]) # 1 /\ todo' = [todo EXCEPT ![h] = Tail(@)] /\ UNCHANGED <<pc, chat, name>>
    <3>1. todo[h] \in Seq(HeardIn(chat[h])) /\ todo[h] # <<>>
      BY <1>0, <2>1 DEF HandlersOK, HandlerOK
    <3>2. Tail(todo[h]) \in Seq(HeardIn(chat[h])) /\ Tail(todo[h]) # <<>>
      <4>1. Tail(todo[h]) \in Seq(HeardIn(chat[h])) /\ Len(Tail(todo[h])) = Len(todo[h]) - 1
        BY <3>1, HeadTailProperties
      <4>2. Len(todo[h]) \in Nat /\ Len(todo[h]) # 1
        BY <2>5, <3>1, LenProperties
      <4>3. Len(Tail(todo[h])) # 0
        BY <4>1, <4>2
      <4>. QED  BY <4>1, <4>3, EmptySeq
    <3>3. Tail(todo[h]) \in Seq(Heard)
      BY <3>2, SeqMonotonic DEF HeardIn
    <3>4. Types'
      BY <1>0, <2>1, <2>2, <2>3, <2>5, <3>3 DEF Types
    <3>5. HandlerOK(h)'
      BY <1>0, <2>1, <2>5, <3>2 DEF Types, HandlersOK, HandlerOK, HeardIn
    <3>6. \A g \in Handler \ {h} : HandlerOK(g)'
      BY <1>0, <2>5, OthersAreOK DEF Types
    <3>. QED  BY <3>4, <3>5, <3>6 DEF Base, HandlersOK
  <2>. QED  BY <1>6, <2>4, <2>5 DEF StoreMessage
<1>7. CASE StopCore
  <2>1. <<>> \in Seq(Heard)
    OBVIOUS
  <2>2. Types'
    BY <1>0, <1>f, <1>7, <2>1 DEF StopCore, Types, tables, Name
  <2>3. HandlersOK'
    BY <1>7, FinishedIsOK DEF StopCore, HandlersOK
  <2>. QED  BY <2>2, <2>3 DEF Base
<1>8. CASE OpenStore \/ UNCHANGED vars
  <2>1. UNCHANGED <<chats, words, handler, faults>>
    BY <1>8 DEF OpenStore, vars, tables
  <2>. QED  BY <2>1 DEF Base, Types, HandlersOK, HandlerOK, HeardIn, handler
<1>. QED  BY <1>1, <1>2, <1>3, <1>4, <1>5, <1>6, <1>7, <1>8 DEF Next, HandlerStep

-----------------------------------------------------------------------------
(* What is stored.                                                         *)

\* A chat's row is written before its messages, or the statement failed.
LEMMA NextKeepsRowsFirst ==
  Base /\ RowsComeFirst /\ [Next]_vars => RowsComeFirst'
<1>. SUFFICES ASSUME Base, RowsComeFirst, [Next]_vars,
                     NEW h \in Handler, pc'[h] = "messages", chats'[chat'[h]] = NoChat
              PROVE  faults' > 0
  BY DEF RowsComeFirst
<1>0. Types /\ HandlersOK /\ faults \in Nat
  BY DEF Base, Types
<1>1. faults' = faults \/ faults' = faults + 1
  BY DEF Next, HandlerStep, ReceiveMessage, ReceiveConversation, ReadName, Ask, StoreChat,
         StoreMessage, OpenStore, StopCore, Fault, vars
<1>2. CASE pc[h] = "messages"
  <2>1. chat[h] \in Chat
    BY <1>0, <1>2 DEF HandlersOK, HandlerOK
  <2>2. ASSUME chat'[h] # chat[h] PROVE FALSE
    <3>1. \E g \in Handler : Finish(g) \/ Goto(g, "chat") \/ Goto(g, "messages") \/ chat' = chat
                             \/ (pc[g] = "idle" /\ pc' = [pc EXCEPT ![g] = "reading"]
                                 /\ \E c : chat' = [chat EXCEPT ![g] = c])
                             \/ pc' = [x \in Handler |-> "idle"]
      BY DEF Next, HandlerStep, ReceiveMessage, ReceiveConversation, ReadName, Ask, HaveName, StoreChat,
             StoreMessage, OpenStore, StopCore, Goto, handler, vars, Handler
    <3>. QED  BY <1>0, <1>2, <2>2, <3>1 DEF Types, Finish, Goto
  <2>3. chats[chat[h]] = NoChat
    BY <1>0, <2>1, <2>2, RowsStay
  <2>. QED  BY <1>0, <1>1, <1>2, <2>3 DEF RowsComeFirst
<1>3. CASE pc[h] # "messages"
  <2>1. StoreChat(h) /\ Goto(h, "messages")
    BY <1>0, <1>3 DEF Next, HandlerStep, ReceiveMessage, ReceiveConversation, ReadName, Ask, HaveName,
             StoreChat, StoreMessage, OpenStore, StopCore, Goto, Finish, handler, vars, Types
  <2>2. pc[h] = "chat" /\ chat'[h] = chat[h] /\ chat[h] \in Chat /\ name[h] # "none"
    BY <1>0, <2>1 DEF StoreChat, Goto, HandlersOK, HandlerOK
  <2>3. CASE chats' = [chats EXCEPT ![chat[h]] = [name |-> name[h], time |-> Head(todo[h]).msg.time]]
    <3>1. DOMAIN chats = Chat
      BY <1>0 DEF Types
    <3>2. chats'[chat[h]] = [name |-> name[h], time |-> Head(todo[h]).msg.time]
      BY <2>2, <2>3, <3>1, Zenon
    <3>3. chats'[chat[h]].name # NoChat.name
      BY <2>2, <3>2 DEF NoChat
    <3>. QED  BY <2>2, <3>3
  <2>4. CASE Fault
    BY <1>0, <2>4 DEF Fault
  <2>5. ~Finish(h)
    BY <1>0 DEF Finish, Types
  <2>. QED  BY <2>1, <2>3, <2>4, <2>5 DEF StoreChat
<1>. QED  BY <1>2, <1>3

\* An entry of the index is replaced by one of the row that is inserted.
LEMMA InsertKeepsWords ==
  ASSUME Types, WordsAreIn, NEW m \in Message, NEW w, w # "", Insert(m, w)
  PROVE  WordsAreIn'
<1>. SUFFICES ASSUME NEW n \in Message
              PROVE  {e.words : e \in {x \in fts' : x.row = n}} = {words'[n]} \ {""}
  BY DEF WordsAreIn
<1>. DEFINE r == [row |-> m, words |-> w]
<1>r. r.row = m /\ r.words = w
  OBVIOUS
<1>f. \A x : x \in fts' <=> (x \in fts /\ x.row # m) \/ x = r
  BY DEF Insert
<1>. HIDE DEF r
<1>1. CASE n = m
  <2>1. {x \in fts' : x.row = n} = {r}
    BY <1>1, <1>r, <1>f
  <2>2. {e.words : e \in {x \in fts' : x.row = n}} = {w}
    BY <2>1, <1>r
  <2>3. words'[n] = w
    BY <1>1 DEF Insert, Types
  <2>. QED  BY <2>2, <2>3
<1>2. CASE n # m
  <2>1. {x \in fts' : x.row = n} = {x \in fts : x.row = n}
    BY <1>2, <1>r, <1>f
  <2>2. words'[n] = words[n]
    BY <1>2 DEF Insert, Types
  <2>. QED  BY <2>1, <2>2 DEF WordsAreIn
<1>. QED  BY <1>1, <1>2

\* Only a store of a message and the opening of the store write the index.
LEMMA NextKeepsWords == Base /\ WordsAreIn /\ [Next]_vars => WordsAreIn'
<1>. SUFFICES ASSUME Base, WordsAreIn, [Next]_vars
              PROVE  WordsAreIn'
  OBVIOUS
<1>0. Types
  BY DEF Base
<1>1. ASSUME NEW h \in Handler, StoreMessage(h)
      PROVE  WordsAreIn'
  <2>. DEFINE e == Head(todo[h])
  <2>1. e.msg \in Message /\ e \in Heard
    BY <1>1, NextIsOfTheChat DEF StoreMessage, HeardIn
  <2>2. CASE UNCHANGED <<words, fts>>
    BY <2>2 DEF WordsAreIn
  <2>3. CASE ~Skipped(e) /\ Insert(e.msg, Kept(e.words))
    <3>1. Kept(e.words) # ""
      BY <2>1, <2>3 DEF Skipped, Kept, Redacted
    <3>. QED  BY <1>0, <2>1, <2>3, <3>1, InsertKeepsWords
  <2>. QED  BY <1>1, <2>2, <2>3 DEF StoreMessage
<1>2. CASE OpenStore
  <2>. SUFFICES ASSUME NEW m \in Message
                PROVE  {e.words : e \in {x \in fts' : x.row = m}} = {words'[m]} \ {""}
    BY DEF WordsAreIn
  <2>1. fts' = {[row |-> n, words |-> words[n]] : n \in Stored} /\ words' = words
    BY <1>2 DEF OpenStore
  <2>2. CASE m \in Stored
    <3>1. {x \in fts' : x.row = m} = {[row |-> m, words |-> words[m]]}
      BY <2>1, <2>2
    <3>2. {e.words : e \in {[row |-> m, words |-> words[m]]}} = {words[m]}
      OBVIOUS
    <3>. QED  BY <2>1, <2>2, <3>1, <3>2 DEF Stored
  <2>3. CASE m \notin Stored
    <3>1. {x \in fts' : x.row = m} = {}
      BY <2>1, <2>3
    <3>. QED  BY <2>1, <2>3, <3>1 DEF Stored
  <2>. QED  BY <2>2, <2>3
<1>3. CASE UNCHANGED <<words, fts>>
  BY <1>3 DEF WordsAreIn
<1>. QED  BY <1>1, <1>2, <1>3 DEF Next, HandlerStep, ReceiveMessage, ReceiveConversation, ReadName,
             Ask, StoreChat, StopCore, tables, vars

\* Only the look at the chat's row says that a name was seen, and it goes on with that name.
LEMMA NextKeepsSeen == Base /\ SeenIsKept /\ [Next]_vars => SeenIsKept'
<1>. SUFFICES ASSUME Base, SeenIsKept, [Next]_vars
              PROVE  SeenIsKept'
  OBVIOUS
<1>0. Types
  BY DEF Base
<1>1. ASSUME NEW m \in Message, NEW w \in Word, ReceiveMessage(m, w)
      PROVE  SeenIsKept'
  BY <1>0, <1>1 DEF ReceiveMessage, SeenIsKept, Types
<1>2. ASSUME NEW c \in Chat, NEW s \in Conversations(c), ReceiveConversation(c, s)
      PROVE  SeenIsKept'
  BY <1>0, <1>2 DEF ReceiveConversation, SeenIsKept, Types
<1>3. ASSUME NEW h \in Handler, Finish(h)
      PROVE  SeenIsKept'
  BY <1>0, <1>3, FinishIsClean DEF SeenIsKept
<1>4. ASSUME NEW h \in Handler, ReadName(h)
      PROVE  SeenIsKept'
  <2>1. pc[h] = "reading" /\ h \notin sawReal
    BY <1>4 DEF ReadName, SeenIsKept
  <2>2. CASE name' = [name EXCEPT ![h] = "real"] /\ Goto(h, "chat") /\ sawReal' = sawReal \cup {h}
    BY <1>0, <2>1, <2>2 DEF Goto, SeenIsKept, Types
  <2>3. CASE /\ Goto(h, "asking") /\ sawReal' = sawReal
             /\ name' = [name EXCEPT ![h] = chats[chat[h]].name] \/ name' = name
    BY <1>0, <2>1, <2>3 DEF Goto, SeenIsKept, Types
  <2>. QED  BY <1>3, <1>4, <2>2, <2>3 DEF ReadName
<1>5. ASSUME NEW h \in Handler, Ask(h)
      PROVE  SeenIsKept'
  <2>1. PICK n \in {"placeholder", "real"} : HaveName(h, n)
    BY <1>5 DEF Ask
  <2>2. pc[h] = "asking" /\ h \notin sawReal
    BY <1>5 DEF Ask, SeenIsKept
  <2>3. CASE name' = [name EXCEPT ![h] = n] /\ Goto(h, "chat") /\ sawReal' = sawReal
    BY <1>0, <2>2, <2>3 DEF Goto, SeenIsKept, Types
  <2>. QED  BY <1>3, <2>1, <2>3 DEF HaveName
<1>6. ASSUME NEW h \in Handler, StoreChat(h)
      PROVE  SeenIsKept'
  <2>1. CASE Goto(h, "messages") /\ UNCHANGED <<name, sawReal>>
    BY <1>0, <2>1 DEF Goto, SeenIsKept, Types
  <2>. QED  BY <1>3, <1>6, <2>1 DEF StoreChat
<1>7. ASSUME NEW h \in Handler, StoreMessage(h)
      PROVE  SeenIsKept'
  <2>1. CASE UNCHANGED <<pc, name, sawReal>>
    BY <2>1 DEF SeenIsKept
  <2>. QED  BY <1>3, <1>7, <2>1 DEF StoreMessage
<1>8. CASE OpenStore \/ StopCore \/ UNCHANGED vars
  BY <1>8 DEF OpenStore, StopCore, SeenIsKept, handler, vars
<1>. QED  BY <1>1, <1>2, <1>4, <1>5, <1>6, <1>7, <1>8 DEF Next, HandlerStep

-----------------------------------------------------------------------------
(* The newest message.                                                     *)

Newest(c) ==
  \/ \E m \in Stored : m.chat = c /\ m.time = chats[c].time
  \/ \E h \in Handler : NextInTurn(h, c)

\* A step that only changes what a handler does that is not storing messages, and no
\* time of a row, leaves the newest messages where they are.
LEMMA NewestStays ==
  ASSUME Base, NewestIsThere, [Next]_vars,
         \A c \in Chat : chats'[c] = chats[c] \/ (chats[c] # NoChat /\ chats'[c].time = chats[c].time),
         words' = words, spoilt' = spoilt,
         \A g \in Handler : pc[g] = "messages" =>
           pc'[g] = pc[g] /\ chat'[g] = chat[g] /\ todo'[g] = todo[g]
  PROVE  NewestIsThere'
<1>. SUFFICES ASSUME NEW c \in Chat, chats'[c] # NoChat, c \notin spoilt'
              PROVE  Newest(c)'
  BY DEF NewestIsThere, Newest
<1>1. chats'[c].time = chats[c].time /\ chats[c] # NoChat
  OBVIOUS
<1>2. CASE \E m \in Stored : m.chat = c /\ m.time = chats[c].time
  BY <1>1, <1>2 DEF Newest, Stored
<1>3. ASSUME NEW h \in Handler, NextInTurn(h, c)
      PROVE  Newest(c)'
  BY <1>1, <1>3 DEF Newest, NextInTurn, Skipped
<1>. QED  BY <1>1, <1>2, <1>3 DEF NewestIsThere

\* Every step keeps the newest message there, or next in turn, or says that it is not.
LEMMA NextKeepsNewest == Base /\ NewestIsThere /\ [Next]_vars => NewestIsThere'
<1>. SUFFICES ASSUME Base, NewestIsThere, [Next]_vars
              PROVE  NewestIsThere'
  OBVIOUS
<1>0. Types
  BY DEF Base
<1>1. ASSUME NEW m \in Message, NEW w \in Word, ReceiveMessage(m, w)
      PROVE  NewestIsThere'
  BY <1>0, <1>1, NewestStays DEF ReceiveMessage, Types, tables
<1>2. ASSUME NEW c \in Chat, NEW s \in Conversations(c), ReceiveConversation(c, s)
      PROVE  NewestIsThere'
  BY <1>0, <1>2, NewestStays DEF ReceiveConversation, Types, tables
<1>3. ASSUME NEW h \in Handler, ReadName(h)
      PROVE  NewestIsThere'
  <2>1. pc[h] = "reading" /\ UNCHANGED <<chats, words, spoilt>>
    BY <1>3 DEF ReadName, tables
  <2>2. Finish(h) \/ Goto(h, "chat") \/ Goto(h, "asking")
    BY <1>3 DEF ReadName
  <2>3. \A g \in Handler \ {h} : pc'[g] = pc[g] /\ chat'[g] = chat[g] /\ todo'[g] = todo[g]
    BY <1>0, <2>2 DEF Finish, Goto, Types
  <2>. QED  BY <2>1, <2>3, NewestStays
<1>4. ASSUME NEW h \in Handler, Ask(h)
      PROVE  NewestIsThere'
  <2>1. pc[h] = "asking" /\ UNCHANGED <<words, spoilt>>
    BY <1>4 DEF Ask
  <2>2. Finish(h) \/ Goto(h, "chat")
    BY <1>4 DEF Ask, HaveName
  <2>3. \A g \in Handler \ {h} : pc'[g] = pc[g] /\ chat'[g] = chat[g] /\ todo'[g] = todo[g]
    BY <1>0, <2>2 DEF Finish, Goto, Types
  <2>4. \/ chats' = chats
        \/ /\ name[h] = "placeholder"
           /\ chats' = [chats EXCEPT ![chat[h]].name = "real"]
    BY <1>4 DEF Ask
  <2>5. name[h] = "placeholder" => chats[chat[h]] # NoChat
    BY <2>1 DEF Base, HandlersOK, HandlerOK
  <2>6. \A c \in Chat : chats'[c] = chats[c] \/ (chats[c] # NoChat /\ chats'[c].time = chats[c].time)
    <3>1. ASSUME NEW c \in Chat, chats'[c] # chats[c]
          PROVE  chats[c] # NoChat /\ chats'[c].time = chats[c].time
      <4>1. name[h] = "placeholder" /\ chats' = [chats EXCEPT ![chat[h]].name = "real"]
        BY <2>4, <3>1
      <4>2. c = chat[h]
        BY <3>1, <4>1, <1>0 DEF Types
      <4>3. chats'[c] = [chats[c] EXCEPT !.name = "real"] /\ chats[c] \in [name : Name, time : Nat]
        BY <1>0, <4>1, <4>2 DEF Types
      <4>4. chats'[c].time = chats[c].time
        BY <4>3
      <4>. QED  BY <2>5, <4>1, <4>2, <4>4
    <3>. QED  BY <3>1
  <2>. QED  BY <2>1, <2>3, <2>6, NewestStays
<1>5. ASSUME NEW h \in Handler, StoreChat(h)
      PROVE  NewestIsThere'
  <2>1. pc[h] = "chat" /\ words' = words
    BY <1>5 DEF StoreChat
  <2>2. Finish(h) \/ Goto(h, "messages")
    BY <1>5 DEF StoreChat
  <2>3. \A g \in Handler \ {h} : pc'[g] = pc[g] /\ chat'[g] = chat[g] /\ todo'[g] = todo[g]
    BY <1>0, <2>2 DEF Finish, Goto, Types
  <2>4. CASE UNCHANGED <<chats, spoilt>>
    BY <2>1, <2>3, <2>4, NewestStays
  <2>5. CASE /\ Head(todo[h]).timed /\ Goto(h, "messages")
             /\ chats' = [chats EXCEPT ![chat[h]] = [name |-> name[h], time |-> Head(todo[h]).msg.time]]
             /\ spoilt' = IF Head(todo[h]).words = "" THEN spoilt \cup {chat[h]}
                          ELSE spoilt \ {chat[h]}
    <3>. SUFFICES ASSUME NEW c \in Chat, chats'[c] # NoChat, c \notin spoilt'
                  PROVE  Newest(c)'
      BY DEF NewestIsThere, Newest
    <3>1. CASE c = chat[h]
      <4>1. chats'[c].time = Head(todo[h]).msg.time
        <5>1. DOMAIN chats = Chat
          BY <1>0 DEF Types
        <5>2. chats'[c] = [name |-> name[h], time |-> Head(todo[h]).msg.time]
          BY <2>5, <3>1, <5>1, Zenon
        <5>. QED  BY <5>2
      <4>2. ~Skipped(Head(todo[h]))
        BY <2>5, <3>1 DEF Skipped
      <4>3. pc'[h] = "messages" /\ chat'[h] = c /\ todo'[h] = todo[h]
        BY <1>0, <2>5, <3>1 DEF Goto, Types
      <4>4. NextInTurn(h, c)'
        BY <4>1, <4>2, <4>3 DEF NextInTurn, Skipped
      <4>. QED  BY <4>4 DEF Newest
    <3>2. CASE c # chat[h]
      <4>1. chats'[c] = chats[c] /\ c \notin spoilt
        BY <1>0, <2>5, <3>2 DEF Types
      <4>2. CASE \E m \in Stored : m.chat = c /\ m.time = chats[c].time
        BY <2>1, <4>1, <4>2 DEF Newest, Stored
      <4>3. ASSUME NEW g \in Handler, NextInTurn(g, c)
            PROVE  Newest(c)'
        <5>1. g # h
          BY <2>1, <4>3 DEF NextInTurn
        <5>. QED  BY <2>3, <4>1, <4>3, <5>1 DEF Newest, NextInTurn, Skipped
      <4>. QED  BY <4>1, <4>2, <4>3 DEF NewestIsThere
    <3>. QED  BY <3>1, <3>2
  <2>. QED  BY <1>5, <2>4, <2>5 DEF StoreChat
<1>6. ASSUME NEW h \in Handler, StoreMessage(h)
      PROVE  NewestIsThere'
  <2>. DEFINE e == Head(todo[h])
  <2>1. pc[h] = "messages" /\ chats' = chats
    BY <1>6 DEF StoreMessage
  <2>2. e.msg \in Message /\ e \in Heard /\ e.msg.chat = chat[h]
    BY <2>1, NextIsOfTheChat DEF HeardIn
  <2>3. \A g \in Handler \ {h} : pc'[g] = pc[g] /\ chat'[g] = chat[g] /\ todo'[g] = todo[g]
    BY <1>0, <1>6 DEF StoreMessage, Finish, Types
  <2>. SUFFICES ASSUME NEW c \in Chat, chats'[c] # NoChat, c \notin spoilt'
                PROVE  Newest(c)'
    BY DEF NewestIsThere, Newest
  <2>4. ASSUME NEW g \in Handler, g # h, NextInTurn(g, c)
        PROVE  Newest(c)'
    BY <2>1, <2>3, <2>4 DEF Newest, NextInTurn, Skipped
  <2>5. CASE Skipped(e) /\ UNCHANGED <<words, spoilt>>
    <3>1. ~NextInTurn(h, c)
      BY <2>5 DEF NextInTurn
    <3>2. CASE \E m \in Stored : m.chat = c /\ m.time = chats[c].time
      BY <2>1, <2>5, <3>2 DEF Newest, Stored
    <3>. QED  BY <2>1, <2>4, <2>5, <3>1, <3>2 DEF NewestIsThere
  <2>6. CASE ~Skipped(e) /\ Insert(e.msg, Kept(e.words)) /\ UNCHANGED spoilt
    <3>1. Kept(e.words) # ""
      BY <2>2, <2>6 DEF Skipped, Kept, Redacted
    <3>2. words'[e.msg] # "" /\ \A m \in Stored : m \in Message /\ words'[m] # ""
      BY <1>0, <2>2, <2>6, <3>1 DEF Insert, Types, Stored
    <3>3. CASE \E m \in Stored : m.chat = c /\ m.time = chats[c].time
      BY <2>1, <3>2, <3>3 DEF Newest, Stored
    <3>4. CASE NextInTurn(h, c)
      BY <2>1, <2>2, <3>2, <3>4 DEF Newest, Stored, NextInTurn
    <3>. QED  BY <2>1, <2>4, <2>6, <3>3, <3>4 DEF NewestIsThere
  <2>7. CASE spoilt' = spoilt \cup {chat[h]} /\ UNCHANGED words
    <3>1. ~NextInTurn(h, c) /\ c \notin spoilt
      BY <2>7 DEF NextInTurn
    <3>2. CASE \E m \in Stored : m.chat = c /\ m.time = chats[c].time
      BY <2>1, <2>7, <3>2 DEF Newest, Stored
    <3>. QED  BY <2>1, <2>4, <3>1, <3>2 DEF NewestIsThere
  <2>. QED  BY <1>6, <2>5, <2>6, <2>7 DEF StoreMessage
<1>7. CASE StopCore
  <2>. SUFFICES ASSUME NEW c \in Chat, chats'[c] # NoChat, c \notin spoilt'
                PROVE  Newest(c)'
    BY DEF NewestIsThere, Newest
  <2>1. UNCHANGED <<chats, words>> /\ c \notin spoilt
    BY <1>7 DEF StopCore, tables
  <2>2. \A h \in Handler : ~NextInTurn(h, c)
    BY <1>7 DEF StopCore, NextInTurn
  <2>3. \E m \in Stored : m.chat = c /\ m.time = chats[c].time
    BY <2>1, <2>2 DEF NewestIsThere
  <2>. QED  BY <2>1, <2>3 DEF Newest, Stored
<1>8. CASE OpenStore \/ UNCHANGED vars
  BY <1>8, NewestStays DEF OpenStore, vars, tables, handler
<1>. QED  BY <1>1, <1>2, <1>3, <1>4, <1>5, <1>6, <1>7, <1>8 DEF Next, HandlerStep

-----------------------------------------------------------------------------
(* The rest of the types.                                                  *)

\* A handler that is done has nothing to store, and the index has words of messages.
Rest ==
  /\ \A h \in Handler : pc[h] = "idle" => todo[h] = <<>>
  /\ fts \subseteq [row : Message, words : {"text", Redacted}]
  /\ syncs \in 0..MaxSync /\ faults \in 0..MaxFault /\ spoilt \subseteq Chat

\* Every step keeps them.
LEMMA NextKeepsRest == Base /\ Rest /\ [Next]_vars => Rest'
<1>. SUFFICES ASSUME Base, Rest, [Next]_vars PROVE Rest'
  OBVIOUS
<1>0. Types /\ HandlersOK
  BY DEF Base
<1>b. MaxSync \in Nat /\ MaxFault \in Nat
  BY BoundAssumption
<1>f. Fault => faults' \in 0..MaxFault
  BY <1>b DEF Fault, Rest
<1>c. \A h \in Handler : pc[h] # "idle" => chat[h] \in Chat
  BY <1>0 DEF HandlersOK, HandlerOK
<1>1. ASSUME NEW h \in Handler, Finish(h) \/ (pc'[h] # "idle" /\ \A g \in Handler \ {h} :
                                                pc'[g] = pc[g] /\ todo'[g] = todo[g])
      PROVE  \A g \in Handler : pc'[g] = "idle" => todo'[g] = <<>>
  <2>1. CASE Finish(h)
    <3>1. todo'[h] = <<>>
      BY <1>0, <2>1 DEF Finish, Types
    <3>2. \A g \in Handler \ {h} : pc'[g] = pc[g] /\ todo'[g] = todo[g]
      BY <1>0, <2>1, FinishIsClean
    <3>. QED  BY <3>1, <3>2 DEF Rest
  <2>2. CASE pc'[h] # "idle" /\ \A g \in Handler \ {h} : pc'[g] = pc[g] /\ todo'[g] = todo[g]
    BY <2>2 DEF Rest
  <2>. QED  BY <1>1, <2>1, <2>2
<1>2. ASSUME NEW h \in Handler, NEW place, Goto(h, place), place # "idle"
      PROVE  \A g \in Handler : pc'[g] = "idle" => todo'[g] = <<>>
  <2>1. pc'[h] # "idle" /\ \A g \in Handler \ {h} : pc'[g] = pc[g] /\ todo'[g] = todo[g]
    BY <1>0, <1>2 DEF Goto, Types
  <2>. QED  BY <1>1, <2>1
<1>3. ASSUME NEW m \in Message, NEW w \in Word, ReceiveMessage(m, w) PROVE Rest'
  <2>1. "live" \in Handler /\ pc'["live"] # "idle"
        /\ \A g \in Handler \ {"live"} : pc'[g] = pc[g] /\ todo'[g] = todo[g]
    BY <1>0, <1>3 DEF ReceiveMessage, Types, Handler
  <2>2. UNCHANGED <<fts, syncs, faults, spoilt>>
    BY <1>3 DEF ReceiveMessage, tables
  <2>. QED  BY <1>1, <2>1, <2>2 DEF Rest
<1>4. ASSUME NEW c \in Chat, NEW s \in Conversations(c), ReceiveConversation(c, s) PROVE Rest'
  <2>1. "sync" \in Handler /\ pc'["sync"] # "idle"
        /\ \A g \in Handler \ {"sync"} : pc'[g] = pc[g] /\ todo'[g] = todo[g]
    BY <1>0, <1>4 DEF ReceiveConversation, Types, Handler
  <2>2. syncs' \in 0..MaxSync /\ UNCHANGED <<fts, faults, spoilt>>
    BY <1>b, <1>4 DEF ReceiveConversation, tables, Rest
  <2>. QED  BY <1>1, <2>1, <2>2 DEF Rest
<1>5. ASSUME NEW h \in Handler, ReadName(h) PROVE Rest'
  <2>1. faults' \in 0..MaxFault /\ UNCHANGED <<fts, syncs, spoilt>>
    BY <1>f, <1>5 DEF ReadName, tables, Rest
  <2>2. Finish(h) \/ \E place \in {"chat", "asking"} : Goto(h, place)
    BY <1>5 DEF ReadName
  <2>. QED  BY <1>1, <1>2, <2>1, <2>2 DEF Rest
<1>6. ASSUME NEW h \in Handler, Ask(h) PROVE Rest'
  <2>1. faults' \in 0..MaxFault /\ UNCHANGED <<fts, syncs, spoilt>>
    BY <1>f, <1>6 DEF Ask, Rest
  <2>2. Finish(h) \/ Goto(h, "chat")
    BY <1>6 DEF Ask, HaveName
  <2>. QED  BY <1>1, <1>2, <2>1, <2>2 DEF Rest
<1>7. ASSUME NEW h \in Handler, StoreChat(h) PROVE Rest'
  <2>1. faults' \in 0..MaxFault /\ UNCHANGED <<fts, syncs>>
    BY <1>f, <1>7 DEF StoreChat, Rest
  <2>2. spoilt' \subseteq Chat
    BY <1>c, <1>7 DEF StoreChat, Rest
  <2>3. Finish(h) \/ Goto(h, "messages")
    BY <1>7 DEF StoreChat
  <2>. QED  BY <1>1, <1>2, <2>1, <2>2, <2>3 DEF Rest
<1>8. ASSUME NEW h \in Handler, StoreMessage(h) PROVE Rest'
  <2>. DEFINE e == Head(todo[h])
  <2>1. pc[h] = "messages" /\ e \in Heard /\ e.msg \in Message /\ chat[h] \in Chat
    BY <1>8, NextIsOfTheChat DEF StoreMessage, HeardIn
  <2>2. faults' \in 0..MaxFault /\ spoilt' \subseteq Chat /\ syncs' = syncs
    BY <1>f, <1>8, <2>1 DEF StoreMessage, Rest
  <2>3. fts' \subseteq [row : Message, words : {"text", Redacted}]
    <3>1. CASE UNCHANGED fts
      BY <3>1 DEF Rest
    <3>2. CASE ~Skipped(e) /\ Insert(e.msg, Kept(e.words))
      <4>1. Kept(e.words) \in {"text", Redacted}
        BY <2>1, <3>2 DEF Skipped, Kept, Heard, Word
      <4>2. fts' = {f \in fts : f.row # e.msg} \cup {[row |-> e.msg, words |-> Kept(e.words)]}
        BY <3>2 DEF Insert
      <4>. QED  BY <2>1, <4>1, <4>2 DEF Rest
    <3>. QED  BY <1>8, <3>1, <3>2 DEF StoreMessage
  <2>4. Finish(h) \/ (todo' = [todo EXCEPT ![h] = Tail(@)] /\ UNCHANGED pc)
    BY <1>8 DEF StoreMessage
  <2>5. \A g \in Handler : pc'[g] = "idle" => todo'[g] = <<>>
    BY <1>0, <1>1, <2>1, <2>4 DEF Types
  <2>. QED  BY <2>2, <2>3, <2>5 DEF Rest
<1>9. CASE StopCore
  <2>1. \A h \in Handler : todo'[h] = <<>>
    BY <1>9 DEF StopCore
  <2>2. spoilt' \subseteq Chat
    BY <1>c, <1>9 DEF StopCore, Rest
  <2>. QED  BY <1>f, <1>9, <2>1, <2>2 DEF StopCore, Rest, tables
<1>10. CASE OpenStore
  <2>1. \A m \in Stored : m \in Message /\ words[m] \in {"text", Redacted}
    BY <1>0 DEF Stored, Types
  <2>2. fts' \subseteq [row : Message, words : {"text", Redacted}]
    BY <1>10, <2>1 DEF OpenStore
  <2>. QED  BY <1>10, <2>2 DEF OpenStore, Rest, handler
<1>11. CASE UNCHANGED vars
  BY <1>11 DEF Rest, vars, tables, handler
<1>. QED  BY <1>3, <1>4, <1>5, <1>6, <1>7, <1>8, <1>9, <1>10, <1>11 DEF Next, HandlerStep

-----------------------------------------------------------------------------
(* The theorems.                                                           *)

\* No chats, no messages, and no handler at work.
LEMMA Initially == Init => IInv
<1>. SUFFICES ASSUME Init PROVE IInv
  OBVIOUS
<1>1. Types
  <2>1. <<>> \in Seq(Heard) /\ 0 \in Nat
    OBVIOUS
  <2>. QED  BY <2>1 DEF Init, Types, NoChat, Name
<1>2. HandlersOK
  BY DEF Init, HandlersOK, HandlerOK
<1>3. RowsComeFirst /\ WordsAreIn /\ SeenIsKept
  BY DEF Init, RowsComeFirst, WordsAreIn, SeenIsKept
<1>4. NewestIsThere
  BY DEF Init, NewestIsThere
<1>. QED  BY <1>1, <1>2, <1>3, <1>4 DEF IInv, Base

\* It is inductive.
LEMMA Invariant == Spec => []IInv
<1>1. IInv /\ [Next]_vars => IInv'
  BY NextKeepsBase, NextKeepsRowsFirst, NextKeepsWords, NextKeepsNewest, NextKeepsSeen DEF IInv
<1>. QED  BY <1>1, Initially, PTL DEF Spec

\* For any chats, messages and bounds the variables have their types: what a handler has
\* still to store are messages of its chat, and before it writes it has a name and a
\* message (daemon.go:202, 224-415).
THEOREM TypeCorrect == Spec => []TypeOK
<1>1. ASSUME Init PROVE Rest
  <2>1. \A h \in Handler : todo[h] = <<>>
    BY <1>1 DEF Init
  <2>2. 0 \in 0..MaxSync /\ 0 \in 0..MaxFault
    BY BoundAssumption
  <2>3. syncs = 0 /\ faults = 0 /\ spoilt = {} /\ fts = {}
    BY <1>1 DEF Init
  <2>. QED  BY <2>1, <2>2, <2>3 DEF Rest
<1>2. IInv /\ Rest /\ [Next]_vars => Rest'
  BY NextKeepsRest DEF IInv
<1>3. IInv /\ Rest => TypeOK
  <2>. SUFFICES ASSUME IInv, Rest PROVE TypeOK
    OBVIOUS
  <2>1. Types /\ HandlersOK
    BY DEF IInv, Base
  <2>2. ASSUME NEW h \in Handler
        PROVE  /\ todo[h] \in Seq({e \in Heard : e.msg.chat = chat[h]})
               /\ pc[h] \in {"chat", "messages"} => todo[h] # <<>> /\ name[h] # "none"
    <3>1. todo[h] \in Seq(HeardIn(chat[h]))
      <4>1. CASE pc[h] = "idle"
        BY <4>1, EmptySeq DEF Rest
      <4>2. CASE pc[h] # "idle"
        BY <2>1, <4>2 DEF HandlersOK, HandlerOK
      <4>. QED  BY <4>1, <4>2
    <3>2. pc[h] \in {"chat", "messages"} => todo[h] # <<>> /\ name[h] # "none"
      BY <2>1 DEF HandlersOK, HandlerOK
    <3>. QED  BY <3>1, <3>2 DEF HeardIn
  <2>3. DOMAIN todo = Handler
    BY <2>1 DEF Types
  <2>4. sawReal \subseteq Handler
    BY DEF IInv, SeenIsKept
  <2>. QED  BY <2>1, <2>2, <2>3, <2>4 DEF TypeOK, Types, Rest
<1>. QED  BY <1>1, <1>2, <1>3, Initially, Invariant, PTL DEF Spec

\* A message only goes without a row of its chat when a statement failed or the client
\* stopped, and a search for words leads to the messages that hold them and to no other
\* (store.go:36-62, store_init.go:58-77, service.go:186-245).
THEOREM StoredAreFound == Spec => []StoredMessagesAreFound
<1>1. IInv => StoredMessagesAreFound
  BY DEF IInv, RowsComeFirst, WordsAreIn, StoredMessagesAreFound
<1>. QED  BY <1>1, Invariant, PTL

\* The message that a chat's row gives the time of is stored or about to be, except where
\* a store failed, was cut off or had nothing to store (daemon.go:325-415).
THEOREM ChatsShowTheirLast == Spec => []ChatShowsItsLastMessage
<1>1. IInv => ChatShowsItsLastMessage
  BY DEF IInv, NewestIsThere, NextInTurn, ChatShowsItsLastMessage, Busy
<1>. QED  BY <1>1, Invariant, PTL

\* A handler that has seen a real name in a chat's row never writes a placeholder over it
\* (daemon.go:202, 224-298).
THEOREM NamesAreLostToStaleReads == Spec => RealNameIsOnlyLostToStaleRead
<1>1. ASSUME IInv, [Next]_vars, NEW c \in Chat, chats[c].name = "real", chats'[c].name # "real"
      PROVE  \E h \in Busy(c) : pc[h] = "chat" /\ h \notin sawReal
  <2>0. Types
    BY <1>1 DEF IInv, Base
  <2>1. PICK h \in Handler : Ask(h) \/ StoreChat(h)
    BY <1>1 DEF Next, HandlerStep, ReceiveMessage, ReceiveConversation, ReadName, StoreMessage,
           OpenStore, StopCore, tables, vars
  <2>2. CASE Ask(h)
    <3>1. chats' = [chats EXCEPT ![chat[h]].name = "real"] \/ chats' = chats
      BY <2>2 DEF Ask
    <3>. QED  BY <1>1, <2>0, <3>1 DEF Types
  <2>3. CASE StoreChat(h)
    <3>1. chats' = [chats EXCEPT ![chat[h]] = [name |-> name[h], time |-> Head(todo[h]).msg.time]]
      BY <1>1, <2>3 DEF StoreChat
    <3>2. DOMAIN chats = Chat
      BY <2>0 DEF Types
    <3>3. c = chat[h]
      BY <1>1, <3>1
    <3>4. chats'[c] = [name |-> name[h], time |-> Head(todo[h]).msg.time]
      BY <3>1, <3>2, <3>3, Zenon
    <3>5. name[h] # "real"
      BY <1>1, <3>4
    <3>6. h \notin sawReal
      BY <1>1, <3>5 DEF IInv, SeenIsKept
    <3>. QED  BY <2>3, <3>3, <3>6 DEF StoreChat, Busy
  <2>. QED  BY <2>1, <2>2, <2>3
<1>2. IInv /\ [Next]_vars =>
       [\A c \in Chat : chats[c].name = "real" /\ chats'[c].name # "real" =>
          \E h \in Busy(c) : pc[h] = "chat" /\ h \notin sawReal]_vars
  BY <1>1
<1>. QED  BY <1>2, Invariant, PTL DEF Spec, RealNameIsOnlyLostToStaleRead

(*************************** WhatsAppClient **********************************)

\* The three parts of the state, and the counter they share.
CoreOK ==
  /\ core \in [Core -> {"none", "connecting", "settling", "serving", "ended"}]
  /\ cancelled \subseteq Core /\ client \in [Core -> BOOLEAN]
  /\ stream \in 0..MaxCore /\ listen \subseteq Core /\ port \in 0..MaxCore
  /\ left \subseteq Core
  /\ stream # 0 => client[stream]
CallOK ==
  /\ answer \in [Call -> {"none", "waiting", "ok", "failed", "refused", "gone"}]
  /\ server \in [Call -> [at : {"none", "checking", "sending", "ok", "failed", "refused"},
                          core : 0..MaxCore]]
  /\ sent \in [Call -> Nat]
GroupOK ==
  /\ refresh \in [1..MaxRefresh -> [core : 0..MaxCore, version : 0..Unfetched]]
  /\ participants \in Version /\ membership \in Version

\* Only an instance that has connected has a client to connect again, and one that has
\* ended has it only when it was left.
ClientsAreOfInstances ==
  \A i \in Core : client[i] => core[i] \in {"settling", "serving"} \/ i \in left

\* An instance starts when those before it have ended or were cancelled.
OneAtATime ==
  \A i, j \in Core : j < i /\ core[i] # "none" => core[j] = "ended" \/ j \in cancelled

\* How far the REST server is with a call says how often the message was taken.
SendsAreCounted ==
  \A c \in Call :
    /\ server[c].at \in {"none", "checking", "sending", "refused"} => sent[c] = 0
    /\ server[c].at = "ok" => sent[c] = 1
    /\ sent[c] <= 1
    /\ answer[c] = "none" => server[c].at = "none"
    /\ answer[c] = "ok" => server[c].at = "ok"
    /\ answer[c] = "refused" => server[c].at \in {"none", "refused"}

\* What the actions on instances, on calls and on groups keep.
CoreInv == CoreOK /\ ClientsAreOfInstances /\ OneAtATime
CallInv == CallOK /\ SendsAreCounted
FaultsCounted == failures \in 0..MaxFailure

CoreAction ==
  \/ \E i \in Core : StartCore(i) \/ CoreStep(i) \/ Cancel(i) \/ Reconnect(i)
  \/ LoseConnection
CallAction == \E c \in Call : Post(c) \/ CallStep(c) \/ GiveUp(c)
GroupAction ==
  \/ \E k \in 1..MaxRefresh : HearGroup(k) \/ RefreshStep(k)
  \/ SyncGroup \/ ChangeMembership

\* ClientTypeOK is the types of the three parts and of the counter.
LEMMA Parts == (ClientTypeOK <=> CoreOK /\ CallOK /\ GroupOK /\ FaultsCounted)
BY DEF ClientTypeOK, CoreOK, CallOK, GroupOK, FaultsCounted

\* Every step is one of an instance, of a call or of a group.
LEMMA Actions == ClientNext <=> CoreAction \/ CallAction \/ GroupAction
BY DEF ClientNext, CoreAction, CallAction, GroupAction

\* Each kind of action leaves alone what is of the others.
LEMMA OthersAreLeftAlone ==
  /\ CoreAction => UNCHANGED <<callVars, groupVars>>
  /\ CallAction => UNCHANGED <<coreVars, groupVars>>
  /\ GroupAction => UNCHANGED <<coreVars, callVars>>
<1>1. CoreAction => UNCHANGED <<callVars, groupVars>>
  BY DEF CoreAction, StartCore, CoreStep, Connect, Settle, Listen, Stop, Cancel, Reconnect, LoseConnection
<1>2. CallAction => UNCHANGED <<coreVars, groupVars>>
  BY DEF CallAction, Post, CallStep, Accept, Check, Send, Respond, GiveUp
<1>3. GroupAction => UNCHANGED <<coreVars, callVars>>
  BY DEF GroupAction, HearGroup, RefreshStep, Fetch, StoreGroupParticipants, SyncGroup, ChangeMembership
<1>. QED  BY <1>1, <1>2, <1>3

\* Every fault is counted, up to the bound.
LEMMA FaultsAreCounted == FaultsCounted /\ [ClientNext]_clientVars => FaultsCounted'
<1>1. Failure /\ FaultsCounted => FaultsCounted'
  BY ClientAssumption DEF Failure, FaultsCounted
<1>2. CoreAction => Failure \/ UNCHANGED failures
  BY DEF CoreAction, StartCore, CoreStep, Connect, Settle, Listen, Stop, Cancel, Reconnect, LoseConnection
<1>3. CallAction => Failure \/ UNCHANGED failures
  BY DEF CallAction, Post, CallStep, Accept, Check, Send, Respond, GiveUp
<1>4. GroupAction => Failure \/ UNCHANGED failures
  BY DEF GroupAction, HearGroup, RefreshStep, Fetch, StoreGroupParticipants, SyncGroup, ChangeMembership
<1>. QED  BY <1>1, <1>2, <1>3, <1>4, Actions DEF FaultsCounted, clientVars

-----------------------------------------------------------------------------
(* Instances.                                                              *)

\* Taking the connection gives the taker a client, and the others none that they had not.
LEMMA TakeIsClean ==
  ASSUME CoreOK, NEW i \in Core, Take(i)
  PROVE  /\ stream' = i /\ client' \in [Core -> BOOLEAN] /\ client'[i]
         /\ \A j \in Core : j # i /\ client'[j] => client[j]
BY DEF CoreOK, Take

\* Whatever an instance does keeps what is said of instances: a client is taken only by an
\* instance that connects or had one, and is let go by an instance that stops.
LEMMA CoreKeepsInv == CoreInv /\ CoreAction => CoreInv'
<1>. SUFFICES ASSUME CoreOK, ClientsAreOfInstances, OneAtATime, CoreAction
              PROVE  CoreOK' /\ ClientsAreOfInstances' /\ OneAtATime'
  BY DEF CoreInv
<1>. USE ClientAssumption DEF Core
<1>1. ASSUME NEW i \in Core, StartCore(i)
      PROVE  CoreOK' /\ ClientsAreOfInstances' /\ OneAtATime'
  <2>1. CoreOK'
    BY <1>1 DEF StartCore, CoreOK
  <2>2. ClientsAreOfInstances'
    BY <1>1 DEF StartCore, CoreOK, ClientsAreOfInstances
  <2>3. OneAtATime'
    BY <1>1 DEF StartCore, CoreOK, OneAtATime
  <2>. QED  BY <2>1, <2>2, <2>3
<1>2. ASSUME NEW i \in Core, Connect(i)
      PROVE  CoreOK' /\ ClientsAreOfInstances' /\ OneAtATime'
  <2>1. CASE core' = [core EXCEPT ![i] = "settling"] /\ Take(i)
    <3>1. CoreOK'
      BY <1>2, <2>1, TakeIsClean DEF Connect, CoreOK
    <3>2. ClientsAreOfInstances'
      BY <1>2, <2>1, TakeIsClean DEF Connect, CoreOK, ClientsAreOfInstances
    <3>3. OneAtATime'
      BY <1>2, <2>1 DEF Connect, CoreOK, OneAtATime
    <3>. QED  BY <3>1, <3>2, <3>3
  <2>2. CASE core' = [core EXCEPT ![i] = "ended"] /\ UNCHANGED <<stream, client>>
    BY <1>2, <2>2 DEF Connect, CoreOK, ClientsAreOfInstances, OneAtATime
  <2>. QED  BY <1>2, <2>1, <2>2 DEF Connect
<1>3. ASSUME NEW i \in Core, Settle(i)
      PROVE  CoreOK' /\ ClientsAreOfInstances' /\ OneAtATime'
  <2>1. CASE stream = i
    BY <1>3, <2>1 DEF Settle, CoreOK, ClientsAreOfInstances, OneAtATime
  <2>2. CASE stream # i
    BY <1>3, <2>2 DEF Settle, CoreOK, ClientsAreOfInstances, OneAtATime
  <2>. QED  BY <2>1, <2>2
<1>4. ASSUME NEW i \in Core, Stop(i)
      PROVE  CoreOK' /\ ClientsAreOfInstances' /\ OneAtATime'
  <2>1. CoreOK'
    BY <1>4 DEF Stop, CoreOK
  <2>2. ClientsAreOfInstances' /\ OneAtATime'
    BY <1>4 DEF Stop, CoreOK, ClientsAreOfInstances, OneAtATime
  <2>. QED  BY <2>1, <2>2
<1>5. ASSUME NEW i \in Core, Reconnect(i)
      PROVE  CoreOK' /\ ClientsAreOfInstances' /\ OneAtATime'
  <2>1. CoreOK'
    BY <1>5, TakeIsClean DEF Reconnect, CoreOK
  <2>2. ClientsAreOfInstances' /\ OneAtATime'
    BY <1>5, TakeIsClean DEF Reconnect, CoreOK, ClientsAreOfInstances, OneAtATime
  <2>. QED  BY <2>1, <2>2
<1>6. ASSUME NEW i \in Core, Listen(i) \/ Cancel(i)
      PROVE  CoreOK' /\ ClientsAreOfInstances' /\ OneAtATime'
  <2>1. CASE Listen(i)
    <3>1. CoreOK'
      BY <2>1 DEF Listen, CoreOK
    <3>2. ClientsAreOfInstances' /\ OneAtATime'
      BY <2>1 DEF Listen, ClientsAreOfInstances, OneAtATime
    <3>. QED  BY <3>1, <3>2
  <2>2. CASE Cancel(i)
    <3>1. CoreOK'
      BY <2>2 DEF Cancel, CoreOK
    <3>2. ClientsAreOfInstances' /\ OneAtATime'
      BY <2>2 DEF Cancel, CoreOK, ClientsAreOfInstances, OneAtATime
    <3>. QED  BY <3>1, <3>2
  <2>. QED  BY <1>6, <2>1, <2>2
<1>7. CASE LoseConnection
  BY <1>7 DEF LoseConnection, CoreOK, ClientsAreOfInstances, OneAtATime
<1>. QED  BY <1>1, <1>2, <1>3, <1>4, <1>5, <1>6, <1>7 DEF CoreAction, CoreStep

-----------------------------------------------------------------------------
(* Calls and groups.                                                       *)

\* Whatever a call does keeps the count of what WhatsApp took in step with the REST server.
LEMMA CallKeepsInv == CallInv /\ CoreOK /\ CallAction => CallInv'
<1>. SUFFICES ASSUME CallOK, SendsAreCounted, CoreOK, NEW c \in Call,
                     Post(c) \/ CallStep(c) \/ GiveUp(c)
              PROVE  CallOK' /\ SendsAreCounted'
  BY DEF CallInv, CallAction
<1>1. CASE Post(c) \/ Respond(c) \/ GiveUp(c)
  BY <1>1 DEF Post, Respond, GiveUp, CallOK, SendsAreCounted
<1>2. CASE Accept(c)
  BY <1>2 DEF Accept, CallOK, SendsAreCounted, CoreOK
<1>3. CASE Check(c)
  BY <1>3 DEF Check, CallOK, SendsAreCounted
<1>4. CASE Send(c)
  <2>1. CASE sent' = [sent EXCEPT ![c] = @ + 1]
    BY <1>4, <2>1 DEF Send, CallOK, SendsAreCounted
  <2>2. CASE sent' = sent
    BY <1>4, <2>2 DEF Send, CallOK, SendsAreCounted
  <2>. QED  BY <1>4, <2>1, <2>2 DEF Send
<1>. QED  BY <1>1, <1>2, <1>3, <1>4 DEF CallStep

\* Refreshes and syncs store versions that the membership has had.
LEMMA GroupKeepsType == GroupOK /\ CoreOK /\ GroupAction => GroupOK'
<1>. SUFFICES ASSUME GroupOK, CoreOK, GroupAction PROVE GroupOK'
  OBVIOUS
<1>. USE ClientAssumption DEF GroupOK, Version, Unfetched, Free
<1>1. ASSUME NEW k \in 1..MaxRefresh, HearGroup(k) PROVE GroupOK'
  BY <1>1 DEF HearGroup, CoreOK
<1>2. ASSUME NEW k \in 1..MaxRefresh, Fetch(k) PROVE GroupOK'
  <2>1. refresh[k] \in [core : 0..MaxCore, version : 0..Unfetched]
    OBVIOUS
  <2>2. CASE refresh' = [refresh EXCEPT ![k].version = membership]
    <3>1. [refresh[k] EXCEPT !.version = membership]
            \in [core : 0..MaxCore, version : 0..Unfetched]
      BY <2>1
    <3>2. refresh' = [refresh EXCEPT ![k] = [refresh[k] EXCEPT !.version = membership]]
      BY <2>2
    <3>. QED  BY <1>2, <3>1, <3>2 DEF Fetch
  <2>3. CASE refresh' = [refresh EXCEPT ![k] = Free]
    BY <1>2, <2>3 DEF Fetch
  <2>. QED  BY <1>2, <2>2, <2>3 DEF Fetch
<1>3. ASSUME NEW k \in 1..MaxRefresh, StoreGroupParticipants(k) PROVE GroupOK'
  BY <1>3 DEF StoreGroupParticipants
<1>4. CASE SyncGroup \/ ChangeMembership
  BY <1>4 DEF SyncGroup, ChangeMembership
<1>. QED  BY <1>1, <1>2, <1>3, <1>4 DEF GroupAction, RefreshStep

-----------------------------------------------------------------------------

\* The inductive invariant.
ClientInv == CoreInv /\ CallInv /\ GroupOK /\ FaultsCounted

\* No instance, no call, no refresh.
LEMMA ClientInitially == ClientInit => ClientInv
<1>. SUFFICES ASSUME ClientInit PROVE ClientInv
  OBVIOUS
<1>1. CoreInv
  BY ClientAssumption DEF ClientInit, CoreInv, CoreOK, ClientsAreOfInstances, OneAtATime, Core
<1>2. CallInv
  BY ClientAssumption DEF ClientInit, CallInv, CallOK, SendsAreCounted
<1>3. GroupOK /\ FaultsCounted
  BY ClientAssumption DEF ClientInit, GroupOK, FaultsCounted, Version, Unfetched, Free
<1>. QED  BY <1>1, <1>2, <1>3 DEF ClientInv

\* The invariant is inductive: each kind of action keeps its part and leaves the others alone.
LEMMA Inductive == ClientInv /\ [ClientNext]_clientVars => ClientInv'
<1>. SUFFICES ASSUME ClientInv, [ClientNext]_clientVars PROVE ClientInv'
  OBVIOUS
<1>1. UNCHANGED coreVars => CoreInv'
  BY DEF ClientInv, CoreInv, CoreOK, ClientsAreOfInstances, OneAtATime, coreVars
<1>2. UNCHANGED callVars => CallInv'
  BY DEF ClientInv, CallInv, CallOK, SendsAreCounted, callVars
<1>3. UNCHANGED groupVars => GroupOK'
  BY DEF ClientInv, GroupOK, groupVars
<1>4. FaultsCounted'
  BY FaultsAreCounted DEF ClientInv
<1>5. CASE CoreAction
  BY <1>2, <1>3, <1>4, <1>5, CoreKeepsInv, OthersAreLeftAlone DEF ClientInv
<1>6. CASE CallAction
  BY <1>1, <1>3, <1>4, <1>6, CallKeepsInv, OthersAreLeftAlone DEF ClientInv, CoreInv
<1>7. CASE GroupAction
  BY <1>1, <1>2, <1>4, <1>7, GroupKeepsType, OthersAreLeftAlone DEF ClientInv, CoreInv
<1>8. CASE UNCHANGED clientVars
  BY <1>1, <1>2, <1>3, <1>4, <1>8 DEF ClientInv, clientVars
<1>. QED  BY <1>5, <1>6, <1>7, <1>8, Actions

\* It holds in every state.
LEMMA ClientInvariant == ClientSpec => []ClientInv
BY ClientInitially, Inductive, PTL DEF ClientSpec

\* The state of instances, calls and refreshes is well typed, and whoever has the
\* connection is to connect again when it is lost (daemon.go:91-144).
THEOREM ClientTypeCorrect == ClientSpec => []ClientTypeOK
<1>1. ClientInv => ClientTypeOK
  BY Parts DEF ClientInv, CoreInv, CallInv
<1>. QED  BY <1>1, ClientInvariant, PTL

\* For any number of instances and sends: what is reported as sent was taken once, what
\* was refused was not taken (client.go:35-176, service.go:862-876).
THEOREM ReportsAreTrue == ClientSpec => []ReportedAsSent
<1>1. ClientInv => ReportedAsSent
  BY DEF ClientInv, CallInv, CallOK, SendsAreCounted, ReportedAsSent
<1>. QED  BY <1>1, ClientInvariant, PTL

\* For any number of instances the connection is that of a client whose store is open,
\* or that StartCore has left behind (daemon.go:115-145).
THEOREM ConnectionIsServed == ClientSpec => []ConnectionHasAStore
<1>1. ClientInv => ConnectionHasAStore
  BY ClientAssumption
     DEF ClientInv, CoreInv, CoreOK, ClientsAreOfInstances, ConnectionHasAStore, Open, Core
<1>. QED  BY <1>1, ClientInvariant, PTL

\* For any number of instances only a cancelled or left one takes the connection of one
\* at work: at most one instance that is not cancelled has not ended (daemon.go:59, 115-145).
THEOREM OnlyStaleOnesTakeOver == ClientSpec => OnlyStaleClientsTakeOver
<1>. DEFINE A == \A i \in Core \ cancelled :
                   core[i] = "serving" /\ client[i] /\ ~client'[i] =>
                     stream' \in cancelled \cup left
<1>1. ClientInv /\ [ClientNext]_clientVars => [A]_clientVars
  <2>. SUFFICES ASSUME ClientInv, ClientNext, NEW i \in Core, i \notin cancelled, core[i] = "serving",
                       client[i], ~client'[i]
                PROVE  stream' \in cancelled \cup left
    OBVIOUS
  <2>1. ASSUME NEW j \in Core, j # i, core[j] # "none" PROVE core[j] = "ended" \/ j \in cancelled
    <3>1. j < i
      BY <2>1, ClientAssumption DEF ClientInv, CoreInv, OneAtATime, Core
    <3>. QED  BY <2>1, <3>1, ClientAssumption DEF ClientInv, CoreInv, OneAtATime
  <2>2. ASSUME NEW j \in Core, Connect(j) PROVE stream' \in cancelled \cup left
    <3>1. Take(j) /\ core[j] = "connecting" /\ j # i
      BY <2>2 DEF Connect
    <3>. QED  BY <2>1, <3>1 DEF Take
  <2>3. ASSUME NEW j \in Core, Reconnect(j) PROVE stream' \in cancelled \cup left
    <3>1. Take(j) /\ client[j] /\ j # i
      BY <2>3, TakeIsClean DEF Reconnect, ClientInv, CoreInv
    <3>2. core[j] \in {"settling", "serving"} \/ j \in left
      BY <3>1 DEF ClientInv, CoreInv, ClientsAreOfInstances
    <3>. QED  BY <2>1, <3>1, <3>2 DEF Take
  <2>4. ASSUME NEW j \in Core, Stop(j) PROVE FALSE
    BY <2>4 DEF Stop, ClientInv, CoreInv, CoreOK
  <2>5. ASSUME UNCHANGED client PROVE FALSE
    BY <2>5
  <2>6. CASE CoreAction
    BY <2>2, <2>3, <2>4, <2>5, <2>6
       DEF CoreAction, CoreStep, StartCore, Settle, Listen, Cancel, LoseConnection
  <2>7. CASE CallAction \/ GroupAction
    BY <2>5, <2>7, OthersAreLeftAlone DEF coreVars
  <2>. QED  BY <2>6, <2>7, Actions
<1>. QED  BY <1>1, ClientInvariant, PTL DEF ClientSpec, OnlyStaleClientsTakeOver
==============================================================================
