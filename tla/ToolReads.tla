------------------------------- MODULE ToolReads -------------------------------
(***************************************************************************)
(* One question of an MCP client, while the daemon goes on writing.  The   *)
(* read tools open no transaction: an answer is put together from several  *)
(* statements (the pages, the hits and then what stands around them, the   *)
(* ranking and then the entries it names), and between any two of them     *)
(* messages arrive and entries are indexed and pruned.                     *)
(*                                                                         *)
(*   list_messages     pages of WhatsApp messages, newest first            *)
(*   search_messages   list_messages with a query: the best matches        *)
(*   search            the best entries of the search store                *)
(*   get_thread        the visible text of an email                        *)
(***************************************************************************)
EXTENDS VisibleBody, Sorting, SequencesExt

CONSTANTS
  Message,       \* [id, chat, sender, time, score]; a score of 0 does not match
  Filter,        \* [chat, sender, after, before]; Anyone and 0 ask for nothing
  Anyone,
  Before, After, \* context_before and context_after
  Key,           \* of entries of the search store: source, source_id, content_type
  EntryText,     \* [score, boost] of a text; a score of 0 does not match
  Limit,
  PoolFactor,    \* 5: what is ranked for each result
  MaxId          \* bound: rowids given out

ASSUME LimitAssumption == {Limit, PoolFactor} \subseteq Nat \ {0} /\ {Before, After} \subseteq Nat
ASSUME MessageAssumption ==
  /\ \A m \in Message : {m.id, m.time, m.score} \subseteq Nat
  /\ \A m, n \in Message : m.id = n.id => m = n
ASSUME EntryAssumption ==
  IsFiniteSet(Key) /\ \A t \in EntryText : {t.score, t.boost} \subseteq Nat

VARIABLES
  request,       \* the tool and what it is asked; it does not change
  reading,       \* the next statement: "rows", "hits", "context"; "done"
  found,         \* what the last statement found: messages, or entries with their scores
  shown,         \* the last answer
  messages,      \* the rows of whatsapp/messages.db
  page,          \* of list_messages: the one to read next
  entries,       \* search_entries with search_fts: Key -> [id, text], id 0 if there is none
  lastId         \* of AUTOINCREMENT

messageVars == <<messages, page>>
searchVars == <<entries, lastId>>
readVars == <<request, reading, found, shown, messageVars, searchVars>>

NoEntry == [id |-> 0, text |-> [score |-> 0, boost |-> 0]]

Request ==
  [tool : {"list_messages", "search_messages"}, filter : Filter]
    \cup [tool : {"search"}] \cup [tool : {"get_thread"}, body : Body]

ReadInit ==
  /\ request \in Request /\ reading = "rows" /\ found = <<>> /\ shown = <<>>
  /\ messages = {} /\ page = 0
  /\ entries = [k \in Key |-> NoEntry] /\ lastId = 0

Foremost(n, s) == SubSeq(s, 1, Min({n, Len(s)}))
Hindmost(n, s) == SubSeq(s, Max({1, Len(s) - n + 1}), Len(s))

-----------------------------------------------------------------------------
(* WhatsApp messages (service.go).                                           *)

\* Messages of the same second come in some order, always the same.
Earlier ==
  {p \in Message \X Message :
     p[1].time < p[2].time \/ (p[1].time = p[2].time /\ p[1].id < p[2].id)}
Oldest(rows) == Sorted(rows, Earlier)
Newest(rows) == Reverse(Oldest(rows))

InRange(m, f) ==
  /\ f.chat \in {Anyone, m.chat}
  /\ f.after # 0 => m.time > f.after
  /\ f.before # 0 => m.time < f.before
IsFrom(m, f) == f.sender \in {Anyone, m.sender}

PageOf(n, s) == SubSeq(s, n * Limit + 1, Min({(n + 1) * Limit, Len(s)}))

\* listMessagesChronological.
ListPage ==
  /\ request.tool = "list_messages" /\ reading = "rows"
  /\ LET f == request.filter
         rows == PageOf(page, Newest({m \in messages : InRange(m, f) /\ IsFrom(m, f)}))
     IN  /\ found' = rows
         /\ reading' = IF rows = <<>> THEN "done" ELSE "context"
  /\ page' = page + 1
  /\ UNCHANGED <<request, shown, messages, searchVars>>

Better ==
  {p \in Message \X Message :
     p[1].score > p[2].score \/ (p[1].score = p[2].score /\ p[1].id < p[2].id)}

\* bm25Search, cut to the limit: the rest of the pool is not used.
RankMessages ==
  /\ request.tool = "search_messages" /\ reading = "rows"
  /\ LET matches == {m \in messages : m.score > 0 /\ InRange(m, request.filter)}
     IN  found' = Foremost(Limit, Foremost(Limit * PoolFactor, Sorted(matches, Better)))
  /\ reading' = IF found' = <<>> THEN "done" ELSE "hits"
  /\ UNCHANGED <<request, shown, messageVars, searchVars>>

\* loadRankedMessages, in the order of the ranking, and only now the sender.
LoadMessages ==
  /\ request.tool = "search_messages" /\ reading = "hits"
  /\ LET ranked == {found[i] : i \in DOMAIN found}
     IN  found' = Sorted({m \in ranked \cap messages : IsFrom(m, request.filter)}, Better)
  /\ reading' = IF found' = <<>> THEN "done" ELSE "context"
  /\ UNCHANGED <<request, shown, messageVars, searchVars>>

\* messagesAround, for GetMessageContext.
MessagesBefore(m) ==
  Foremost(Before, Newest({n \in messages : n.chat = m.chat /\ n.time < m.time}))
MessagesAfter(m) ==
  Foremost(After, Oldest({n \in messages : n.chat = m.chat /\ n.time > m.time}))
GetMessageContext(m) == MessagesBefore(m) \o <<m>> \o MessagesAfter(m)

\* Mutant of Numbered: the rows are not numbered chat by chat.
NumberedTogether(chat) == Oldest(messages)

\* ROW_NUMBER() OVER (PARTITION BY chat_jid ORDER BY timestamp).
Numbered(chat) == Oldest({m \in messages : m.chat = chat})

\* The rows within reach of a hit; those before it are turned around.
ContextOf(m) ==
  LET rows == Numbered(m.chat)
      rn == CHOOSE i \in DOMAIN rows : rows[i] = m
  IN  Reverse(Hindmost(Before, SubSeq(rows, 1, rn - 1))) \o <<m>>
        \o Foremost(After, SubSeq(rows, rn + 1, Len(rows)))

ExpandContext ==
  /\ reading = "context"
  /\ shown' = FlattenSeq([i \in DOMAIN found |-> ContextOf(found[i])])
  /\ reading' = IF request.tool = "list_messages" THEN "rows" ELSE "done"
  /\ UNCHANGED <<request, found, messageVars, searchVars>>

\* StoreMessage, in the daemon.
Arrive ==
  /\ request.tool \in {"list_messages", "search_messages"} /\ reading # "done"
  /\ \E m \in Message \ messages : messages' = messages \cup {m}
  /\ UNCHANGED <<request, reading, found, shown, page, searchVars>>

-----------------------------------------------------------------------------
(* The search store (search_store.go).                                       *)

\* Mutant of NewId: without AUTOINCREMENT the next id is one above the largest in use.
NextFreeId == 1 + Max({entries[k].id : k \in Key})

NewId == lastId + 1

\* upsertEntry: the entry keeps its id.
Upsert ==
  /\ request.tool = "search" /\ reading # "done"
  /\ \E k \in Key, t \in EntryText :
       LET id == IF entries[k] = NoEntry THEN NewId ELSE entries[k].id IN
       /\ id <= MaxId
       /\ entries' = [entries EXCEPT ![k] = [id |-> id, text |-> t]]
       /\ lastId' = Max({lastId, id})
  /\ UNCHANGED <<request, reading, found, shown, messageVars>>

Prune ==
  /\ request.tool = "search" /\ reading # "done"
  /\ \E k \in Key : entries[k] # NoEntry /\ entries' = [entries EXCEPT ![k] = NoEntry]
  /\ UNCHANGED <<request, reading, found, shown, messageVars, lastId>>

\* bm25SearchEntries; the key is history: the code keeps the id and the score.
RankEntries ==
  /\ request.tool = "search" /\ reading = "rows"
  /\ LET matches == {[id |-> entries[k].id, score |-> entries[k].text.score, key |-> k] :
                       k \in {k \in Key : entries[k].text.score > 0}}
         order == {p \in matches \X matches :
                     p[1].score > p[2].score \/ (p[1].score = p[2].score /\ p[1].id < p[2].id)}
     IN  found' = Foremost(Limit * PoolFactor, Sorted(matches, order))
  /\ reading' = "hits"
  /\ UNCHANGED <<request, shown, messageVars, searchVars>>

EntryOf(id) == {k \in Key : id # 0 /\ entries[k].id = id}

\* The score of the ranking, with the boost of the entry as it is by now.
Final(result) == result.score * result.boost
Loaded ==
  LET Result(e) == {[id |-> e.id, key |-> k, score |-> e.score, boost |-> entries[k].text.boost]
                      : k \in EntryOf(e.id)}
  IN  UNION {Result(found[i]) : i \in DOMAIN found}

\* sort.Slice is not stable, but what it is given always comes in the same order.
Best(results) ==
  LET order == {p \in results \X results :
                  Final(p[1]) > Final(p[2]) \/ (Final(p[1]) = Final(p[2]) /\ p[1].id < p[2].id)}
  IN  Foremost(Limit, Sorted(results, order))

\* loadResults, cut to the limit.
LoadEntries ==
  /\ request.tool = "search" /\ reading = "hits"
  /\ shown' = Best(Loaded)
  /\ reading' = "done"
  /\ UNCHANGED <<request, found, messageVars, searchVars>>

-----------------------------------------------------------------------------
(* Emails (app_gmail.go).                                                    *)

ShowEmail ==
  /\ request.tool = "get_thread" /\ reading = "rows"
  /\ shown' = SubSeq(request.body, 1, Visible(request.body))
  /\ reading' = "done"
  /\ UNCHANGED <<request, found, messageVars, searchVars>>

-----------------------------------------------------------------------------

ReadNext ==
  \/ ListPage \/ RankMessages \/ LoadMessages \/ ExpandContext \/ Arrive
  \/ Upsert \/ Prune \/ RankEntries \/ LoadEntries
  \/ ShowEmail

ReadSpec == ReadInit /\ [][ReadNext]_readVars

-----------------------------------------------------------------------------

\* The context that one statement collects for all the hits is for each of them what
\* get_message_context would show - except that the latter leaves out messages of the
\* same second, so this is said of chats without any (service.go:281-330, 333-470).
ContextIsThatOfEachHit ==
  [][reading = "context" /\ reading' # "context"
       /\ (\A m, n \in messages : m.chat = n.chat /\ m.time = n.time => m = n)
     => shown' = FlattenSeq([i \in DOMAIN found |-> GetMessageContext(found[i])])]_readVars

\* A search shows only entries that were ranked, even if others were written between its
\* two statements, and leaves none out that is still there in favour of a worse one
\* (search_store.go:334-350, 504-589).
SearchShowsTheBest ==
  [][reading = "hits" /\ request.tool = "search" /\ reading' = "done" =>
       LET ranked == {e \in {found[i] : i \in DOMAIN found} : entries[e.key].id = e.id}
           Score(e) == e.score * entries[e.key].text.boost
           shownIds == {shown'[i].id : i \in DOMAIN shown'}
       IN  /\ \A i \in DOMAIN shown' :
                \E e \in ranked : e.id = shown'[i].id /\ e.key = shown'[i].key
           /\ Len(shown') = Min({Limit, Cardinality(ranked)})
           /\ \A e \in ranked : e.id \notin shownIds =>
                \A d \in ranked : d.id \in shownIds => Score(d) >= Score(e)]_readVars

\* No email loses text that its author may have written: the visible body is never
\* empty, and a line of text that is not in it comes after the start of a reply or of a
\* block of two headers, with something authored above (app_gmail.go:307-445).
AuthoredTextIsKept ==
  request.tool = "get_thread" /\ reading = "done" =>
    LET b == request.body IN
    /\ shown # <<>>
    /\ \A i \in (Len(shown) + 1)..Len(b) : b[i].looks = "text" =>
         \E j \in 2..(i - 1) :
           /\ \/ b[j].looks = "boundary"
              \/ b[j].looks = "header" /\ \E k \in (j + 1)..(i - 1) : b[k].looks = "header"
           /\ \E k \in 1..(j - 1) : b[k].looks \in {"text", "header", "boundary", "signature"}
=============================================================================
