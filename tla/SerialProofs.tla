---------------------------- MODULE SerialProofs ----------------------------
(***************************************************************************)
(* Theorems about the server when requests overlap less than they may, for *)
(* every set of users, messages, calls and requests.  When first contacts  *)
(* do not overlap, with any number of errors and crashes: chat_ids and     *)
(* chats are unique, and a success means a visible message.  When requests *)
(* come one at a time and no call fails: the chat lists are up to date.    *)
(***************************************************************************)
EXTENDS StorageProofs

----------------------------------------------------------------------------
(* Conversations in collections without duplicates                         *)

UniqueIds(ids) ==
    \A i, j \in 1..Len(ids) : ids[i].chat_id = ids[j].chat_id => i = j

UniquePairs(ids) ==
    \A i, j \in 1..Len(ids) : SamePair(ids[i], ids[j].user1, ids[j].user2) => i = j

UniqueLogs(docs) ==
    \A i, j \in 1..Len(docs) : docs[i].chat_id = docs[j].chat_id => i = j

\* No document has the chat_id.
Unlogged(docs, id) == \A j \in 1..Len(docs) : docs[j].chat_id # id

\* A row names the users of a pair in either order.
LEMMA PairIsUsers ==
    ASSUME NEW c, NEW a, NEW b
    PROVE  SamePair(c, a, b) <=> UsersOf(c) = {a, b}
BY DEF SamePair, UsersOf

\* Rows of one pair are one row.
LEMMA OneRow ==
    ASSUME NEW ids, UniquePairs(ids), NEW a, NEW b,
           NEW i \in 1..Len(ids), SamePair(ids[i], a, b),
           NEW j \in 1..Len(ids), SamePair(ids[j], a, b)
    PROVE  i = j
BY DEF UniquePairs, SamePair

\* The conversation of a pair that has a row is the document with its chat_id.
LEMMA RowOfPair ==
    ASSUME NEW ids, Len(ids) \in Nat, UniquePairs(ids), NEW a, NEW b,
           NEW i \in 1..Len(ids), SamePair(ids[i], a, b)
    PROVE  FirstChat(ids, a, b) = i
<1>1. /\ FirstChat(ids, a, b) \in 1..Len(ids)
      /\ SamePair(ids[FirstChat(ids, a, b)], a, b)
  BY FirstChatLemma
<1> QED
  BY <1>1, OneRow

LEMMA TalkIs ==
    ASSUME NEW ids, Len(ids) \in Nat, UniquePairs(ids), NEW a, NEW b,
           NEW i \in 1..Len(ids), SamePair(ids[i], a, b),
           NEW docs, Len(docs) \in Nat, UniqueLogs(docs),
           NEW j \in 1..Len(docs), docs[j].chat_id = ids[i].chat_id
    PROVE  Talk(ids, docs, a, b) = docs[j].messages
<1>1. FirstChat(ids, a, b) = i
  BY RowOfPair
<1>2. FirstLog(docs, ids[i].chat_id) = j
  BY FirstLogLemma DEF UniqueLogs
<1> QED
  BY <1>1, <1>2 DEF Talk

LEMMA TalkIsEmpty ==
    ASSUME NEW ids, Len(ids) \in Nat, UniquePairs(ids), NEW a, NEW b,
           NEW i \in 1..Len(ids), SamePair(ids[i], a, b),
           NEW docs, Len(docs) \in Nat, Unlogged(docs, ids[i].chat_id)
    PROVE  Talk(ids, docs, a, b) = <<>>
<1>1. FirstChat(ids, a, b) = i
  BY RowOfPair
<1>2. FirstLog(docs, ids[i].chat_id) = 0
  BY FirstLogLemma DEF Unlogged
<1> QED
  BY <1>1, <1>2 DEF Talk

LEMMA NoTalk ==
    ASSUME NEW ids, Len(ids) \in Nat, NEW docs, NEW a, NEW b,
           \A i \in 1..Len(ids) : ~SamePair(ids[i], a, b)
    PROVE  FirstChat(ids, a, b) = 0 /\ Talk(ids, docs, a, b) = <<>>
<1>1. FirstChat(ids, a, b) = 0
  BY FirstChatLemma
<1> QED
  BY <1>1 DEF Talk

\* Collections in which every pair reads the same documents read the same.
LEMMA SameTalk ==
    ASSUME NEW ids, Len(ids) \in Nat, NEW ids2, Len(ids2) \in Nat,
           NEW docs, Len(docs) \in Nat, NEW docs2, Len(docs2) \in Nat,
           UniquePairs(ids), UniquePairs(ids2), UniqueLogs(docs), UniqueLogs(docs2),
           NEW a, NEW b, NEW i \in 1..Len(ids), i \in 1..Len(ids2), ids2[i] = ids[i],
           SamePair(ids[i], a, b),
           \A j \in 1..Len(docs) : docs[j].chat_id = ids[i].chat_id =>
               j \in 1..Len(docs2) /\ docs2[j] = docs[j],
           Unlogged(docs, ids[i].chat_id) => Unlogged(docs2, ids[i].chat_id)
    PROVE  Talk(ids2, docs2, a, b) = Talk(ids, docs, a, b)
<1>1. CASE Unlogged(docs, ids[i].chat_id)
  BY <1>1, TalkIsEmpty
<1>2. CASE ~Unlogged(docs, ids[i].chat_id)
  <2>1. PICK j \in 1..Len(docs) : docs[j].chat_id = ids[i].chat_id
    BY <1>2 DEF Unlogged
  <2>2. Talk(ids, docs, a, b) = docs[j].messages
    <3>1. FirstChat(ids, a, b) = i
      BY RowOfPair
    <3>2. FirstLog(docs, ids[i].chat_id) = j
      BY <2>1, FirstLogLemma DEF UniqueLogs
    <3> QED
      BY <3>1, <3>2 DEF Talk
  <2>3. Talk(ids2, docs2, a, b) = docs2[j].messages
    <3>1. /\ j \in 1..Len(docs2) /\ docs2[j].chat_id = ids2[i].chat_id
          /\ SamePair(ids2[i], a, b)
      BY <2>1
    <3> QED
      BY <3>1, TalkIs
  <2> QED
    BY <2>1, <2>2, <2>3
<1> QED
  BY <1>1, <1>2

\* A row whose chat_id has no document changes no conversation.
LEMMA RowTalks ==
    ASSUME NEW ids \in Seq(ChatId), NEW row \in ChatId, NEW docs \in Seq(ChatLog),
           UniquePairs(ids), UniquePairs(Append(ids, row)), UniqueLogs(docs),
           Unlogged(docs, row.chat_id), NEW a, NEW b
    PROVE  Talk(Append(ids, row), docs, a, b) = Talk(ids, docs, a, b)
<1> DEFINE n == Len(ids) + 1
           ids2 == Append(ids, row)
<1>1. /\ ids2 \in Seq(ChatId) /\ Len(ids2) = n /\ Len(ids) \in Nat
      /\ \A i \in 1..Len(ids) : ids2[i] = ids[i]
      /\ ids2[n] = row
  BY AppendFacts, LenProperties
<1> HIDE DEF ids2
<1>2. UniquePairs(ids2)
  BY DEF ids2
<1>3. CASE \E i \in 1..Len(ids) : SamePair(ids[i], a, b)
  <2>1. PICK i \in 1..Len(ids) : SamePair(ids[i], a, b)
    BY <1>3
  <2>2. i \in 1..Len(ids2) /\ SamePair(ids2[i], a, b) /\ ids2[i].chat_id = ids[i].chat_id
    BY <1>1, <2>1
  <2>3. Talk(ids2, docs, a, b) = Talk(ids, docs, a, b)
    <3>1. Len(ids) \in Nat /\ Len(ids2) \in Nat
      BY <1>1
    <3>2. FirstChat(ids, a, b) = i
      BY <2>1, <3>1, RowOfPair
    <3>3. FirstChat(ids2, a, b) = i
      BY <1>2, <2>2, <3>1, RowOfPair
    <3> QED
      BY <2>2, <3>2, <3>3 DEF Talk
  <2> QED
    BY <2>3 DEF ids2
<1>4. CASE \A i \in 1..Len(ids) : ~SamePair(ids[i], a, b)
  <2>1. Talk(ids, docs, a, b) = <<>>
    BY <1>4, NoTalk
  <2>2. Talk(ids2, docs, a, b) = <<>>
    <3>1. CASE SamePair(ids2[n], a, b)
      BY <1>1, <1>2, <3>1, TalkIsEmpty
    <3>2. CASE ~SamePair(ids2[n], a, b)
      <4>1. Len(ids2) \in Nat /\ \A i \in 1..Len(ids2) : ~SamePair(ids2[i], a, b)
        BY <1>1, <1>4, <3>2
      <4> QED
        BY <4>1, NoTalk
    <3> QED
      BY <3>1, <3>2
  <2> QED
    BY <2>1, <2>2 DEF ids2
<1> QED
  BY <1>3, <1>4

\* With docs2 for docs, the conversation of the users of c has grown by e.
TalkGrown(ids, docs, docs2, c, e, a, b) ==
    Talk(ids, docs2, a, b) =
        IF SamePair(c, a, b) THEN Append(Talk(ids, docs, a, b), e)
                             ELSE Talk(ids, docs, a, b)

\* A message at the end of a document is added to the conversation of one pair.
LEMMA PushTalks ==
    ASSUME NEW ids \in Seq(ChatId), NEW docs \in Seq(ChatLog), NEW docs2 \in Seq(ChatLog),
           UniqueIds(ids), UniquePairs(ids), UniqueLogs(docs), Len(docs2) = Len(docs),
           NEW k \in 1..Len(ids), NEW doc \in 1..Len(docs), NEW e,
           docs[doc].chat_id = ids[k].chat_id,
           \A j \in 1..Len(docs) : /\ docs2[j].chat_id = docs[j].chat_id
                                   /\ j # doc => docs2[j] = docs[j],
           docs2[doc].messages = Append(docs[doc].messages, e), NEW a, NEW b
    PROVE  TalkGrown(ids, docs, docs2, ids[k], e, a, b)
<1> USE DEF TalkGrown
<1>1. UniqueLogs(docs2)
  BY DEF UniqueLogs
<1>2. CASE SamePair(ids[k], a, b)
  <2>1. /\ docs2[doc].chat_id = ids[k].chat_id /\ doc \in 1..Len(docs2)
        /\ Len(ids) \in Nat /\ Len(docs) \in Nat /\ Len(docs2) \in Nat
    OBVIOUS
  <2>2. Talk(ids, docs, a, b) = docs[doc].messages
    BY <1>2, <2>1, TalkIs
  <2>3. Talk(ids, docs2, a, b) = docs2[doc].messages
    BY <1>1, <1>2, <2>1, TalkIs
  <2> QED
    BY <1>2, <2>2, <2>3
<1>3. CASE ~SamePair(ids[k], a, b) /\ \E i \in 1..Len(ids) : SamePair(ids[i], a, b)
  <2>1. PICK i \in 1..Len(ids) : SamePair(ids[i], a, b)
    BY <1>3
  <2>2. ids[i].chat_id # ids[k].chat_id
    BY <1>3, <2>1 DEF UniqueIds
  <2>3. \A j \in 1..Len(docs) : docs[j].chat_id = ids[i].chat_id =>
            j \in 1..Len(docs2) /\ docs2[j] = docs[j]
    BY <2>2
  <2>4. Unlogged(docs, ids[i].chat_id) => Unlogged(docs2, ids[i].chat_id)
    BY DEF Unlogged
  <2>5. Len(ids) \in Nat /\ Len(docs) \in Nat /\ Len(docs2) \in Nat
    OBVIOUS
  <2>6. Talk(ids, docs2, a, b) = Talk(ids, docs, a, b)
    BY <1>1, <2>1, <2>3, <2>4, <2>5, SameTalk
  <2> QED
    BY <1>3, <2>6
<1>4. CASE \A i \in 1..Len(ids) : ~SamePair(ids[i], a, b)
  <2>1. Len(ids) \in Nat
    OBVIOUS
  <2>2. Talk(ids, docs, a, b) = <<>>
    BY <1>4, <2>1, NoTalk
  <2>3. Talk(ids, docs2, a, b) = <<>>
    BY <1>4, <2>1, NoTalk
  <2> QED
    BY <1>4, <2>2, <2>3
<1> HIDE DEF TalkGrown
<1> QED
  BY <1>2, <1>3, <1>4, Zenon

\* So is the first message of a chat, in a document of its own.
LEMMA FirstMessageTalks ==
    ASSUME NEW ids \in Seq(ChatId), NEW docs \in Seq(ChatLog), NEW log \in ChatLog,
           UniqueIds(ids), UniquePairs(ids), UniqueLogs(docs), NEW k \in 1..Len(ids),
           log.chat_id = ids[k].chat_id, Unlogged(docs, ids[k].chat_id),
           NEW e, log.messages = <<e>>, NEW a, NEW b
    PROVE  /\ UniqueLogs(Append(docs, log))
           /\ Talk(ids, Append(docs, log), a, b) =
                  IF SamePair(ids[k], a, b) THEN Append(Talk(ids, docs, a, b), e)
                                            ELSE Talk(ids, docs, a, b)
<1> DEFINE n == Len(docs) + 1
           docs2 == Append(docs, log)
<1>1. /\ docs2 \in Seq(ChatLog) /\ Len(docs2) = n /\ Len(docs) \in Nat
      /\ \A i \in 1..Len(docs) : docs2[i] = docs[i]
      /\ docs2[n] = log
  BY AppendFacts, LenProperties
<1> HIDE DEF docs2
<1>2. UniqueLogs(docs2)
  BY <1>1 DEF UniqueLogs, Unlogged
<1>3. CASE SamePair(ids[k], a, b)
  <2>1. Talk(ids, docs, a, b) = <<>>
    BY <1>3, TalkIsEmpty
  <2>2. Talk(ids, docs2, a, b) = <<e>>
    <3>1. /\ docs2[n].chat_id = ids[k].chat_id /\ docs2[n].messages = <<e>>
          /\ n \in 1..Len(docs2) /\ Len(docs2) \in Nat /\ Len(ids) \in Nat
      BY <1>1, LenProperties
    <3>2. Talk(ids, docs2, a, b) = docs2[n].messages
      <4>1. PICK j \in 1..Len(docs2) : j = n
        BY <3>1
      <4>2. docs2[j].chat_id = ids[k].chat_id
        BY <3>1, <4>1
      <4>3. Talk(ids, docs2, a, b) = docs2[j].messages
        <5> HIDE DEF n
        <5> QED
          BY <1>2, <1>3, <3>1, <4>2, TalkIs
      <4> QED
        BY <4>1, <4>3
    <3> QED
      BY <3>1, <3>2
  <2>3. Append(<<>>, e) = <<e>>
    OBVIOUS
  <2> QED
    BY <1>2, <1>3, <2>1, <2>2, <2>3 DEF docs2
<1>4. CASE ~SamePair(ids[k], a, b) /\ \E i \in 1..Len(ids) : SamePair(ids[i], a, b)
  <2>1. PICK i \in 1..Len(ids) : SamePair(ids[i], a, b)
    BY <1>4
  <2>2. ids[i].chat_id # ids[k].chat_id
    BY <1>4, <2>1 DEF UniqueIds
  <2>3. \A j \in 1..Len(docs) : docs[j].chat_id = ids[i].chat_id =>
            j \in 1..Len(docs2) /\ docs2[j] = docs[j]
    BY <1>1
  <2>4. Unlogged(docs, ids[i].chat_id) => Unlogged(docs2, ids[i].chat_id)
    BY <1>1, <2>2, SMTT(20) DEF Unlogged
  <2>5. Talk(ids, docs2, a, b) = Talk(ids, docs, a, b)
    <3>1. Len(docs) \in Nat /\ Len(docs2) \in Nat
      BY <1>1
    <3> QED
      BY <1>2, <2>1, <2>3, <2>4, <3>1, SameTalk, SMTT(20)
  <2> QED
    BY <1>2, <1>4, <2>5 DEF docs2
<1>5. CASE \A i \in 1..Len(ids) : ~SamePair(ids[i], a, b)
  BY <1>2, <1>5, NoTalk DEF docs2
<1> QED
  BY <1>3, <1>4, <1>5

----------------------------------------------------------------------------
(* The invariant                                                           *)

\* Every document is one of a chat.
LogsHaveRows(ids, docs) ==
    \A j \in 1..Len(docs) : \E i \in 1..Len(ids) : ids[i].chat_id = docs[j].chat_id

CollectionsUnique ==
    /\ UniqueIds(chat_ids) /\ UniquePairs(chat_ids) /\ UniqueLogs(chat_messages)
    /\ LogsHaveRows(chat_ids, chat_messages)

\* Until a request has inserted the chat_id of a new chat, its users have no chat
\* and the chat_id it has chosen is above all others; then no document has it.
OpeningOf(r) ==
    /\ Allocating(r) =>
          \A i \in 1..Len(chat_ids) : ~SamePair(chat_ids[i], call[r].from, call[r].to)
    /\ pc[r] = "insertChatId" =>
          \A i \in 1..Len(chat_ids) : chat_ids[i].chat_id < local[r].chat
    /\ pc[r] = "insertMessages" => Unlogged(chat_messages, local[r].chat)

\* Two requests that open chats have chosen different chat_ids.
OpeningsDiffer ==
    \A r, s \in Requests :
        /\ pc[r] = "insertMessages" /\ pc[s] = "insertMessages"
        /\ local[r].chat = local[s].chat
        => r = s

SerialInv ==
    /\ StorageInv /\ FirstContactsSerial /\ CollectionsUnique /\ OpeningsDiffer
    /\ \A r \in Requests : OpeningOf(r)

LEMMA SerialInit == Init => SerialInv
<1> SUFFICES ASSUME Init PROVE SerialInv
  OBVIOUS
<1>1. StorageInv
  BY StorageInit
<1>2. \A r \in Requests : pc[r] = "idle"
  BY DEF Init, Idle
<1>3. Len(chat_ids) = 0 /\ Len(chat_messages) = 0
  BY DEF Init
<1>4. CollectionsUnique
  BY <1>3 DEF CollectionsUnique, UniqueIds, UniquePairs, UniqueLogs, LogsHaveRows
<1> QED
  BY <1>1, <1>2, <1>4 DEF SerialInv, FirstContactsSerial, Allocating, OpeningsDiffer,
                          OpeningOf

----------------------------------------------------------------------------
(* Steps                                                                   *)

\* A request has its control state, its call and its variables still.
Stays(r) == UNCHANGED <<pc[r], call[r], local[r]>>

\* How a request gets to the calls that open a chat
LEMMA OwnOpenings ==
    ASSUME TypeOK, NEW r \in Requests,
           pc'[r] \in {"lastChatId", "insertChatId", "insertMessages"},
           Receive(r) \/ Step(r) \/ CallFails(r) \/ AckLost(r)
    PROVE  \/ pc'[r] = "lastChatId" /\ FindChat(r)
           \/ pc'[r] = "insertChatId" /\ AllocateChatId(r)
           \/ pc'[r] = "insertMessages" /\ InsertChatId(r)
<1>1. /\ \A step : Await(r, step) => pc'[r] = step
      /\ \A status, body : Send(r, status, body) => pc'[r] = "done"
      /\ SendError(r) => pc'[r] = "done"
  BY AwaitFacts, SendFacts DEF SendError
<1>2. ~Receive(r)
  <2> SUFFICES ASSUME Receive(r) PROVE FALSE
    OBVIOUS
  <2>1. PICK c \in Calls : Await(r, FirstCall(c.op))
    BY DEF Receive
  <2>2. c.op \in Handlers
    BY CallsAssumption DEF Call
  <2> QED
    BY <1>1, <2>1, <2>2 DEF FirstCall, Handlers
<1>3. ~CallFails(r) /\ ~AckLost(r)
  BY <1>1 DEF CallFails, AckLost
<1>4. ~ListUsernames(r) /\ ~FindChats(r) /\ ~CheckRecipient(r) /\ ~FindMessages(r)
  BY <1>1 DEF ListUsernames, FindChats, CheckRecipient, FindMessages
<1>5. ~PushMessage(r) /\ ~InsertMessages(r) /\ ~WriteSender(r) /\ ~WriteRecipient(r)
  BY <1>1 DEF PushMessage, InsertMessages, WriteSender, WriteRecipient
<1>6. ~InsertUser(r) /\ ~InsertRow(r) /\ ~ReadSender(r) /\ ~ReadRecipient(r)
  BY <1>1 DEF InsertUser, InsertRow, ReadSender, ReadRecipient, ReadRow
<1>7. FindChat(r) \/ AllocateChatId(r) \/ InsertChatId(r)
  BY <1>2, <1>3, <1>4, <1>5, <1>6, Zenon
     DEF Step, getExistingUsernames, getUserChats, getUserChatMessages,
         sendMessage, sendNewMessage, addNewUser, UpdatePreviews
<1> QED
  BY <1>1, <1>7 DEF FindChat, AllocateChatId, InsertChatId

LEMMA Openings ==
    ASSUME TypeOK, [Next]_vars, NEW r \in Requests,
           pc'[r] \in {"lastChatId", "insertChatId", "insertMessages"}
    PROVE  \/ Stays(r)
           \/ pc'[r] = "lastChatId" /\ FindChat(r)
           \/ pc'[r] = "insertChatId" /\ AllocateChatId(r)
           \/ pc'[r] = "insertMessages" /\ InsertChatId(r)
<1>1. ASSUME NEW s \in Requests, s # r, Receive(s) \/ Step(s) \/ CallFails(s) \/ AckLost(s)
      PROVE  Stays(r)
  <2>1. CASE Receive(s)
    BY <1>1, <2>1 DEF Receive, Await, Stays, TypeOK, RequestsOK
  <2>2. CASE CallFails(s) \/ AckLost(s)
    BY <1>1, <2>2 DEF CallFails, AckLost, SendError, Send, Stays, TypeOK, RequestsOK
  <2>3. CASE Step(s)
    BY <1>1, <2>3, StepIsLocal DEF Stays
  <2> QED
    BY <1>1, <2>1, <2>2, <2>3
<1>2. CASE Crash
  BY <1>2 DEF Crash, Stays, Running, ReadCalls, WriteCalls
<1>3. CASE Tick \/ UNCHANGED vars
  BY <1>3 DEF Tick, vars, Stays
<1> QED
  BY <1>1, <1>2, <1>3, OwnOpenings DEF Next

----------------------------------------------------------------------------
(* The collections                                                         *)

\* The chat_id of a new chat is above all others and its users had no chat.
LEMMA RowAdds ==
    ASSUME SerialInv, NEW s \in Requests, pc[s] = "insertChatId", AddChatId(s)
    PROVE  CollectionsUnique'
<1> DEFINE n == Len(chat_ids) + 1
<1>1. [chat_id |-> local[s].chat, user1 |-> call[s].from, user2 |-> call[s].to] \in ChatId
  BY RequestTypes DEF SerialInv, StorageInv, VisibleInv, TypeOK, Local, ChatId
<1>2. chat_ids \in Seq(ChatId)
  BY DEF SerialInv, StorageInv, VisibleInv, TypeOK, DatabaseOK
<1>3. /\ Len(chat_ids) \in Nat /\ Len(chat_ids') = n
      /\ \A i \in 1..Len(chat_ids) : chat_ids'[i] = chat_ids[i]
      /\ chat_ids'[n].chat_id = local[s].chat
      /\ chat_ids'[n].user1 = call[s].from /\ chat_ids'[n].user2 = call[s].to
      /\ UNCHANGED chat_messages
  BY <1>1, <1>2, AppendFacts, LenProperties DEF AddChatId
<1>4. \A i \in 1..Len(chat_ids) :
          /\ ~SamePair(chat_ids[i], call[s].from, call[s].to)
          /\ chat_ids[i].chat_id # local[s].chat
  <2>1. \A i \in 1..Len(chat_ids) : chat_ids[i].chat_id < local[s].chat
    BY DEF SerialInv, OpeningOf
  <2>2. \A i \in 1..Len(chat_ids) : chat_ids[i].chat_id \in Nat
    <3>1. \A i \in 1..Len(chat_ids) : chat_ids[i] \in ChatId
      BY <1>2, ElementOfSeq
    <3> QED
      BY <3>1 DEF ChatId
  <2>3. local[s].chat \in Nat
    BY <1>1 DEF ChatId
  <2>4. \A i \in 1..Len(chat_ids) : ~SamePair(chat_ids[i], call[s].from, call[s].to)
    BY DEF SerialInv, OpeningOf, Allocating
  <2> QED
    BY <2>1, <2>2, <2>3, <2>4
<1>5. UniqueIds(chat_ids)'
  BY <1>3, <1>4 DEF UniqueIds, SerialInv, CollectionsUnique
<1>6. UniquePairs(chat_ids)'
  BY <1>3, <1>4 DEF UniquePairs, SamePair, SerialInv, CollectionsUnique
<1>7. LogsHaveRows(chat_ids, chat_messages)'
  <2>1. LogsHaveRows(chat_ids, chat_messages)
    BY DEF SerialInv, CollectionsUnique
  <2>2. \A i \in 1..Len(chat_ids) : i \in 1..Len(chat_ids')
    BY <1>3
  <2> QED
    BY <1>3, <2>1, <2>2 DEF LogsHaveRows
<1> QED
  BY <1>3, <1>5, <1>6, <1>7 DEF CollectionsUnique, SerialInv

\* The first document of a chat is the only one.
LEMMA LogAdds ==
    ASSUME SerialInv, NEW s \in Requests, pc[s] = "insertMessages", AddLog(s)
    PROVE  CollectionsUnique'
<1> DEFINE n == Len(chat_messages) + 1
<1>1. [chat_id |-> local[s].chat, messages |-> <<EntryOf(s)>>] \in ChatLog
  BY RequestTypes DEF SerialInv, StorageInv, VisibleInv, TypeOK, Local, ChatLog
<1>2. chat_messages \in Seq(ChatLog) /\ chat_ids \in Seq(ChatId)
  BY DEF SerialInv, StorageInv, VisibleInv, TypeOK, DatabaseOK
<1>3. /\ Len(chat_messages) \in Nat /\ Len(chat_messages') = n
      /\ \A j \in 1..Len(chat_messages) : chat_messages'[j] = chat_messages[j]
      /\ chat_messages'[n].chat_id = local[s].chat
      /\ UNCHANGED chat_ids
  BY <1>1, <1>2, AppendFacts, LenProperties DEF AddLog
<1>4. UniqueLogs(chat_messages)'
  BY <1>3 DEF UniqueLogs, Unlogged, SerialInv, CollectionsUnique, OpeningOf
<1>5. \E i \in 1..Len(chat_ids) : chat_ids[i].chat_id = local[s].chat
  <2>1. RowIn(chat_ids, local[s].chat, call[s].from, call[s].to)
    BY DEF SerialInv, StorageInv, HoldsInv, RowOf
  <2> QED
    BY <1>2, <2>1, LenProperties DEF RowIn, ToSet
<1>6. LogsHaveRows(chat_ids, chat_messages)'
  BY <1>3, <1>5 DEF LogsHaveRows, SerialInv, CollectionsUnique
<1> QED
  BY <1>3, <1>4, <1>6 DEF CollectionsUnique, SerialInv

\* A $push changes no chat_id.
LEMMA PushAdds ==
    ASSUME SerialInv, NEW s \in Requests, pc[s] = "pushMessage", AppendEntry(s)
    PROVE  CollectionsUnique'
<1>1. UNCHANGED chat_ids
  BY DEF AppendEntry
<1>2. CASE UNCHANGED chat_messages
  BY <1>1, <1>2 DEF CollectionsUnique, SerialInv
<1>3. CASE Log(local[s].chat) # 0
  <2>1. /\ Len(chat_messages') = Len(chat_messages)
        /\ \A j \in 1..Len(chat_messages) :
              chat_messages'[j].chat_id = chat_messages[j].chat_id
    <3>1. TypeOK
      BY DEF SerialInv, StorageInv, VisibleInv
    <3> QED
      <4>1. Pushed(s, Log(local[s].chat))
        BY <1>3, <3>1, PushEffect
      <4> QED
        BY <4>1 DEF Pushed
  <2>2. UniqueLogs(chat_messages)'
    BY <2>1 DEF UniqueLogs, SerialInv, CollectionsUnique
  <2>3. LogsHaveRows(chat_ids, chat_messages)'
    BY <1>1, <2>1 DEF LogsHaveRows, SerialInv, CollectionsUnique
  <2> QED
    BY <1>1, <2>2, <2>3 DEF CollectionsUnique, SerialInv
<1> QED
  BY <1>2, <1>3 DEF AppendEntry

LEMMA UniqueStep ==
    ASSUME SerialInv, [Next]_vars
    PROVE  CollectionsUnique'
<1>1. CASE UNCHANGED <<chat_ids, chat_messages>>
  BY <1>1 DEF CollectionsUnique, SerialInv
<1>2. ASSUME NEW s \in Requests, StoreStep(s)
      PROVE  CollectionsUnique'
  BY <1>2, RowAdds, LogAdds, PushAdds DEF StoreStep
<1>3. TypeOK
  BY DEF SerialInv, StorageInv, VisibleInv
<1> QED
  BY <1>1, <1>2, <1>3, NextStores

----------------------------------------------------------------------------
(* The requests that open a chat                                           *)

\* What another request does keeps what a request knows of its new chat.
LEMMA OpeningStays ==
    ASSUME SerialInv, [Next]_vars, NEW r \in Requests, Stays(r)
    PROVE  OpeningOf(r)'
<1>1. TypeOK /\ OpeningOf(r)
  BY DEF SerialInv, StorageInv, VisibleInv
<1>2. CASE UNCHANGED <<chat_ids, chat_messages>>
  BY <1>1, <1>2 DEF OpeningOf, Allocating, Stays, Unlogged
<1>3. ASSUME NEW s \in Requests, StoreStep(s)
      PROVE  OpeningOf(r)'
  <2>1. s # r
    BY <1>3 DEF StoreStep, Stays
  <2>2. CASE pc[s] = "insertChatId" /\ AddChatId(s)
    <3>1. ~Allocating(r) /\ UNCHANGED chat_messages
      BY <2>1, <2>2 DEF SerialInv, FirstContactsSerial, Allocating, AddChatId
    <3> QED
      BY <1>1, <3>1 DEF OpeningOf, Allocating, Stays, Unlogged
  <2>3. CASE pc[s] = "insertMessages" /\ AddLog(s)
    <3>1. UNCHANGED chat_ids
      BY <2>3 DEF AddLog
    <3>2. ASSUME pc[r] = "insertMessages"
          PROVE  Unlogged(chat_messages, local[r].chat)'
      <4>1. local[r].chat # local[s].chat
        BY <2>1, <2>3, <3>2 DEF SerialInv, OpeningsDiffer
      <4>2. [chat_id |-> local[s].chat, messages |-> <<EntryOf(s)>>] \in ChatLog
        BY <1>1, <2>3, RequestTypes DEF TypeOK, Local, ChatLog
      <4>3. /\ Len(chat_messages) \in Nat /\ Len(chat_messages') = Len(chat_messages) + 1
            /\ \A j \in 1..Len(chat_messages) : chat_messages'[j] = chat_messages[j]
            /\ chat_messages'[Len(chat_messages) + 1].chat_id = local[s].chat
        BY <1>1, <2>3, <4>2, AppendFacts, LenProperties DEF AddLog, TypeOK, DatabaseOK
      <4>4. Unlogged(chat_messages, local[r].chat)
        BY <1>1, <3>2 DEF OpeningOf
      <4> QED
        BY <4>1, <4>3, <4>4 DEF Unlogged, Stays
    <3> QED
      BY <1>1, <3>1, <3>2 DEF OpeningOf, Allocating, Stays
  <2>4. CASE pc[s] = "pushMessage" /\ AppendEntry(s)
    <3>1. UNCHANGED chat_ids
      BY <2>4 DEF AppendEntry
    <3>2. CASE UNCHANGED chat_messages
      BY <1>2, <3>1, <3>2
    <3>3. CASE Log(local[s].chat) # 0
      <4>1. /\ Len(chat_messages') = Len(chat_messages)
            /\ \A j \in 1..Len(chat_messages) :
                  chat_messages'[j].chat_id = chat_messages[j].chat_id
        <5>1. Pushed(s, Log(local[s].chat))
          BY <1>1, <2>4, <3>3, PushEffect
        <5> QED
          BY <5>1 DEF Pushed
      <4>2. Unlogged(chat_messages, local[r].chat) =>
                Unlogged(chat_messages, local[r].chat)'
        BY <4>1 DEF Unlogged, Stays
      <4> QED
        BY <1>1, <3>1, <4>2 DEF OpeningOf, Allocating, Stays
    <3> QED
      BY <2>4, <3>2, <3>3 DEF AppendEntry
  <2> QED
    BY <1>3, <2>2, <2>3, <2>4 DEF StoreStep
<1> QED
  BY <1>1, <1>2, <1>3, NextStores

\* A chat_id that a request is about to insert has no document yet.
LEMMA NewIdUnlogged ==
    ASSUME SerialInv, NEW s \in Requests, pc[s] = "insertChatId"
    PROVE  Unlogged(chat_messages, local[s].chat)
<1>1. TypeOK /\ OpeningOf(s)
  BY DEF SerialInv, StorageInv, VisibleInv
<1>2. \A i \in 1..Len(chat_ids) : chat_ids[i].chat_id # local[s].chat
  <2>1. \A i \in 1..Len(chat_ids) : chat_ids[i] \in ChatId
    BY <1>1, ElementOfSeq DEF TypeOK, DatabaseOK
  <2>2. local[s].chat \in Nat
    BY <1>1 DEF TypeOK, RequestsOK, Local
  <2> QED
    BY <1>1, <2>1, <2>2 DEF OpeningOf, ChatId
<1> QED
  BY <1>2 DEF Unlogged, SerialInv, CollectionsUnique, LogsHaveRows

LEMMA OpeningStep ==
    ASSUME SerialInv, [Next]_vars, NEW r \in Requests
    PROVE  OpeningOf(r)'
<1>1. TypeOK /\ OpeningOf(r)
  BY DEF SerialInv, StorageInv, VisibleInv
<1>2. chat_ids \in Seq(ChatId) /\ Len(chat_ids) \in Nat
  BY <1>1, LenProperties DEF TypeOK, DatabaseOK
<1>3. CASE pc'[r] = "lastChatId" /\ FindChat(r)
  <2>1. UNCHANGED <<chat_ids, call>> /\ ChatRow(call[r].from, call[r].to) = 0
    <3>1. \A step : Await(r, step) => pc'[r] = step
      BY <1>1, AwaitFacts
    <3>2. SendError(r) => pc'[r] = "done"
      BY <1>1, SendFacts DEF SendError
    <3> QED
      BY <1>3, <3>1, <3>2 DEF FindChat, database
  <2>2. FirstChat(chat_ids, call[r].from, call[r].to) = 0
    BY <2>1, LookupsNow
  <2>3. \A i \in 1..Len(chat_ids) : ~SamePair(chat_ids[i], call[r].from, call[r].to)
    BY <1>2, <2>2, FirstChatLemma
  <2> QED
    BY <1>3, <2>1, <2>3 DEF OpeningOf
<1>4. CASE pc'[r] = "insertChatId" /\ AllocateChatId(r)
  <2>1. /\ UNCHANGED <<chat_ids, call>> /\ Allocating(r)
        /\ local'[r].chat = NextChatId
    BY <1>1, <1>4 DEF AllocateChatId, database, Allocating, TypeOK, RequestsOK, Local
  <2>2. \A i \in 1..Len(chat_ids) : chat_ids[i].chat_id < NextChatId
    BY <1>2, NextChatIdLemma
  <2> QED
    BY <1>1, <1>4, <2>1, <2>2 DEF OpeningOf
<1>5. CASE pc'[r] = "insertMessages" /\ InsertChatId(r)
  <2>1. UNCHANGED <<chat_messages, local>> /\ pc[r] = "insertChatId"
    BY <1>5 DEF InsertChatId, AddChatId
  <2>2. Unlogged(chat_messages, local[r].chat)'
    BY <2>1, NewIdUnlogged
  <2> QED
    BY <1>5, <2>2 DEF OpeningOf, Allocating
<1>6. CASE Stays(r)
  BY <1>6, OpeningStays
<1>7. CASE pc'[r] \notin {"lastChatId", "insertChatId", "insertMessages"}
  BY <1>7 DEF OpeningOf, Allocating
<1> QED
  BY <1>1, <1>3, <1>4, <1>5, <1>6, <1>7, Openings

\* The conversation of a and b has grown by e, and no other.
PairGrows(a, b, e) ==
    \A x, y : Talk(chat_ids', chat_messages', x, y) =
        IF {x, y} = {a, b} THEN Append(Talk(chat_ids, chat_messages, x, y), e)
                           ELSE Talk(chat_ids, chat_messages, x, y)

\* What a write does to the conversations: the message of a send comes to the end
\* of that of its two users.
LEMMA StoreTalks ==
    ASSUME SerialInv, CollectionsUnique', NEW s \in Requests, StoreStep(s)
    PROVE  \/ /\ pc'[s] # "readSender"
              /\ \A x, y : Talk(chat_ids', chat_messages', x, y) =
                           Talk(chat_ids, chat_messages, x, y)
           \/ pc[s] \in StoreCalls /\ PairGrows(call[s].from, call[s].to, EntryOf(s))
<1>1. /\ TypeOK /\ chat_ids \in Seq(ChatId) /\ chat_messages \in Seq(ChatLog)
      /\ UniqueIds(chat_ids) /\ UniquePairs(chat_ids) /\ UniqueLogs(chat_messages)
  BY DEF SerialInv, StorageInv, VisibleInv, TypeOK, DatabaseOK, CollectionsUnique
<1>2. pc[s] # "idle"
  BY DEF StoreStep
<1>3. /\ local[s].chat \in Nat /\ EntryOf(s) \in Entry
      /\ call[s].from \in Names /\ call[s].to \in Names
  BY <1>1, <1>2, RequestTypes DEF TypeOK, Local
<1>4. CASE pc[s] = "insertChatId" /\ pc'[s] # "readSender" /\ AddChatId(s)
  <2> DEFINE row == [chat_id |-> local[s].chat, user1 |-> call[s].from,
                     user2 |-> call[s].to]
  <2>1. row \in ChatId /\ row.chat_id = local[s].chat
    BY <1>3 DEF ChatId
  <2>2. chat_ids' = Append(chat_ids, row) /\ UNCHANGED chat_messages
    BY <1>4 DEF AddChatId
  <2>3. UniquePairs(Append(chat_ids, row))
    BY <2>2 DEF CollectionsUnique
  <2>4. Unlogged(chat_messages, row.chat_id)
    BY <1>4, <2>1, NewIdUnlogged
  <2> HIDE DEF row
  <2>5. \A x, y : Talk(Append(chat_ids, row), chat_messages, x, y) =
                      Talk(chat_ids, chat_messages, x, y)
    BY <1>1, <2>1, <2>3, <2>4, RowTalks
  <2> QED
    BY <1>4, <2>2, <2>5
<1>5. ASSUME pc[s] \in {"pushMessage", "insertMessages"}
      PROVE  \E k \in 1..Len(chat_ids) :
                 /\ chat_ids[k].chat_id = local[s].chat
                 /\ \A x, y : SamePair(chat_ids[k], x, y) <=>
                              {x, y} = {call[s].from, call[s].to}
  <2>1. RowIn(chat_ids, local[s].chat, call[s].from, call[s].to)
    BY <1>5 DEF SerialInv, StorageInv, HoldsInv, RowOf
  <2>2. DOMAIN chat_ids = 1..Len(chat_ids)
    BY <1>1, LenProperties
  <2>3. PICK k \in 1..Len(chat_ids) :
           /\ chat_ids[k].chat_id = local[s].chat
           /\ UsersOf(chat_ids[k]) = {call[s].from, call[s].to}
    BY <2>1, <2>2 DEF RowIn, ToSet
  <2>4. \A x, y : SamePair(chat_ids[k], x, y) <=> {x, y} = {call[s].from, call[s].to}
    BY <2>3, PairIsUsers
  <2> QED
    BY <2>3, <2>4
<1>6. CASE pc[s] = "insertMessages" /\ AddLog(s)
  <2>1. PICK k \in 1..Len(chat_ids) :
            /\ chat_ids[k].chat_id = local[s].chat
            /\ \A x, y : SamePair(chat_ids[k], x, y) <=>
                         {x, y} = {call[s].from, call[s].to}
    BY <1>5, <1>6
  <2> DEFINE log == [chat_id |-> local[s].chat, messages |-> <<EntryOf(s)>>]
  <2>2. /\ log \in ChatLog /\ log.chat_id = chat_ids[k].chat_id
        /\ log.messages = <<EntryOf(s)>>
    BY <1>3, <2>1 DEF ChatLog
  <2>3. chat_messages' = Append(chat_messages, log) /\ UNCHANGED chat_ids
    BY <1>6 DEF AddLog
  <2>4. Unlogged(chat_messages, chat_ids[k].chat_id)
    BY <1>6, <2>1 DEF SerialInv, OpeningOf
  <2> HIDE DEF log
  <2>5. \A x, y : Talk(chat_ids, Append(chat_messages, log), x, y) =
            IF SamePair(chat_ids[k], x, y)
              THEN Append(Talk(chat_ids, chat_messages, x, y), EntryOf(s))
              ELSE Talk(chat_ids, chat_messages, x, y)
    BY <1>1, <2>2, <2>4, FirstMessageTalks
  <2> QED
    BY <1>6, <2>1, <2>3, <2>5 DEF PairGrows, StoreCalls
<1>7. CASE pc[s] = "pushMessage" /\ AppendEntry(s) /\ Log(local[s].chat) # 0
  <2>1. PICK k \in 1..Len(chat_ids) :
            /\ chat_ids[k].chat_id = local[s].chat
            /\ \A x, y : SamePair(chat_ids[k], x, y) <=>
                         {x, y} = {call[s].from, call[s].to}
    BY <1>5, <1>7
  <2>2. PICK doc : doc = Log(local[s].chat)
    OBVIOUS
  <2>3. Pushed(s, doc)
    BY <1>1, <1>2, <1>7, <2>2, PushEffect
  <2>4. /\ doc \in 1..Len(chat_messages)
        /\ chat_messages[doc].chat_id = chat_ids[k].chat_id
        /\ Len(chat_messages') = Len(chat_messages)
        /\ chat_messages'[doc].messages =
              Append(chat_messages[doc].messages, EntryOf(s))
    BY <2>1, <2>3 DEF Pushed
  <2>5. \A j \in 1..Len(chat_messages) :
            /\ chat_messages'[j].chat_id = chat_messages[j].chat_id
            /\ j # doc => chat_messages'[j] = chat_messages[j]
    BY <2>3 DEF Pushed
  <2>6. UNCHANGED chat_ids
    BY <1>7 DEF AppendEntry
  <2>7. chat_messages' \in Seq(ChatLog)
    BY <1>1, <1>2, <1>7, WriteTypes DEF DatabaseOK
  <2>8. \A x, y : TalkGrown(chat_ids, chat_messages, chat_messages', chat_ids[k],
                            EntryOf(s), x, y)
    BY <1>1, <2>4, <2>5, <2>7, PushTalks, Zenon
  <2> QED
    <3>1. PairGrows(call[s].from, call[s].to, EntryOf(s))
      BY <2>1, <2>6, <2>8, Zenon DEF TalkGrown, PairGrows
    <3> QED
      BY <1>7, <3>1 DEF StoreCalls
<1>8. CASE /\ pc[s] = "pushMessage" /\ AppendEntry(s)
           /\ pc'[s] # "readSender" /\ Log(local[s].chat) = 0
  BY <1>8 DEF AppendEntry
<1> QED
  BY <1>4, <1>6, <1>7, <1>8 DEF StoreStep

\* The chat_id that a request has just inserted was nobody's.
LEMMA DifferStep ==
    ASSUME SerialInv, [Next]_vars
    PROVE  OpeningsDiffer'
<1>1. TypeOK
  BY DEF SerialInv, StorageInv, VisibleInv
<1> SUFFICES ASSUME NEW r \in Requests, NEW s \in Requests,
                    pc'[r] = "insertMessages", pc'[s] = "insertMessages",
                    local'[r].chat = local'[s].chat
             PROVE  r = s
  BY DEF OpeningsDiffer
<1>2. /\ Stays(r) \/ InsertChatId(r)
      /\ Stays(s) \/ InsertChatId(s)
  BY <1>1, Openings
<1>3. ASSUME NEW q \in Requests, InsertChatId(q), NEW t \in Requests,
             Stays(t), pc'[t] = "insertMessages"
      PROVE  local'[t].chat # local'[q].chat
  <2>1. pc[q] = "insertChatId" /\ UNCHANGED local /\ pc[t] = "insertMessages"
    BY <1>3 DEF InsertChatId, Stays
  <2>2. PICK c \in ToSet(chat_ids) : c.chat_id = local[t].chat
    BY <2>1 DEF SerialInv, StorageInv, HoldsInv, RowOf, RowIn
  <2>3. PICK i \in 1..Len(chat_ids) : c = chat_ids[i]
    BY <1>1, <2>2, LenProperties DEF ToSet, TypeOK, DatabaseOK
  <2>4. chat_ids[i].chat_id < local[q].chat
    BY <2>1 DEF SerialInv, OpeningOf
  <2>5. local[q].chat \in Nat
    BY <1>1 DEF TypeOK, RequestsOK, Local
  <2>6. local[t].chat < local[q].chat /\ local[t].chat \in Nat
    BY <1>1, <2>2, <2>3, <2>4 DEF TypeOK, RequestsOK, Local
  <2> QED
    BY <2>1, <2>5, <2>6
<1>4. CASE Stays(r) /\ Stays(s)
  BY <1>4 DEF Stays, SerialInv, OpeningsDiffer
<1>5. CASE InsertChatId(r) /\ InsertChatId(s)
  BY <1>5 DEF InsertChatId, SerialInv, FirstContactsSerial, Allocating
<1> QED
  BY <1>2, <1>3, <1>4, <1>5

LEMMA SerialStep ==
    SerialInv /\ StorageInv' /\ [Next /\ FirstContactsSerial']_vars => SerialInv'
<1> SUFFICES ASSUME SerialInv, StorageInv', [Next /\ FirstContactsSerial']_vars
             PROVE  SerialInv'
  OBVIOUS
<1>1. [Next]_vars
  OBVIOUS
<1>2. FirstContactsSerial'
  <2>1. CASE UNCHANGED vars
    BY <2>1 DEF vars, SerialInv, FirstContactsSerial, Allocating
  <2> QED
    BY <2>1
<1> QED
  BY <1>1, <1>2, UniqueStep, DifferStep, OpeningStep DEF SerialInv

LEMMA SerialIsSpec == SerialSpec => Spec
<1>1. [Next /\ FirstContactsSerial']_vars => [Next]_vars
  OBVIOUS
<1> QED
  BY <1>1, PTL DEF SerialSpec, Spec

\* When first contacts do not overlap, ids, pairs and documents stay unique, and a
\* request that opens a chat keeps a chat_id of its own.
THEOREM SerialInvariant == SerialSpec => []SerialInv
<1>1. SerialInv /\ StorageInv' /\ [Next /\ FirstContactsSerial']_vars => SerialInv'
  BY SerialStep
<1> QED
  BY <1>1, SerialInit, SerialIsSpec, StorageInvariant, PTL DEF SerialSpec

\* The chat_id found for two users is that of no other pair.
THEOREM ChatIdsNamePairs == SerialSpec => []ChatIdNamesPair
<1>1. SerialInv => ChatIdNamesPair
  <2> SUFFICES ASSUME SerialInv, NEW c \in ToSet(chat_ids), NEW d \in ToSet(chat_ids),
                      c.chat_id = d.chat_id
               PROVE  UsersOf(c) = UsersOf(d)
    BY DEF ChatIdNamesPair
  <2>1. DOMAIN chat_ids = 1..Len(chat_ids)
    BY LenProperties DEF SerialInv, StorageInv, VisibleInv, TypeOK, DatabaseOK
  <2>2. PICK i \in 1..Len(chat_ids) : c = chat_ids[i]
    BY <2>1 DEF ToSet
  <2>3. PICK j \in 1..Len(chat_ids) : d = chat_ids[j]
    BY <2>1 DEF ToSet
  <2>4. i = j
    BY <2>2, <2>3 DEF SerialInv, CollectionsUnique, UniqueIds
  <2> QED
    BY <2>2, <2>3, <2>4
<1> QED
  BY <1>1, SerialInvariant, PTL

\* Two users never get a second row in chat_ids.
THEOREM PairsHaveOneChat == SerialSpec => []PairHasOneChat
<1>1. SerialInv => PairHasOneChat
  <2> SUFFICES ASSUME SerialInv, NEW i \in DOMAIN chat_ids, NEW j \in DOMAIN chat_ids,
                      UsersOf(chat_ids[i]) = UsersOf(chat_ids[j])
               PROVE  i = j
    BY DEF PairHasOneChat
  <2>1. DOMAIN chat_ids = 1..Len(chat_ids)
    BY LenProperties DEF SerialInv, StorageInv, VisibleInv, TypeOK, DatabaseOK
  <2>2. UsersOf(chat_ids[i]) = {chat_ids[j].user1, chat_ids[j].user2}
    BY DEF UsersOf
  <2>3. SamePair(chat_ids[i], chat_ids[j].user1, chat_ids[j].user2)
    BY <2>2, PairIsUsers
  <2> QED
    BY <2>1, <2>3 DEF SerialInv, CollectionsUnique, UniquePairs
<1> QED
  BY <1>1, SerialInvariant, PTL

\* All messages of a chat_id are in one document.
THEOREM ChatsHaveOneLog == SerialSpec => []OneLogPerChat
<1>1. SerialInv => OneLogPerChat
  <2>1. SerialInv => DOMAIN chat_messages = 1..Len(chat_messages)
    BY LenProperties DEF SerialInv, StorageInv, VisibleInv, TypeOK, DatabaseOK
  <2> QED
    BY <2>1 DEF SerialInv, CollectionsUnique, UniqueLogs, OneLogPerChat
<1> QED
  BY <1>1, SerialInvariant, PTL

----------------------------------------------------------------------------
(* Answers                                                                 *)

\* The request goes on, or is lost, with its call and the time it took.
GoesOn(r) ==
    /\ UNCHANGED <<call[r], local[r].time, reply[r]>>
    /\ pc'[r] \in Running => pc[r] \in Running

\* It is answered with something else than the success of a send.
AnsweredOther(r) ==
    /\ UNCHANGED <<call[r], local[r].time>>
    /\ pc[r] \in Running /\ pc'[r] = "done"
    /\ call[r].op \notin SendOps \/ reply'[r].status # "SUCCESS"

\* It has made its last write.
AnsweredSend(r) ==
    /\ UNCHANGED <<call[r], local[r].time, chat_ids, chat_messages>>
    /\ pc[r] = "writeRecipient" /\ pc'[r] = "done" /\ reply'[r].status = "SUCCESS"

LEMMA StepAnswers ==
    ASSUME TypeOK, NEW r \in Requests, RequestInv(r), Step(r)
    PROVE  GoesOn(r) \/ AnsweredOther(r) \/ AnsweredSend(r)
<1>1. ASSUME NEW step, Await(r, step), pc[r] \in Running,
             UNCHANGED <<call[r], local[r].time>>
      PROVE  GoesOn(r)
  BY <1>1, AwaitFacts DEF GoesOn
<1>2. ASSUME NEW status, NEW body, Send(r, status, body), pc[r] \in Running,
             call[r].op \notin SendOps \/ status # "SUCCESS",
             UNCHANGED <<call[r], local[r].time>>
      PROVE  AnsweredOther(r)
  BY <1>2, SendFacts DEF AnsweredOther
<1>3. SendError(r) /\ pc[r] \in Running /\ UNCHANGED <<call[r], local[r].time>> =>
          AnsweredOther(r)
  <2>1. SendError(r) => pc'[r] = "done" /\ reply'[r].status = "DB_ERR"
    BY SendFacts DEF SendError
  <2> QED
    BY <2>1 DEF AnsweredOther
<1> USE DEF Running, ReadCalls, WriteCalls
<1>4. CASE ListUsernames(r)
  BY <1>2, <1>4 DEF ListUsernames, SendOps
<1>5. CASE FindChats(r)
  BY <1>2, <1>5 DEF FindChats, SendOps, RequestInv, ControlOf
<1>6. CASE CheckRecipient(r)
  <2>1. UNCHANGED <<call[r], local[r].time>> /\ pc[r] \in Running
    BY <1>6, Zenon DEF CheckRecipient, Running, ReadCalls
  <2>2. CASE Await(r, "findChat")
    BY <1>1, <2>1, <2>2
  <2>3. CASE Send(r, "USER DOES NOT EXIST", <<>>)
    BY <1>2, <2>1, <2>3, Zenon
  <2> QED
    BY <1>6, <2>2, <2>3, Zenon DEF CheckRecipient
<1>7. CASE FindChat(r)
  <2>1. UNCHANGED <<call[r], local[r].time>> /\ pc[r] \in Running
    BY <1>7 DEF FindChat, TypeOK, RequestsOK, Local
  <2> QED
    BY <1>1, <1>3, <1>7, <2>1 DEF FindChat
<1>8. CASE FindMessages(r) /\ call[r].op = "getUserChatMessages"
  BY <1>2, <1>3, <1>8 DEF FindMessages, SendOps
<1>9. CASE PushMessage(r)
  BY <1>1, <1>3, <1>9 DEF PushMessage
<1>10. CASE AllocateChatId(r)
  <2>1. UNCHANGED <<call[r], local[r].time>> /\ pc[r] \in Running
    BY <1>10 DEF AllocateChatId, TypeOK, RequestsOK, Local
  <2> QED
    BY <1>1, <1>10, <2>1 DEF AllocateChatId
<1>11. CASE InsertChatId(r) \/ InsertMessages(r)
  BY <1>1, <1>11 DEF InsertChatId, InsertMessages
<1>12. CASE ReadSender(r) \/ ReadRecipient(r)
  <2>1. \A owner, peer, next :
            ReadRow(r, owner, peer, next) => UNCHANGED <<call[r], local[r].time>>
    BY DEF ReadRow, TypeOK, RequestsOK, Local
  <2>2. \A owner, peer, next :
            ReadRow(r, owner, peer, next) => Await(r, next) \/ SendError(r)
    BY DEF ReadRow
  <2> QED
    BY <1>1, <1>3, <1>12, <2>1, <2>2 DEF ReadSender, ReadRecipient
<1>13. CASE WriteSender(r)
  BY <1>1, <1>3, <1>13 DEF WriteSender
<1>14. CASE WriteRecipient(r)
  <2>1. UNCHANGED <<call[r], local[r].time, chat_ids, chat_messages>>
    BY <1>14 DEF WriteRecipient, SetRow
  <2>2. CASE Send(r, "SUCCESS", <<>>)
    BY <1>14, <2>1, <2>2, SendFacts DEF WriteRecipient, AnsweredSend
  <2> QED
    BY <1>3, <1>14, <2>1, <2>2 DEF WriteRecipient
<1>15. CASE InsertUser(r)
  BY <1>1, <1>15 DEF InsertUser
<1>16. CASE InsertRow(r)
  BY <1>2, <1>16 DEF InsertRow, RequestInv, ControlOf, SendOps
<1> QED
  BY <1>4, <1>5, <1>6, <1>7, <1>8, <1>9, <1>10, <1>11, <1>12, <1>13, <1>14,
     <1>15, <1>16, Zenon
     DEF Step, getExistingUsernames, getUserChats, getUserChatMessages,
         sendMessage, sendNewMessage, addNewUser, UpdatePreviews

LEMMA Answers ==
    ASSUME TypeOK, [Next]_vars, NEW r \in Requests, RequestInv(r)
    PROVE  \/ Receive(r) \/ GoesOn(r) \/ AnsweredOther(r) \/ AnsweredSend(r)
<1>1. ASSUME NEW s \in Requests, Receive(s) \/ Step(s) \/ CallFails(s) \/ AckLost(s),
             s # r
      PROVE  GoesOn(r)
  <2>1. UNCHANGED <<call[r], local[r], pc[r], reply[r]>>
    <3>1. CASE Receive(s)
      BY <1>1, <3>1 DEF Receive, Await, TypeOK, RequestsOK
    <3>2. CASE CallFails(s) \/ AckLost(s)
      BY <1>1, <3>2 DEF CallFails, AckLost, SendError, Send, TypeOK, RequestsOK
    <3>3. CASE Step(s)
      BY <1>1, <3>3, StepIsLocal
    <3> QED
      BY <1>1, <3>1, <3>2, <3>3
  <2> QED
    BY <2>1 DEF GoesOn
<1>2. CASE CallFails(r) \/ AckLost(r)
  <2>1. SendError(r) => pc'[r] = "done" /\ reply'[r].status = "DB_ERR"
    BY SendFacts DEF SendError
  <2> QED
    BY <1>2, <2>1 DEF CallFails, AckLost, AnsweredOther, Running, WriteCalls
<1>3. CASE Crash
  BY <1>3 DEF Crash, GoesOn, Running, ReadCalls, WriteCalls
<1>4. CASE Tick \/ UNCHANGED vars
  BY <1>4 DEF Tick, vars, GoesOn
<1> QED
  BY <1>1, <1>2, <1>3, <1>4, StepAnswers DEF Next

\* A message in a document of a chat of two users is in what they read.
LEMMA StoredIsRead ==
    ASSUME NEW ids \in Seq(ChatId), NEW docs \in Seq(ChatLog), UniquePairs(ids),
           UniqueLogs(docs), NEW a, NEW b, NEW e, EntryIn(ids, docs, a, b, e)
    PROVE  e \in ToSet(Talk(ids, docs, a, b))
<1>1. PICK d \in ToSet(docs) : RowIn(ids, d.chat_id, a, b) /\ e \in ToSet(d.messages)
  BY DEF EntryIn
<1>2. PICK c \in ToSet(ids) : c.chat_id = d.chat_id /\ UsersOf(c) = {a, b}
  BY <1>1 DEF RowIn
<1>3. /\ Len(ids) \in Nat /\ DOMAIN ids = 1..Len(ids)
      /\ Len(docs) \in Nat /\ DOMAIN docs = 1..Len(docs)
  BY LenProperties
<1>4. PICK i \in 1..Len(ids) : c = ids[i]
  BY <1>3 DEF ToSet
<1>5. PICK j \in 1..Len(docs) : d = docs[j]
  BY <1>3 DEF ToSet
<1>6. SamePair(ids[i], a, b) /\ docs[j].chat_id = ids[i].chat_id
  BY <1>2, <1>4, <1>5, PairIsUsers
<1>7. Talk(ids, docs, a, b) = docs[j].messages
  <2>1. Len(ids) \in Nat /\ Len(docs) \in Nat
    BY <1>3
  <2> QED
    BY <1>6, <2>1, TalkIs
<1> QED
  BY <1>1, <1>5, <1>7

\* A request that runs has no answer, and the message of one that was answered
\* with SUCCESS is in the conversation.
AnswerOf(r) ==
    /\ pc[r] \in Running => reply[r].status = "none"
    /\ Succeeded(r) => EntryOf(r) \in ToSet(Own(r))

AnswersInv == SerialInv /\ \A r \in Requests : AnswerOf(r)

LEMMA AnswersInit == Init => AnswersInv
<1>1. Init => \A r \in Requests : pc[r] = "idle" /\ reply[r].status = "none"
  BY DEF Init, Idle, NoReply
<1> QED
  BY <1>1, SerialInit DEF AnswersInv, AnswerOf, Running, ReadCalls, WriteCalls, Succeeded

LEMMA AnswerStep ==
    ASSUME AnswersInv, TypeOK', [Next]_vars, NEW r \in Requests
    PROVE  AnswerOf(r)'
<1>1. TypeOK /\ RequestInv(r) /\ AnswerOf(r)
  BY DEF AnswersInv, SerialInv, StorageInv, VisibleInv
<1>2. ASSUME UNCHANGED <<call[r], local[r].time>>
      PROVE  ToSet(Own(r)) \subseteq ToSet(Own(r)') /\ EntryOf(r)' = EntryOf(r)
  BY <1>1, <1>2, OwnGrows DEF EntryOf
<1>3. CASE Receive(r)
  <2>1. reply'[r] = reply[r] /\ reply[r].status = "none"
    BY <1>1, <1>3 DEF Receive, Await, RequestInv, ControlOf
  <2> QED
    BY <2>1 DEF AnswerOf, Succeeded
<1>4. CASE GoesOn(r)
  BY <1>1, <1>2, <1>4 DEF GoesOn, AnswerOf, Succeeded
<1>5. CASE AnsweredOther(r)
  BY <1>5 DEF AnsweredOther, AnswerOf, Succeeded, Running, ReadCalls, WriteCalls
<1>6. CASE AnsweredSend(r)
  <2>1. EntryIn(chat_ids, chat_messages, call[r].from, call[r].to, EntryOf(r))
    BY <1>6 DEF AnsweredSend, AnswersInv, SerialInv, StorageInv, HoldsInv, StoredOf,
                UpdateCalls
  <2>2. EntryOf(r) \in ToSet(Talk(chat_ids, chat_messages, call[r].from, call[r].to))
    <3>1. chat_ids \in Seq(ChatId) /\ chat_messages \in Seq(ChatLog)
      BY <1>1 DEF TypeOK, DatabaseOK
    <3>2. UniquePairs(chat_ids) /\ UniqueLogs(chat_messages)
      BY DEF AnswersInv, SerialInv, CollectionsUnique
    <3> QED
      BY <2>1, <3>1, <3>2, StoredIsRead
  <2>3. EntryOf(r)' \in ToSet(Own(r)')
    BY <1>2, <1>6, <2>2 DEF AnsweredSend, Own
  <2> QED
    BY <1>6, <2>3 DEF AnsweredSend, AnswerOf, Running, ReadCalls, WriteCalls
<1> QED
  BY <1>1, <1>3, <1>4, <1>5, <1>6, Answers

\* Moreover a request is answered once, and with SUCCESS only when its message is
\* in the conversation.
THEOREM AnswersInvariant == SerialSpec => []AnswersInv
<1>1. AnswersInv /\ TypeOK' /\ SerialInv' /\ [Next /\ FirstContactsSerial']_vars
          => AnswersInv'
  <2>1. [Next /\ FirstContactsSerial']_vars => [Next]_vars
    OBVIOUS
  <2> QED
    BY <2>1, AnswerStep DEF AnswersInv
<1> QED
  BY <1>1, AnswersInit, SerialInvariant, SerialIsSpec, TypeCorrect, PTL DEF SerialSpec

\* Every message answered with SUCCESS is in the conversation of its two users
\* from then on, also the one that opened the chat.
THEOREM SuccessesAreVisible == SerialSpec => []EverySuccessIsVisible
<1>1. AnswersInv => EverySuccessIsVisible
  BY LookupsNow DEF AnswersInv, AnswerOf, Own, EverySuccessIsVisible
<1> QED
  BY <1>1, AnswersInvariant, PTL

----------------------------------------------------------------------------
(* Requests one at a time: chat lists that are up to date                  *)

\* The chat list that a read of u's document finds
FirstRow(lists, u) == SelectInSeq(lists, LAMBDA d : d.username = u)
ListIn(lists, u) ==
    IF FirstRow(lists, u) = 0 THEN <<>> ELSE lists[FirstRow(lists, u)].messages

\* The item of the contact p shows the message e.
ShowsIn(rows, p, e) ==
    /\ PeerIdx(rows, p) # 0
    /\ rows[PeerIdx(rows, p)].lastMessage = e.message
    /\ rows[PeerIdx(rows, p)].lastMessageTime = e.time

\* The chat of u and p is in u's list if there is one, and as it is now.
CurrentIn(ids, docs, lists, u, p) ==
    /\ FirstChat(ids, u, p) # 0 => PeerIdx(ListIn(lists, u), p) # 0
    /\ PeerIdx(ListIn(lists, u), p) # 0 =>
          /\ Talk(ids, docs, u, p) # <<>>
          /\ ShowsIn(ListIn(lists, u), p, Last(Talk(ids, docs, u, p)))

\* Both lists have the same item of the contact p, or none.
SameItem(rows, rows2, p) ==
    /\ PeerIdx(rows2, p) # 0 <=> PeerIdx(rows, p) # 0
    /\ PeerIdx(rows, p) # 0 => rows2[PeerIdx(rows2, p)] = rows[PeerIdx(rows, p)]

LEMMA UserRowIs == \A u : UserRow(u) = FirstRow(user_messages, u)
BY Zenon DEF UserRow, FirstRow

LEMMA FirstRowLemma ==
    ASSUME NEW lists, Len(lists) \in Nat, NEW u
    PROVE  /\ FirstRow(lists, u) \in 0..Len(lists)
           /\ FirstRow(lists, u) # 0 => lists[FirstRow(lists, u)].username = u
           /\ \A j \in 1..Len(lists) :
                 lists[j].username = u =>
                     FirstRow(lists, u) # 0 /\ FirstRow(lists, u) <= j
<1> DEFINE I == {i \in 1..Len(lists) : lists[i].username = u}
<1>1. FirstRow(lists, u) = IF I # {} THEN Min(I) ELSE 0
  BY Zenon DEF FirstRow, SelectInSeq
<1>2. I \subseteq 1..Len(lists)
  OBVIOUS
<1>3. /\ FirstRow(lists, u) \in 0..Len(lists)
      /\ FirstRow(lists, u) # 0 => FirstRow(lists, u) \in I
      /\ \A j \in I : FirstRow(lists, u) # 0 /\ FirstRow(lists, u) <= j
  <2> HIDE DEF I
  <2> QED
    BY <1>1, <1>2, FirstMatch
<1> QED
  BY <1>3

LEMMA SetAt ==
    ASSUME NEW S, NEW s \in Seq(S), NEW i \in 1..Len(s), NEW x \in S,
           NEW t, t = [s EXCEPT ![i] = x]
    PROVE  t \in Seq(S) /\ Len(t) = Len(s)
OBVIOUS

LEMMA ListType ==
    ASSUME NEW lists \in Seq(ChatList), NEW u
    PROVE  ListIn(lists, u) \in Seq(Preview)
<1>1. CASE FirstRow(lists, u) = 0
  BY <1>1 DEF ListIn
<1>2. CASE FirstRow(lists, u) # 0
  <2>1. Len(lists) \in Nat
    BY LenProperties
  <2>2. FirstRow(lists, u) \in 1..Len(lists)
    BY <1>2, <2>1, FirstRowLemma
  <2>3. lists[FirstRow(lists, u)] \in ChatList
    BY <2>2, ElementOfSeq
  <2> QED
    BY <1>2, <2>3 DEF ListIn, ChatList
<1> QED
  BY <1>1, <1>2

ListSet(lists, owner, rows) ==
    [lists EXCEPT ![FirstRow(lists, owner)].messages = rows]

\* A list that is set is the list of its owner alone.
LEMMA SetList ==
    ASSUME NEW lists \in Seq(ChatList), NEW owner, FirstRow(lists, owner) # 0,
           NEW rows \in Seq(Preview), NEW lists2,
           lists2 = ListSet(lists, owner, rows),
           NEW u
    PROVE  /\ FirstRow(lists2, u) = FirstRow(lists, u)
           /\ ListIn(lists2, u) = IF u = owner THEN rows ELSE ListIn(lists, u)
<1> DEFINE k == FirstRow(lists, owner)
<1>1. Len(lists) \in Nat /\ DOMAIN lists = 1..Len(lists)
  BY LenProperties
<1>2. k \in 1..Len(lists) /\ lists[k].username = owner
  BY <1>1, FirstRowLemma
<1>3. \A i \in 1..Len(lists) : lists[i] \in ChatList
  BY ElementOfSeq
<1>4. /\ Len(lists2) = Len(lists)
      /\ lists2[k].messages = rows
      /\ \A i \in 1..Len(lists) : /\ lists2[i].username = lists[i].username
                                  /\ i # k => lists2[i] = lists[i]
  <2> HIDE DEF k
  <2>1. lists2 = [lists EXCEPT ![k] = [lists[k] EXCEPT !.messages = rows]]
    BY DEF k, ListSet
  <2>2. [lists[k] EXCEPT !.messages = rows] \in ChatList
    BY <1>2, <1>3 DEF ChatList
  <2>3. lists2 \in Seq(ChatList) /\ Len(lists2) = Len(lists)
    <3> DEFINE x == [lists[k] EXCEPT !.messages = rows]
    <3>1. k \in 1..Len(lists) /\ lists2 = [lists EXCEPT ![k] = x] /\ x \in ChatList
      BY <1>2, <2>1, <2>2
    <3> HIDE DEF x
    <3>2. PICK i \in 1..Len(lists) : i = k
      BY <3>1
    <3>3. lists2 = [lists EXCEPT ![i] = x]
      BY <3>1, <3>2
    <3> QED
      BY <3>1, <3>3, SetAt
  <2>4. lists2[k] = [lists[k] EXCEPT !.messages = rows]
    BY <1>1, <1>2, <2>1
  <2>5. lists2[k].messages = rows /\ lists2[k].username = lists[k].username
    BY <1>2, <1>3, <2>4 DEF ChatList
  <2>6. \A i \in 1..Len(lists) : i # k => lists2[i] = lists[i]
    BY <1>1, <2>1
  <2> QED
    BY <2>3, <2>5, <2>6
<1> HIDE DEF k
<1>5. FirstRow(lists2, u) = FirstRow(lists, u)
  <2>1. /\ FirstRow(lists2, u) \in 0..Len(lists)
        /\ FirstRow(lists2, u) # 0 => lists2[FirstRow(lists2, u)].username = u
        /\ \A j \in 1..Len(lists) :
              lists2[j].username = u => FirstRow(lists2, u) # 0 /\ FirstRow(lists2, u) <= j
    <3>1. Len(lists2) \in Nat /\ Len(lists2) = Len(lists)
      BY <1>1, <1>4
    <3>2. /\ FirstRow(lists2, u) \in 0..Len(lists2)
          /\ FirstRow(lists2, u) # 0 => lists2[FirstRow(lists2, u)].username = u
          /\ \A j \in 1..Len(lists2) :
                lists2[j].username = u =>
                    FirstRow(lists2, u) # 0 /\ FirstRow(lists2, u) <= j
      BY <3>1, FirstRowLemma
    <3> QED
      BY <3>1, <3>2
  <2>2. /\ FirstRow(lists, u) \in 0..Len(lists)
        /\ FirstRow(lists, u) # 0 => lists[FirstRow(lists, u)].username = u
        /\ \A j \in 1..Len(lists) :
              lists[j].username = u => FirstRow(lists, u) # 0 /\ FirstRow(lists, u) <= j
    BY <1>1, FirstRowLemma
  <2>3. \A j \in 1..Len(lists) : lists2[j].username = lists[j].username
    BY <1>2, <1>4
  <2> DEFINE i == FirstRow(lists, u)
             j == FirstRow(lists2, u)
  <2>4. /\ i \in 0..Len(lists) /\ j \in 0..Len(lists)
        /\ i # 0 => j # 0 /\ j <= i
        /\ j # 0 => i # 0 /\ i <= j
    <3> HIDE DEF i, j
    <3>1. i # 0 => i \in 1..Len(lists) /\ lists2[i].username = u
      BY <1>1, <2>2, <2>3 DEF i
    <3>2. j # 0 => j \in 1..Len(lists) /\ lists[j].username = u
      BY <1>1, <2>1, <2>3 DEF j
    <3> QED
      BY <2>1, <2>2, <3>1, <3>2 DEF i, j
  <2> HIDE DEF i, j
  <2>5. i = j
    BY <1>1, <2>4
  <2> QED
    BY <2>5 DEF i, j
<1>6. FirstRow(lists, u) = k <=> u = owner
  BY <1>1, <1>2, FirstRowLemma DEF k
<1>7. FirstRow(lists, u) \in 0..Len(lists) /\ k # 0
  BY <1>1, <1>2, FirstRowLemma
<1>8. CASE u = owner
  BY <1>4, <1>5, <1>6, <1>7, <1>8 DEF ListIn
<1>9. CASE u # owner /\ FirstRow(lists, u) # 0
  <2>1. FirstRow(lists, u) \in 1..Len(lists) /\ FirstRow(lists, u) # k
    BY <1>1, <1>6, <1>7, <1>9
  <2>2. lists2[FirstRow(lists, u)] = lists[FirstRow(lists, u)]
    BY <1>4, <2>1
  <2>3. ListIn(lists, u) = lists[FirstRow(lists, u)].messages
    BY <1>9, Zenon DEF ListIn
  <2>4. ListIn(lists2, u) = lists2[FirstRow(lists, u)].messages
    BY <1>5, <1>9, Zenon DEF ListIn
  <2> QED
    BY <1>5, <1>9, <2>2, <2>3, <2>4, Zenon
<1>10. CASE u # owner /\ FirstRow(lists, u) = 0
  BY <1>5, <1>10 DEF ListIn
<1> QED
  BY <1>5, <1>8, <1>9, <1>10

\* A new document is empty, and not the first of a user who has one.
LEMMA AddList ==
    ASSUME NEW lists \in Seq(ChatList), NEW row \in ChatList, row.messages = <<>>,
           NEW lists2, lists2 = Append(lists, row), NEW u
    PROVE  /\ FirstRow(lists, u) # 0 => FirstRow(lists2, u) = FirstRow(lists, u)
           /\ ListIn(lists2, u) = ListIn(lists, u)
<1> DEFINE n == Len(lists) + 1
<1>1. /\ Len(lists) \in Nat /\ Len(lists2) = n
      /\ \A i \in 1..Len(lists) : lists2[i] = lists[i]
      /\ lists2[n] = row
  BY AppendFacts, LenProperties
<1>2. /\ FirstRow(lists2, u) \in 0..n
      /\ FirstRow(lists2, u) # 0 => lists2[FirstRow(lists2, u)].username = u
      /\ \A j \in 1..n :
            lists2[j].username = u => FirstRow(lists2, u) # 0 /\ FirstRow(lists2, u) <= j
  <2>1. Len(lists2) \in Nat
    BY <1>1
  <2>2. Len(lists2) = n
    BY <1>1
  <2> HIDE DEF n
  <2> QED
    BY <2>1, <2>2, FirstRowLemma
<1>3. /\ FirstRow(lists, u) \in 0..Len(lists)
      /\ FirstRow(lists, u) # 0 => lists[FirstRow(lists, u)].username = u
      /\ \A j \in 1..Len(lists) :
            lists[j].username = u => FirstRow(lists, u) # 0 /\ FirstRow(lists, u) <= j
  BY <1>1, FirstRowLemma
<1>4. FirstRow(lists, u) # 0 => FirstRow(lists2, u) = FirstRow(lists, u)
  BY <1>1, <1>2, <1>3
<1>5. FirstRow(lists, u) = 0 => FirstRow(lists2, u) \in {0, n}
  BY <1>1, <1>2, <1>3
<1> QED
  BY <1>1, <1>3, <1>4, <1>5 DEF ListIn

\* The update of a list brings the peer's item up to date and no other.
LEMMA UpdatedItems ==
    ASSUME NEW r \in Requests, NEW peer, PreviewOf(r, peer) \in Preview,
           NEW rows \in Seq(Preview), Unique(rows)
    PROVE  /\ ShowsIn(Updated(rows, r, peer), peer, EntryOf(r))
           /\ \A p : p # peer => SameItem(rows, Updated(rows, r, peer), p)
<1> DEFINE idx == PeerIdx(rows, peer)
           q == PreviewOf(r, peer)
           new == Updated(rows, r, peer)
<1>1. /\ Len(rows) \in Nat /\ DOMAIN rows = 1..Len(rows)
      /\ idx \in 0..Len(rows)
      /\ idx # 0 => rows[idx].toUsername = peer
      /\ idx = 0 => \A i \in 1..Len(rows) : rows[i].toUsername # peer
  BY LenProperties, PeerIdxLemma
<1>2. /\ q.toUsername = peer /\ q.lastMessage = EntryOf(r).message
      /\ q.lastMessageTime = EntryOf(r).time /\ q \in Preview
  BY DEF PreviewOf, EntryOf
<1>3. Unique(new)
  BY UpdatedRows
<1> HIDE DEF q, new
<1>4. \E k \in 1..Len(new) :
          /\ Len(new) \in Nat /\ Len(rows) <= Len(new) /\ new[k] = q
          /\ \A i \in 1..Len(new) : i # k => i \in 1..Len(rows) /\ new[i] = rows[i]
          /\ k \in 1..Len(rows) => rows[k].toUsername = peer
  <2>1. CASE idx # 0
    <3>1. new = [rows EXCEPT ![idx] = q] /\ idx \in 1..Len(rows)
      <4>1. new = [rows EXCEPT ![idx] = q]
        BY <2>1 DEF new, q, Updated, ReplaceAt
      <4> HIDE DEF idx
      <4> QED
        BY <1>1, <2>1, <4>1
    <3> HIDE DEF idx
    <3>2. Len(new) = Len(rows)
      BY <1>1, <3>1
    <3> QED
      BY <1>1, <2>1, <3>1, <3>2
  <2>2. CASE idx = 0
    <3>1. new = Append(rows, q)
      BY <2>2 DEF new, q, Updated
    <3>2. /\ Len(new) = Len(rows) + 1 /\ new[Len(rows) + 1] = q
          /\ \A i \in 1..Len(rows) : new[i] = rows[i]
      BY <1>1, <1>2, <3>1, AppendFacts
    <3>3. /\ Len(rows) + 1 \in 1..Len(new) /\ Len(new) \in Nat
          /\ Len(rows) + 1 \notin 1..Len(rows)
          /\ \A i \in 1..Len(new) : i # Len(rows) + 1 => i \in 1..Len(rows)
      BY <1>1, <3>2
    <3> QED
      BY <1>1, <3>2, <3>3
  <2> QED
    BY <2>1, <2>2
<1>5. PICK k \in 1..Len(new) :
          /\ Len(new) \in Nat /\ Len(rows) <= Len(new) /\ new[k] = q
          /\ \A i \in 1..Len(new) : i # k => i \in 1..Len(rows) /\ new[i] = rows[i]
          /\ k \in 1..Len(rows) => rows[k].toUsername = peer
  BY <1>4
<1>6. DOMAIN new = 1..Len(new)
  <2>1. new \in Seq(Preview)
    <3>1. CASE idx # 0
      BY <1>1, <1>2, <3>1 DEF new, q, Updated, ReplaceAt
    <3>2. CASE idx = 0
      BY <1>2, <3>2 DEF new, q, Updated
    <3> QED
      BY <3>1, <3>2
  <2> QED
    BY <2>1, LenProperties
<1>7. ASSUME NEW p
      PROVE  /\ PeerIdx(new, p) \in 0..Len(new)
             /\ PeerIdx(new, p) # 0 => new[PeerIdx(new, p)].toUsername = p
             /\ PeerIdx(new, p) = 0 => \A i \in 1..Len(new) : new[i].toUsername # p
             /\ PeerIdx(rows, p) \in 0..Len(rows)
             /\ PeerIdx(rows, p) # 0 => rows[PeerIdx(rows, p)].toUsername = p
             /\ PeerIdx(rows, p) = 0 => \A i \in 1..Len(rows) : rows[i].toUsername # p
  BY <1>1, <1>5, PeerIdxLemma
<1>8. ShowsIn(new, peer, EntryOf(r))
  <2>1. PeerIdx(new, peer) = k
    BY <1>2, <1>3, <1>5, <1>6, <1>7 DEF Unique
  <2> QED
    BY <1>2, <1>5, <2>1 DEF ShowsIn
<1>9. ASSUME NEW p, p # peer
      PROVE  SameItem(rows, new, p)
  <2>1. CASE PeerIdx(rows, p) # 0
    <3>1. PICK i \in 1..Len(rows) : i = PeerIdx(rows, p)
      BY <1>1, <1>7, <2>1
    <3>2. i # k /\ i \in 1..Len(new) /\ new[i] = rows[i] /\ rows[i].toUsername = p
      BY <1>1, <1>5, <1>7, <1>9, <2>1, <3>1
    <3>3. PeerIdx(new, p) = i
      BY <1>3, <1>6, <1>7, <3>2 DEF Unique
    <3> QED
      BY <2>1, <3>1, <3>2, <3>3 DEF SameItem
  <2>2. CASE PeerIdx(rows, p) = 0
    <3>1. PeerIdx(new, p) = 0
      BY <1>2, <1>5, <1>7, <1>9, <2>2
    <3> QED
      BY <2>2, <3>1 DEF SameItem
  <2> QED
    BY <2>1, <2>2
<1> QED
  BY <1>8, <1>9 DEF new

\* A chat is that of both its users.
LEMMA TalkSymmetric ==
    ASSUME NEW ids, Len(ids) \in Nat, NEW docs, NEW a, NEW b
    PROVE  /\ FirstChat(ids, a, b) = FirstChat(ids, b, a)
           /\ Talk(ids, docs, a, b) = Talk(ids, docs, b, a)
<1>1. \A c : SamePair(c, a, b) <=> SamePair(c, b, a)
  BY DEF SamePair
<1>2. FirstChat(ids, a, b) = FirstChat(ids, b, a)
  <2>1. /\ FirstChat(ids, a, b) \in 0..Len(ids)
        /\ FirstChat(ids, a, b) # 0 => SamePair(ids[FirstChat(ids, a, b)], a, b)
        /\ \A j \in 1..Len(ids) : SamePair(ids[j], a, b) =>
               FirstChat(ids, a, b) # 0 /\ FirstChat(ids, a, b) <= j
    BY FirstChatLemma
  <2>2. /\ FirstChat(ids, b, a) \in 0..Len(ids)
        /\ FirstChat(ids, b, a) # 0 => SamePair(ids[FirstChat(ids, b, a)], b, a)
        /\ \A j \in 1..Len(ids) : SamePair(ids[j], b, a) =>
               FirstChat(ids, b, a) # 0 /\ FirstChat(ids, b, a) <= j
    BY FirstChatLemma
  <2> QED
    BY <1>1, <2>1, <2>2
<1> QED
  BY <1>2 DEF Talk

\* No call fails.
NoFaults == MaxFaults = 0

\* Messages are sent by and to users who have signed up before.
SendersRegistered ==
    \A c \in Calls : c.op \in SendOps => {c.from, c.to} \subseteq ToSet(Registered)

Current(u, p) == CurrentIn(chat_ids, chat_messages, user_messages, u, p)

NoItem(u, p) == PeerIdx(ListIn(user_messages, u), p) = 0

Shows(u, p, e) == ShowsIn(ListIn(user_messages, u), p, e)

\* The items that a request still has to bring up to date
Behind(r, u, p) ==
    \/ /\ pc[r] \in {"insertMessages", "readSender", "writeSender"}
       /\ u = call[r].from /\ p = call[r].to
    \/ /\ pc[r] \in UpdateCalls \cup {"insertMessages"}
       /\ u = call[r].to /\ p = call[r].from

\* How far a send has come: its message is the last one; the items of its users
\* are missing in a new chat, and show another message in one that existed; it
\* writes what it has read.
StageOf(r) ==
    LET a == call[r].from
        b == call[r].to
    IN  /\ pc[r] \in UpdateCalls => Own(r) # <<>> /\ Last(Own(r)) = EntryOf(r)
        /\ pc[r] = "insertMessages" => NoItem(a, b) /\ NoItem(b, a)
        /\ pc[r] \in {"readSender", "writeSender"} =>
              \/ local[r].fresh /\ NoItem(a, b) /\ NoItem(b, a)
              \/ \E s \in Requests \ {r} :
                    pc[s] # "idle" /\ Shows(a, b, EntryOf(s)) /\ Shows(b, a, EntryOf(s))
        /\ pc[r] \in {"readRecipient", "writeRecipient"} =>
              \/ a = b /\ ~NoItem(b, a)
              \/ a # b /\ local[r].fresh /\ NoItem(b, a)
              \/ a # b /\ \E s \in Requests \ {r} :
                             pc[s] # "idle" /\ Shows(b, a, EntryOf(s))
        /\ pc[r] = "writeSender" =>
              local[r].rows = Updated(ListIn(user_messages, a), r, b)
        /\ pc[r] = "writeRecipient" =>
              local[r].rows = Updated(ListIn(user_messages, b), r, a)

ErrorOf(r) ==
    /\ reply[r].status = "DB_ERR"
    /\ call[r].op \in SendOps
    /\ call[r].from # call[r].to
    => EntryOf(r) \notin ToSet(Own(r)) \/ \E s \in Requests \ {r} : SameText(r, s)

\* Registered users have a chat list, and only the first one of a user is written.
ListsInv ==
    /\ \A u \in ToSet(Registered) : FirstRow(user_messages, u) # 0
    /\ \A i \in 1..Len(user_messages) :
          user_messages[i].messages # <<>> =>
              i = FirstRow(user_messages, user_messages[i].username)

CurrentInv ==
    \A u, p \in Names : Current(u, p) \/ \E r \in Requests : Behind(r, u, p)

SequentialInv ==
    /\ AnswersInv /\ CopiesInv /\ OneAtATime /\ ListsInv /\ CurrentInv
    /\ \A r \in Requests : StageOf(r) /\ ErrorOf(r)

LEMMA SequentialTypes ==
    ASSUME SequentialInv
    PROVE  /\ TypeOK /\ RequestsOK /\ StorageInv /\ SerialInv
           /\ chat_ids \in Seq(ChatId) /\ Len(chat_ids) \in Nat
           /\ chat_messages \in Seq(ChatLog) /\ user_messages \in Seq(ChatList)
           /\ \A r \in Requests : RequestInv(r) /\ AnswerOf(r)
<1>1. TypeOK /\ StorageInv /\ SerialInv /\ \A r \in Requests : RequestInv(r) /\ AnswerOf(r)
  BY DEF SequentialInv, AnswersInv, SerialInv, StorageInv, VisibleInv
<1> QED
  BY <1>1, LenProperties DEF TypeOK, DatabaseOK

\* While a request runs, every item is up to date but those it has to change.
LEMMA OthersCurrent ==
    ASSUME SequentialInv, NEW r \in Requests, pc[r] \in Running,
           NEW u \in Names, NEW p \in Names, ~Behind(r, u, p)
    PROVE  Current(u, p)
<1>1. ASSUME NEW s \in Requests, Behind(s, u, p)
      PROVE  FALSE
  <2>1. pc[s] \in Running
    BY <1>1 DEF Behind, UpdateCalls, Running, ReadCalls, WriteCalls
  <2>2. s = r
    BY <2>1 DEF SequentialInv, OneAtATime
  <2> QED
    BY <1>1, <2>2
<1> QED
  BY <1>1 DEF SequentialInv, CurrentInv

LEMMA CurrentStays ==
    ASSUME NEW ids, NEW ids2, NEW docs, NEW docs2, NEW lists, NEW lists2, NEW u, NEW p,
           CurrentIn(ids, docs, lists, u, p),
           FirstChat(ids2, u, p) # 0 => FirstChat(ids, u, p) # 0,
           Talk(ids2, docs2, u, p) = Talk(ids, docs, u, p),
           SameItem(ListIn(lists, u), ListIn(lists2, u), p)
    PROVE  CurrentIn(ids2, docs2, lists2, u, p)
BY DEF CurrentIn, SameItem, ShowsIn

LEMMA SameList ==
    ASSUME NEW rows, NEW p
    PROVE  SameItem(rows, rows, p)
BY DEF SameItem

\* The last message of a conversation was sent by a request that has stored it.
LEMMA LastIsSent ==
    ASSUME CopiesInv, NEW a, NEW b, Talk(chat_ids, chat_messages, a, b) # <<>>
    PROVE  \E s \in Requests :
              HasStored(s) /\ EntryOf(s) = Last(Talk(chat_ids, chat_messages, a, b))
<1> DEFINE row == FirstChat(chat_ids, a, b)
           doc == FirstLog(chat_messages, chat_ids[row].chat_id)
<1>1. chat_messages \in Seq(ChatLog) /\ Len(chat_messages) \in Nat
  BY LenProperties DEF CopiesInv, TypeOK, DatabaseOK
<1>2. doc # 0 /\ Talk(chat_ids, chat_messages, a, b) = chat_messages[doc].messages
  BY DEF Talk
<1>3. doc \in 1..Len(chat_messages)
  BY <1>1, <1>2, FirstLogLemma
<1> HIDE DEF doc
<1> DEFINE msgs == chat_messages[doc].messages
<1>4. msgs \in Seq(Entry) /\ msgs # <<>>
  <2>1. chat_messages[doc] \in ChatLog
    BY <1>1, <1>3, ElementOfSeq
  <2> QED
    BY <1>2, <2>1 DEF ChatLog
<1>5. Len(msgs) \in 1..Len(msgs)
  <2> HIDE DEF msgs
  <2> QED
    BY <1>4, EmptySeq, LenProperties
<1>6. <<doc, Len(msgs)>> \in Places(chat_messages)
  BY <1>3, <1>5 DEF Places
<1>7. At(chat_messages, <<doc, Len(msgs)>>) = Last(msgs)
  BY DEF At, Last
<1>8. PICK f : StoredBy(f)
  BY DEF CopiesInv
<1> HIDE DEF msgs
<1>9. /\ f[<<doc, Len(msgs)>>] \in Requests
      /\ HasStored(f[<<doc, Len(msgs)>>])
      /\ EntryOf(f[<<doc, Len(msgs)>>]) = Last(msgs)
  BY <1>6, <1>7, <1>8 DEF StoredBy
<1> QED
  BY <1>2, <1>9 DEF msgs

\* An item that is up to date shows a message that another request has stored.
LEMMA ShowsSent ==
    ASSUME SequentialInv, NEW r \in Requests, ~HasStored(r), NEW a, NEW b,
           Current(a, b), Current(b, a), FirstChat(chat_ids, a, b) # 0
    PROVE  \E s \in Requests \ {r} :
              pc[s] # "idle" /\ Shows(a, b, EntryOf(s)) /\ Shows(b, a, EntryOf(s))
<1>1. Len(chat_ids) \in Nat
  BY SequentialTypes
<1>2. /\ FirstChat(chat_ids, b, a) # 0
      /\ Talk(chat_ids, chat_messages, b, a) = Talk(chat_ids, chat_messages, a, b)
  BY <1>1, TalkSymmetric
<1>3. Talk(chat_ids, chat_messages, a, b) # <<>>
  BY DEF Current, CurrentIn
<1>4. PICK s \in Requests :
          HasStored(s) /\ EntryOf(s) = Last(Talk(chat_ids, chat_messages, a, b))
  BY <1>3, LastIsSent DEF SequentialInv
<1>5. s # r /\ pc[s] # "idle"
  BY <1>4 DEF HasStored, UpdateCalls
<1>6. Shows(a, b, EntryOf(s)) /\ Shows(b, a, EntryOf(s))
  BY <1>2, <1>4 DEF Current, CurrentIn, Shows
<1> QED
  BY <1>5, <1>6

----------------------------------------------------------------------------
(* Steps of the request that runs                                          *)

\* A step outside the updates that changes no conversation and no chat list
LEMMA AsideKeeps ==
    ASSUME SequentialInv, NEW r \in Requests,
           pc[r] \in Running \ (UpdateCalls \cup {"insertMessages"}),
           pc'[r] \notin UpdateCalls \cup {"insertMessages"},
           UNCHANGED <<chat_ids, chat_messages, call[r], local[r].time>>,
           ListsInv',
           \A u \in Names : ListIn(user_messages', u) = ListIn(user_messages, u),
           reply'[r].status = "DB_ERR" /\ call[r].op \in SendOps => Own(r) = <<>>
    PROVE  CurrentInv' /\ StageOf(r)' /\ ErrorOf(r)'
<1>1. ASSUME NEW u \in Names, NEW p \in Names
      PROVE  Current(u, p)'
  <2>1. ~Behind(r, u, p)
    BY DEF Behind, UpdateCalls
  <2>2. Current(u, p)
    BY <2>1, OthersCurrent
  <2>3. CurrentIn(chat_ids', chat_messages', user_messages', u, p)
    BY <2>2 DEF Current, CurrentIn
  <2> QED
    BY <2>3 DEF Current
<1>2. StageOf(r)'
  BY DEF StageOf, UpdateCalls
<1>3. ErrorOf(r)'
  <2>1. Own(r)' = Own(r)
    BY DEF Own
  <2>2. ToSet(<<>>) = {}
    BY DEF ToSet
  <2>3. reply'[r].status = "DB_ERR" /\ call'[r].op \in SendOps =>
            EntryOf(r)' \notin ToSet(Own(r)')
    BY <2>1, <2>2
  <2> QED
    BY <2>3 DEF ErrorOf
<1> QED
  BY <1>1, <1>2, <1>3 DEF CurrentInv

\* What a step of r leaves of the invariant
KeptBy(r) == ListsInv /\ CurrentInv /\ StageOf(r) /\ ErrorOf(r)

LEMMA AsideSteps ==
    ASSUME SequentialInv, NEW r \in Requests,
           \/ ListUsernames(r) \/ FindChats(r) \/ CheckRecipient(r) \/ FindChat(r)
           \/ FindMessages(r) /\ call[r].op = "getUserChatMessages"
           \/ AllocateChatId(r) \/ InsertUser(r)
    PROVE  KeptBy(r)'
<1>1. TypeOK /\ RequestInv(r) /\ AnswerOf(r)
  BY SequentialTypes
<1>2. UNCHANGED <<chat_ids, chat_messages, user_messages, call[r], local[r].time>>
  <2>1. CASE ListUsernames(r) \/ FindChats(r) \/ CheckRecipient(r) \/ FindMessages(r)
    BY <2>1, Zenon DEF ListUsernames, FindChats, CheckRecipient, FindMessages, database
  <2>2. CASE InsertUser(r)
    BY <2>2, Zenon DEF InsertUser, AddUser
  <2>3. CASE FindChat(r)
    BY <1>1, <2>3 DEF FindChat, database, TypeOK, RequestsOK, Local
  <2>4. CASE AllocateChatId(r)
    BY <1>1, <2>4 DEF AllocateChatId, database, TypeOK, RequestsOK, Local
  <2> QED
    BY <2>1, <2>2, <2>3, <2>4, Zenon
<1>3. pc[r] \in Running \ (UpdateCalls \cup {"insertMessages"})
  BY DEF ListUsernames, FindChats, CheckRecipient, FindChat, FindMessages,
         AllocateChatId, InsertUser, Running, ReadCalls, WriteCalls, UpdateCalls
<1>4. reply[r].status = "none"
  BY <1>1, <1>3 DEF AnswerOf
<1>5. ASSUME NEW step, Await(r, step), step \notin UpdateCalls \cup {"insertMessages"}
      PROVE  /\ pc'[r] \notin UpdateCalls \cup {"insertMessages"}
             /\ reply'[r].status = "DB_ERR" /\ call[r].op \in SendOps => Own(r) = <<>>
  BY <1>1, <1>4, <1>5, AwaitFacts
<1>6. ASSUME NEW status, NEW body, Send(r, status, body),
             status = "DB_ERR" /\ call[r].op \in SendOps => Own(r) = <<>>
      PROVE  /\ pc'[r] \notin UpdateCalls \cup {"insertMessages"}
             /\ reply'[r].status = "DB_ERR" /\ call[r].op \in SendOps => Own(r) = <<>>
  BY <1>1, <1>6, SendFacts DEF UpdateCalls
<1>7. /\ pc'[r] \notin UpdateCalls \cup {"insertMessages"}
      /\ reply'[r].status = "DB_ERR" /\ call[r].op \in SendOps => Own(r) = <<>>
  <2>1. CASE ListUsernames(r) \/ FindChats(r)
    BY <1>6, <2>1 DEF ListUsernames, FindChats
  <2>2. CASE CheckRecipient(r)
    BY <1>5, <1>6, <2>2 DEF CheckRecipient, UpdateCalls
  <2>3. CASE FindChat(r)
    <3>1. CASE ChatRow(call[r].from, call[r].to) = 0
      <4>1. Own(r) = <<>>
        BY <3>1, LookupsNow DEF Own, Talk
      <4>2. SendError(r) \/ Await(r, "lastChatId")
        BY <2>3, <3>1 DEF FindChat
      <4> QED
        BY <1>5, <1>6, <4>1, <4>2 DEF SendError, UpdateCalls
    <3>2. CASE ChatRow(call[r].from, call[r].to) # 0
      <4>1. Await(r, "findMessages") \/ Await(r, "pushMessage")
        BY <2>3, <3>2 DEF FindChat
      <4> QED
        BY <1>5, <4>1 DEF UpdateCalls
    <3> QED
      BY <3>1, <3>2
  <2>4. CASE FindMessages(r) /\ call[r].op = "getUserChatMessages"
    BY <1>6, <2>4 DEF FindMessages, SendError, SendOps
  <2>5. CASE AllocateChatId(r) \/ InsertUser(r)
    BY <1>5, <2>5 DEF AllocateChatId, InsertUser, UpdateCalls
  <2> QED
    BY <2>1, <2>2, <2>3, <2>4, <2>5
<1>8. ListsInv'
  BY <1>2 DEF SequentialInv, ListsInv
<1> QED
  BY <1>2, <1>3, <1>7, <1>8, AsideKeeps DEF KeptBy

\* A sign-up gives a user an empty list, which is not read when there is another.
LEMMA InsertRowKeeps ==
    ASSUME SequentialInv, NEW r \in Requests, InsertRow(r)
    PROVE  KeptBy(r)'
<1>1. /\ TypeOK /\ RequestsOK /\ RequestInv(r) /\ AnswerOf(r)
      /\ user_messages \in Seq(ChatList)
  BY SequentialTypes
<1>2. /\ pc[r] = "insertRow" /\ AddRow(r) /\ Send(r, "SUCCESS", <<>>)
      /\ UNCHANGED <<chat_ids, chat_messages, call[r], local[r].time>>
  BY DEF InsertRow, AddRow
<1>3. pc'[r] = "done" /\ reply'[r].status = "SUCCESS"
  BY <1>1, <1>2, SendFacts
<1> DEFINE row == [username |-> call[r].from, messages |-> <<>>]
<1>4. row \in ChatList
  BY <1>1, <1>2, RequestTypes DEF ChatList
<1>5. user_messages' = Append(user_messages, row)
  BY <1>2 DEF AddRow
<1>6. row.messages = <<>>
  OBVIOUS
<1>7. /\ Len(user_messages) \in Nat /\ Len(user_messages') = Len(user_messages) + 1
      /\ \A i \in 1..Len(user_messages) : user_messages'[i] = user_messages[i]
      /\ user_messages'[Len(user_messages) + 1].messages = <<>>
  BY <1>1, <1>4, <1>5, <1>6, AppendFacts, LenProperties
<1> HIDE DEF row
<1>8. ASSUME NEW u
      PROVE  /\ FirstRow(user_messages, u) # 0 =>
                    FirstRow(user_messages', u) = FirstRow(user_messages, u)
             /\ ListIn(user_messages', u) = ListIn(user_messages, u)
  BY <1>1, <1>4, <1>5, <1>6, AddList
<1>9. ListsInv'
  <2>1. ASSUME NEW u \in ToSet(Registered)
        PROVE  FirstRow(user_messages', u) # 0
    BY <1>8 DEF SequentialInv, ListsInv
  <2>2. ASSUME NEW i \in 1..Len(user_messages'), user_messages'[i].messages # <<>>
        PROVE  i = FirstRow(user_messages', user_messages'[i].username)
    <3>1. i \in 1..Len(user_messages)
      BY <1>7, <2>2
    <3>2. i = FirstRow(user_messages, user_messages[i].username)
      BY <1>7, <2>2, <3>1 DEF SequentialInv, ListsInv
    <3>3. user_messages'[i] = user_messages[i] /\ i # 0
      BY <1>7, <3>1
    <3> QED
      BY <1>8, <3>2, <3>3
  <2> QED
    BY <2>1, <2>2 DEF ListsInv
<1>10. pc[r] \in Running \ (UpdateCalls \cup {"insertMessages"})
  BY <1>2 DEF Running, ReadCalls, WriteCalls, UpdateCalls
<1>11. pc'[r] \notin UpdateCalls \cup {"insertMessages"}
  BY <1>3 DEF UpdateCalls
<1> QED
  BY <1>2, <1>3, <1>8, <1>9, <1>10, <1>11, AsideKeeps DEF KeptBy

\* A $push finds the document of its chat, and adds the message to it.
LEMMA PushKeeps ==
    ASSUME SequentialInv, CollectionsUnique', NEW r \in Requests, PushMessage(r)
    PROVE  KeptBy(r)'
<1> DEFINE a == call[r].from
           b == call[r].to
<1>1. /\ TypeOK /\ RequestsOK /\ RequestInv(r) /\ AnswerOf(r) /\ SerialInv
      /\ chat_ids \in Seq(ChatId) /\ Len(chat_ids) \in Nat
      /\ chat_messages \in Seq(ChatLog)
  BY SequentialTypes
<1>2. /\ pc[r] = "pushMessage" /\ AppendEntry(r) /\ pc[r] \in Running
      /\ UNCHANGED <<call, local, chat_ids, user_messages>>
  BY DEF PushMessage, AppendEntry, Running, WriteCalls
<1>3. a \in Names /\ b \in Names
  BY <1>1, <1>2, RequestTypes
<1>4. \A u, p \in Names : Current(u, p)
  BY <1>2, OthersCurrent DEF Behind, UpdateCalls
<1>5. ChatOf(r) # 0 /\ chat_ids[ChatOf(r)].chat_id = local[r].chat
  BY <1>1, <1>2 DEF RequestInv, IdOf
<1>6. Own(r) # <<>>
  BY <1>3, <1>4, <1>5 DEF Current, CurrentIn, Own, ChatOf
<1>7. Log(local[r].chat) # 0
  BY <1>5, <1>6, LookupsNow DEF Own, Talk, ChatOf
<1>8. pc'[r] = "readSender" /\ reply'[r].status = "none"
  <2>1. Await(r, "readSender")
    BY <1>7 DEF PushMessage, PushModifies
  <2> QED
    BY <1>1, <1>2, <2>1, AwaitFacts DEF AnswerOf
<1>9. PairGrows(a, b, EntryOf(r))
  <2>1. StoreStep(r)
    BY <1>2, <1>7, <1>8 DEF StoreStep
  <2> QED
    BY <1>1, <1>8, <2>1, StoreTalks
<1>10. Own(r) \in Seq(Entry) /\ EntryOf(r) \in Entry
  BY <1>1, <1>2, TalkType, RequestTypes DEF Own
<1>11. Own(r)' # <<>> /\ Last(Own(r)') = EntryOf(r)
  <2>1. Own(r)' = Append(Own(r), EntryOf(r))
    BY <1>2, <1>9 DEF PairGrows, Own
  <2> QED
    BY <1>10, <2>1, AppendFacts, LenProperties DEF Last
<1>12. PICK s \in Requests \ {r} :
           pc[s] # "idle" /\ Shows(a, b, EntryOf(s)) /\ Shows(b, a, EntryOf(s))
  <2>1. ~HasStored(r)
    BY <1>2 DEF HasStored, UpdateCalls
  <2> QED
    BY <1>3, <1>4, <1>5, <2>1, ShowsSent DEF ChatOf
<1>13. StageOf(r)'
  <2>1. /\ pc'[s] # "idle" /\ EntryOf(s)' = EntryOf(s)
        /\ Shows(a, b, EntryOf(s))' /\ Shows(b, a, EntryOf(s))'
    <3>1. pc'[s] = pc[s]
      BY <1>1, <1>8, <1>12 DEF PushMessage, Await, Send, SendError, TypeOK, RequestsOK
    <3>2. EntryOf(s)' = EntryOf(s)
      BY <1>2 DEF EntryOf
    <3> QED
      BY <1>2, <1>12, <3>1, <3>2 DEF Shows
  <2>2. EntryOf(r)' = EntryOf(r) /\ call'[r] = call[r]
    BY <1>2 DEF EntryOf
  <2> QED
    BY <1>8, <1>11, <2>1, <2>2 DEF StageOf
<1>14. CurrentInv'
  <2>1. ASSUME NEW u \in Names, NEW p \in Names, {u, p} # {a, b}
        PROVE  Current(u, p)'
    <3>1. Talk(chat_ids', chat_messages', u, p) = Talk(chat_ids, chat_messages, u, p)
      BY <1>9, <2>1 DEF PairGrows
    <3>2. CurrentIn(chat_ids', chat_messages', user_messages', u, p)
      BY <1>2, <1>4, <3>1, SameList, CurrentStays DEF Current
    <3> QED
      BY <3>2 DEF Current
  <2>2. ASSUME NEW u \in Names, NEW p \in Names, {u, p} = {a, b}
        PROVE  Behind(r, u, p)'
    <3>1. (u = a /\ p = b) \/ (u = b /\ p = a)
      BY <2>2
    <3> QED
      BY <1>2, <1>8, <3>1 DEF Behind, UpdateCalls
  <2> QED
    BY <2>1, <2>2 DEF CurrentInv
<1>15. ListsInv'
  BY <1>2 DEF SequentialInv, ListsInv
<1> QED
  BY <1>8, <1>13, <1>14, <1>15 DEF KeptBy, ErrorOf

\* The users of a new chat have no item of each other.
LEMMA InsertChatIdKeeps ==
    ASSUME SequentialInv, CollectionsUnique', NEW r \in Requests, InsertChatId(r)
    PROVE  KeptBy(r)'
<1> DEFINE a == call[r].from
           b == call[r].to
           row == [chat_id |-> local[r].chat, user1 |-> a, user2 |-> b]
<1>1. /\ TypeOK /\ RequestsOK /\ RequestInv(r) /\ AnswerOf(r) /\ SerialInv
      /\ chat_ids \in Seq(ChatId) /\ Len(chat_ids) \in Nat
  BY SequentialTypes
<1>2. /\ pc[r] = "insertChatId" /\ AddChatId(r) /\ pc[r] \in Running
      /\ UNCHANGED <<call, local, chat_messages, user_messages>>
      /\ chat_ids' = Append(chat_ids, row)
  BY DEF InsertChatId, AddChatId, Running, WriteCalls
<1>3. a \in Names /\ b \in Names /\ row \in ChatId
  BY <1>1, <1>2, RequestTypes DEF ChatId, Local
<1>4. \A u, p \in Names : Current(u, p)
  BY <1>2, OthersCurrent DEF Behind, UpdateCalls
<1>5. pc'[r] = "insertMessages" /\ reply'[r].status = "none"
  <2>1. Await(r, "insertMessages")
    BY DEF InsertChatId
  <2> QED
    BY <1>1, <1>2, <2>1, AwaitFacts DEF AnswerOf
<1>6. \A u, p : Talk(chat_ids', chat_messages', u, p) = Talk(chat_ids, chat_messages, u, p)
  <2>1. StoreStep(r)
    BY <1>2, <1>5 DEF StoreStep
  <2> QED
    BY <1>1, <1>2, <2>1, StoreTalks DEF StoreCalls
<1>7. NoItem(a, b) /\ NoItem(b, a)
  <2>1. \A i \in 1..Len(chat_ids) : ~SamePair(chat_ids[i], a, b)
    BY <1>1, <1>2 DEF SerialInv, OpeningOf, Allocating
  <2>2. Talk(chat_ids, chat_messages, a, b) = <<>>
    BY <1>1, <2>1, NoTalk
  <2>3. Talk(chat_ids, chat_messages, b, a) = <<>>
    BY <1>1, <2>2, TalkSymmetric
  <2> QED
    BY <1>3, <1>4, <2>2, <2>3 DEF Current, CurrentIn, NoItem
<1>8. StageOf(r)'
  <2>1. NoItem(a, b)' /\ NoItem(b, a)' /\ call'[r] = call[r]
    BY <1>2, <1>7 DEF NoItem
  <2> QED
    BY <1>5, <2>1 DEF StageOf, UpdateCalls
<1>9. ASSUME NEW u \in Names, NEW p \in Names, ~Behind(r, u, p)'
      PROVE  Current(u, p)'
  <2>1. ~(u = a /\ p = b) /\ ~(u = b /\ p = a)
    BY <1>2, <1>5, <1>9 DEF Behind
  <2>2. ~SamePair(row, u, p)
    BY <2>1 DEF SamePair
  <2>3. FirstChat(chat_ids', u, p) # 0 => FirstChat(chat_ids, u, p) # 0
    <3> HIDE DEF row
    <3> DEFINE n == Len(chat_ids) + 1
    <3>1. /\ Len(chat_ids') \in Nat /\ Len(chat_ids') = n
          /\ \A i \in 1..Len(chat_ids) : chat_ids'[i] = chat_ids[i]
          /\ chat_ids'[n] = row
      BY <1>1, <1>2, <1>3, AppendFacts, LenProperties
    <3>2. /\ FirstChat(chat_ids', u, p) \in 0..n
          /\ FirstChat(chat_ids', u, p) # 0 =>
                SamePair(chat_ids'[FirstChat(chat_ids', u, p)], u, p)
      <4> HIDE DEF n
      <4> QED
        BY <3>1, FirstChatLemma
    <3>3. \A j \in 1..Len(chat_ids) :
              SamePair(chat_ids[j], u, p) => FirstChat(chat_ids, u, p) # 0
      BY <1>1, FirstChatLemma
    <3> QED
      BY <1>1, <2>2, <3>1, <3>2, <3>3
  <2>4. CurrentIn(chat_ids', chat_messages', user_messages', u, p)
    BY <1>2, <1>4, <1>6, <2>3, SameList, CurrentStays DEF Current
  <2> QED
    BY <2>4 DEF Current
<1>10. ListsInv'
  BY <1>2 DEF SequentialInv, ListsInv
<1> QED
  BY <1>5, <1>8, <1>9, <1>10 DEF KeptBy, ErrorOf, CurrentInv

\* The first message of a chat
LEMMA InsertMessagesKeeps ==
    ASSUME SequentialInv, CollectionsUnique', NEW r \in Requests, InsertMessages(r)
    PROVE  KeptBy(r)'
<1> DEFINE a == call[r].from
           b == call[r].to
<1>1. /\ TypeOK /\ RequestsOK /\ RequestInv(r) /\ AnswerOf(r) /\ SerialInv
      /\ chat_ids \in Seq(ChatId) /\ chat_messages \in Seq(ChatLog)
  BY SequentialTypes
<1>2. /\ pc[r] = "insertMessages" /\ AddLog(r) /\ pc[r] \in Running
      /\ UNCHANGED <<call, local, chat_ids, user_messages>>
  BY DEF InsertMessages, AddLog, Running, WriteCalls
<1>3. pc'[r] = "readSender" /\ reply'[r].status = "none"
  <2>1. Await(r, "readSender")
    BY DEF InsertMessages
  <2> QED
    BY <1>1, <1>2, <2>1, AwaitFacts DEF AnswerOf
<1>4. PairGrows(a, b, EntryOf(r))
  <2>1. StoreStep(r)
    BY <1>2, <1>3 DEF StoreStep
  <2> QED
    BY <1>1, <1>3, <2>1, StoreTalks
<1>5. Own(r) \in Seq(Entry) /\ EntryOf(r) \in Entry
  BY <1>1, <1>2, TalkType, RequestTypes DEF Own
<1>6. Own(r)' # <<>> /\ Last(Own(r)') = EntryOf(r)
  <2>1. Own(r)' = Append(Own(r), EntryOf(r))
    BY <1>2, <1>4 DEF PairGrows, Own
  <2> QED
    BY <1>5, <2>1, AppendFacts, LenProperties DEF Last
<1>7. StageOf(r)'
  <2>1. NoItem(a, b)' /\ NoItem(b, a)'
    BY <1>2 DEF SequentialInv, StageOf, NoItem
  <2>2. local'[r].fresh
    BY <1>1, <1>2 DEF RequestInv, ControlOf
  <2>3. EntryOf(r)' = EntryOf(r) /\ call'[r] = call[r]
    BY <1>2 DEF EntryOf
  <2> QED
    BY <1>3, <1>6, <2>1, <2>2, <2>3 DEF StageOf
<1>8. ASSUME NEW u \in Names, NEW p \in Names, ~Behind(r, u, p)'
      PROVE  Current(u, p)'
  <2>1. ~(u = a /\ p = b) /\ ~(u = b /\ p = a)
    BY <1>2, <1>3, <1>8 DEF Behind, UpdateCalls
  <2>2. Talk(chat_ids', chat_messages', u, p) = Talk(chat_ids, chat_messages, u, p)
    BY <1>4, <2>1 DEF PairGrows
  <2>3. Current(u, p)
    BY <1>2, <2>1, OthersCurrent DEF Behind
  <2>4. CurrentIn(chat_ids', chat_messages', user_messages', u, p)
    BY <1>2, <2>2, <2>3, SameList, CurrentStays DEF Current
  <2> QED
    BY <2>4 DEF Current
<1>9. ListsInv'
  BY <1>2 DEF SequentialInv, ListsInv
<1> QED
  BY <1>3, <1>7, <1>8, <1>9 DEF KeptBy, ErrorOf, CurrentInv

\* The users of a send have a chat list.
LEMMA SendersHaveLists ==
    ASSUME SequentialInv, SendersRegistered, NEW r \in Requests,
           pc[r] # "idle", call[r].op \in SendOps
    PROVE  /\ call[r].from \in Names /\ FirstRow(user_messages, call[r].from) # 0
           /\ call[r].to \in Names /\ FirstRow(user_messages, call[r].to) # 0
<1>1. RequestsOK
  BY SequentialTypes
<1>2. call[r] \in Calls
  BY <1>1 DEF RequestsOK
<1>3. {call[r].from, call[r].to} \subseteq ToSet(Registered)
  BY <1>2 DEF SendersRegistered
<1> QED
  BY <1>1, <1>3, RequestTypes DEF SequentialInv, ListsInv

\* What the read of a list leaves for the write: the list with the peer's item
\* brought up to date.
LEMMA ReadRowReads ==
    ASSUME SequentialInv, NEW r \in Requests, pc[r] \in Running, NEW owner, NEW peer,
           NEW next, ReadRow(r, owner, peer, next), FirstRow(user_messages, owner) # 0,
           local[r].fresh \/ ~NoItem(owner, peer)
    PROVE  /\ UNCHANGED <<database, call>> /\ pc' = [pc EXCEPT ![r] = next]
           /\ local' = [local EXCEPT ![r].rows =
                           Updated(ListIn(user_messages, owner), r, peer)]
           /\ pc'[r] = next /\ reply'[r].status = "none"
           /\ local'[r].rows = Updated(ListIn(user_messages, owner), r, peer)
           /\ local'[r].fresh = local[r].fresh
           /\ \A s \in Requests : EntryOf(s)' = EntryOf(s)
<1>1. TypeOK /\ AnswerOf(r)
  BY SequentialTypes
<1>2. UserRow(owner) = FirstRow(user_messages, owner)
  BY UserRowIs
<1>3. ListIn(user_messages, owner) = user_messages[UserRow(owner)].messages
  BY <1>2 DEF ListIn
<1>4. ~(UserRow(owner) # 0 =>
           /\ ~local[r].fresh
           /\ PeerIdx(user_messages[UserRow(owner)].messages, peer) = 0)
  BY <1>2, <1>3 DEF NoItem
<1>5. /\ local' = [local EXCEPT ![r].rows =
                      Updated(ListIn(user_messages, owner), r, peer)]
      /\ Await(r, next) /\ UNCHANGED <<database, call>>
  BY <1>3, <1>4 DEF ReadRow, database
<1>6. pc'[r] = next /\ reply'[r].status = "none"
  BY <1>1, <1>5, AwaitFacts DEF AnswerOf
<1>7. /\ local'[r].rows = Updated(ListIn(user_messages, owner), r, peer)
      /\ local'[r].fresh = local[r].fresh
      /\ \A s \in Requests : local'[s].time = local[s].time
  <2> DEFINE new == Updated(ListIn(user_messages, owner), r, peer)
  <2>1. local' = [local EXCEPT ![r].rows = new]
    BY <1>5
  <2> HIDE DEF new
  <2>2. /\ local'[r].rows = new /\ local'[r].fresh = local[r].fresh
        /\ \A s \in Requests : local'[s].time = local[s].time
    BY <1>1, <2>1 DEF TypeOK, RequestsOK, Local
  <2> QED
    BY <2>2 DEF new
<1>8. \A s \in Requests : EntryOf(s)' = EntryOf(s)
  BY <1>5, <1>7 DEF EntryOf
<1> QED
  BY <1>5, <1>6, <1>7, <1>8 DEF Await

\* A list that has been read and updated, and is written back
LEMMA WriteBrings ==
    ASSUME SequentialInv, NEW r \in Requests, pc[r] # "idle",
           NEW owner \in Names, NEW peer \in Names, SetRow(r, owner),
           FirstRow(user_messages, owner) # 0,
           local[r].rows = Updated(ListIn(user_messages, owner), r, peer),
           {owner, peer} = {call[r].from, call[r].to},
           Own(r) # <<>>, Last(Own(r)) = EntryOf(r)
    PROVE  /\ UNCHANGED <<chat_ids, chat_messages>>
           /\ \A u : ListIn(user_messages', u) =
                        IF u = owner THEN local[r].rows ELSE ListIn(user_messages, u)
           /\ ShowsIn(local[r].rows, peer, EntryOf(r))
           /\ ListsInv'
           /\ Current(owner, peer)'
           /\ \A u, p \in Names : Current(u, p) /\ ~(u = owner /\ p = peer) =>
                                      Current(u, p)'
           /\ ~SetModifies(r, owner) => Shows(owner, peer, EntryOf(r))
<1> DEFINE k == FirstRow(user_messages, owner)
           rows == ListIn(user_messages, owner)
           new == local[r].rows
<1>1. /\ TypeOK /\ RequestsOK /\ StorageInv
      /\ user_messages \in Seq(ChatList) /\ Len(user_messages) \in Nat
      /\ Len(chat_ids) \in Nat
  BY SequentialTypes, LenProperties
<1>2. UserRow(owner) = k
  BY UserRowIs
<1>3. /\ UNCHANGED <<chat_ids, chat_messages>>
      /\ user_messages' = ListSet(user_messages, owner, new)
  BY <1>2 DEF SetRow, ListSet
<1>4. new \in Seq(Preview) /\ PreviewOf(r, peer) \in Preview
  BY <1>1, RequestTypes DEF Local
<1>5. rows \in Seq(Preview)
  BY <1>1, ListType
<1>6. k \in 1..Len(user_messages) /\ user_messages[k].username = owner
  BY <1>1, FirstRowLemma
<1>7. Unique(rows)
  <2>1. user_messages[k] \in ToSet(user_messages)
    BY <1>1, <1>6, LenProperties DEF ToSet
  <2>2. Unique(user_messages[k].messages)
    BY <1>1, <2>1 DEF StorageInv, CollectionsInv, RowsUnique
  <2> QED
    BY <2>2 DEF ListIn
<1>8. /\ ShowsIn(new, peer, EntryOf(r))
      /\ \A p : p # peer => SameItem(rows, new, p)
  BY <1>4, <1>5, <1>7, UpdatedItems
<1>9. \A u : /\ FirstRow(user_messages', u) = FirstRow(user_messages, u)
             /\ ListIn(user_messages', u) =
                    IF u = owner THEN new ELSE ListIn(user_messages, u)
  BY <1>1, <1>3, <1>4, SetList
<1>10. ListsInv'
  <2>1. \A u \in ToSet(Registered) : FirstRow(user_messages', u) # 0
    BY <1>9 DEF SequentialInv, ListsInv
  <2>2. /\ Len(user_messages') = Len(user_messages)
        /\ user_messages'[k].username = owner
        /\ \A i \in 1..Len(user_messages) : i # k => user_messages'[i] = user_messages[i]
    <3> HIDE DEF new, k
    <3> DEFINE x == [user_messages[k] EXCEPT !.messages = new]
    <3>1. user_messages' = [user_messages EXCEPT ![k] = x]
      BY <1>3 DEF ListSet, k
    <3>2. user_messages[k] \in ChatList
      BY <1>1, <1>6, ElementOfSeq
    <3>3. x \in ChatList /\ x.username = owner
      BY <1>4, <1>6, <3>2 DEF ChatList
    <3> HIDE DEF x
    <3> QED
      BY <1>1, <1>6, <3>1, <3>3
  <2>3. ASSUME NEW i \in 1..Len(user_messages'), user_messages'[i].messages # <<>>
        PROVE  i = FirstRow(user_messages', user_messages'[i].username)
    <3>1. CASE i = k
      BY <1>9, <2>2, <3>1
    <3>2. CASE i # k
      <4>1. i \in 1..Len(user_messages) /\ user_messages'[i] = user_messages[i]
        BY <2>2, <3>2
      <4> QED
        BY <1>9, <2>3, <4>1 DEF SequentialInv, ListsInv
    <3> QED
      BY <3>1, <3>2
  <2> QED
    BY <2>1, <2>3 DEF ListsInv
<1>11. Current(owner, peer)'
  <2>1. Talk(chat_ids, chat_messages, owner, peer) = Own(r)
    <3>1. \/ owner = call[r].from /\ peer = call[r].to
          \/ owner = call[r].to /\ peer = call[r].from
      OBVIOUS
    <3> QED
      BY <1>1, <3>1, TalkSymmetric DEF Own
  <2>2. ListIn(user_messages', owner) = new
    BY <1>9
  <2>3. PeerIdx(new, peer) # 0
    BY <1>8 DEF ShowsIn
  <2> HIDE DEF new
  <2>4. CurrentIn(chat_ids', chat_messages', user_messages', owner, peer)
    BY <1>3, <1>8, <2>1, <2>2, <2>3 DEF CurrentIn
  <2> QED
    BY <2>4 DEF Current
<1>12. ASSUME NEW u \in Names, NEW p \in Names, Current(u, p), ~(u = owner /\ p = peer)
       PROVE  Current(u, p)'
  <2>1. SameItem(ListIn(user_messages, u), ListIn(user_messages', u), p)
    <3>1. CASE u = owner
      <4>1. ListIn(user_messages', u) = new
        BY <1>9, <3>1
      <4> HIDE DEF new
      <4> QED
        BY <1>8, <1>12, <3>1, <4>1
    <3>2. CASE u # owner
      <4>1. ListIn(user_messages', u) = ListIn(user_messages, u)
        BY <1>9, <3>2
      <4> QED
        BY <4>1, SameList
    <3> QED
      BY <3>1, <3>2
  <2>2. CurrentIn(chat_ids', chat_messages', user_messages', u, p)
    BY <1>3, <1>12, <2>1, CurrentStays DEF Current
  <2> QED
    BY <2>2 DEF Current
<1>13. ~SetModifies(r, owner) => Shows(owner, peer, EntryOf(r))
  <2>1. ~SetModifies(r, owner) => rows = new
    BY <1>2 DEF SetModifies, ListIn
  <2> QED
    BY <1>8, <2>1 DEF Shows
<1> QED
  BY <1>3, <1>8, <1>9, <1>10, <1>11, <1>12, <1>13

\* Two requests whose messages one item shows have sent the same text at the
\* same time.
LEMMA ShownTogether ==
    ASSUME NEW r \in Requests, NEW s \in Requests, pc[s] # "idle", NEW u, NEW p,
           Shows(u, p, EntryOf(r)), Shows(u, p, EntryOf(s))
    PROVE  SameText(r, s) /\ \A v, q : Shows(v, q, EntryOf(s)) => Shows(v, q, EntryOf(r))
BY DEF Shows, ShowsIn, SameText, EntryOf

LEMMA ReadSenderKeeps ==
    ASSUME SequentialInv, SendersRegistered, NEW r \in Requests,
           call[r].op \in SendOps, ReadSender(r)
    PROVE  KeptBy(r)'
<1> DEFINE a == call[r].from
           b == call[r].to
<1>1. pc[r] = "readSender" /\ pc[r] \in Running /\ StageOf(r)
  BY DEF ReadSender, SequentialInv, Running, ReadCalls
<1>2. local[r].fresh \/ ~NoItem(a, b)
  BY <1>1 DEF StageOf, Shows, ShowsIn, NoItem
<1>3. ReadRow(r, a, b, "writeSender") /\ FirstRow(user_messages, a) # 0
  BY <1>1, SendersHaveLists DEF ReadSender
<1>4. /\ UNCHANGED <<chat_ids, chat_messages, user_messages, call>>
      /\ pc' = [pc EXCEPT ![r] = "writeSender"]
      /\ pc'[r] = "writeSender" /\ reply'[r].status = "none"
      /\ local'[r].rows = Updated(ListIn(user_messages, a), r, b)
      /\ local'[r].fresh = local[r].fresh
      /\ \A s \in Requests : EntryOf(s)' = EntryOf(s)
  <2> HIDE DEF a, b
  <2> QED
    BY <1>1, <1>2, <1>3, ReadRowReads DEF database
<1>5. StageOf(r)'
  <2>1. Own(r)' # <<>> /\ Last(Own(r)') = EntryOf(r)'
    BY <1>1, <1>4 DEF StageOf, Own, UpdateCalls
  <2>2. \/ local'[r].fresh /\ NoItem(a, b)' /\ NoItem(b, a)'
        \/ \E s \in Requests \ {r} :
              pc'[s] # "idle" /\ Shows(a, b, EntryOf(s))' /\ Shows(b, a, EntryOf(s))'
    <3>1. CASE local[r].fresh /\ NoItem(a, b) /\ NoItem(b, a)
      BY <1>4, <3>1 DEF NoItem
    <3>2. ASSUME NEW s \in Requests \ {r},
                 pc[s] # "idle" /\ Shows(a, b, EntryOf(s)) /\ Shows(b, a, EntryOf(s))
          PROVE  pc'[s] # "idle" /\ Shows(a, b, EntryOf(s))' /\ Shows(b, a, EntryOf(s))'
      <4>1. pc'[s] = pc[s] /\ EntryOf(s)' = EntryOf(s)
        BY <1>4, SequentialTypes DEF TypeOK, RequestsOK
      <4> QED
        BY <1>4, <3>2, <4>1 DEF Shows
    <3> QED
      BY <1>1, <3>1, <3>2 DEF StageOf
  <2>3. Updated(ListIn(user_messages, a), r, b)' = Updated(ListIn(user_messages, a), r, b)
    <3>1. PreviewOf(r, b)' = PreviewOf(r, b)
      BY <1>4 DEF EntryOf, PreviewOf
    <3> QED
      BY <1>4, <3>1 DEF Updated
  <2> QED
    BY <1>4, <2>1, <2>2, <2>3 DEF StageOf
<1>6. CurrentInv'
  <2>1. ASSUME NEW u \in Names, NEW p \in Names, ~Behind(r, u, p)'
        PROVE  Current(u, p)'
    <3>1. ~Behind(r, u, p)
      BY <1>1, <1>4, <2>1 DEF Behind, UpdateCalls
    <3>2. Current(u, p)
      BY <1>1, <3>1, OthersCurrent
    <3> QED
      BY <1>4, <3>2 DEF Current
  <2> QED
    BY <2>1 DEF CurrentInv
<1>7. ListsInv'
  BY <1>4 DEF SequentialInv, ListsInv
<1> QED
  BY <1>4, <1>5, <1>6, <1>7 DEF KeptBy, ErrorOf

LEMMA ReadRecipientKeeps ==
    ASSUME SequentialInv, SendersRegistered, NEW r \in Requests,
           call[r].op \in SendOps, ReadRecipient(r)
    PROVE  KeptBy(r)'
<1> DEFINE a == call[r].from
           b == call[r].to
<1>1. pc[r] = "readRecipient" /\ pc[r] \in Running /\ StageOf(r)
  BY DEF ReadRecipient, SequentialInv, Running, ReadCalls
<1>2. local[r].fresh \/ ~NoItem(b, a)
  BY <1>1 DEF StageOf, Shows, ShowsIn, NoItem
<1>3. ReadRow(r, b, a, "writeRecipient") /\ FirstRow(user_messages, b) # 0
  BY <1>1, SendersHaveLists DEF ReadRecipient
<1>4. /\ UNCHANGED <<chat_ids, chat_messages, user_messages, call>>
      /\ pc' = [pc EXCEPT ![r] = "writeRecipient"]
      /\ pc'[r] = "writeRecipient" /\ reply'[r].status = "none"
      /\ local'[r].rows = Updated(ListIn(user_messages, b), r, a)
      /\ local'[r].fresh = local[r].fresh
      /\ \A s \in Requests : EntryOf(s)' = EntryOf(s)
  <2> HIDE DEF a, b
  <2> QED
    BY <1>1, <1>2, <1>3, ReadRowReads DEF database
<1>5. StageOf(r)'
  <2>1. Own(r)' # <<>> /\ Last(Own(r)') = EntryOf(r)'
    BY <1>1, <1>4 DEF StageOf, Own, UpdateCalls
  <2>2. \/ a = b /\ ~NoItem(b, a)'
        \/ a # b /\ local'[r].fresh /\ NoItem(b, a)'
        \/ a # b /\ \E s \in Requests \ {r} : pc'[s] # "idle" /\ Shows(b, a, EntryOf(s))'
    <3>1. CASE a = b /\ ~NoItem(b, a)
      BY <1>4, <3>1 DEF NoItem
    <3>2. CASE a # b /\ local[r].fresh /\ NoItem(b, a)
      BY <1>4, <3>2 DEF NoItem
    <3>3. ASSUME NEW s \in Requests \ {r}, pc[s] # "idle" /\ Shows(b, a, EntryOf(s))
          PROVE  pc'[s] # "idle" /\ Shows(b, a, EntryOf(s))'
      <4>1. pc'[s] = pc[s] /\ EntryOf(s)' = EntryOf(s)
        BY <1>4, SequentialTypes DEF TypeOK, RequestsOK
      <4> QED
        BY <1>4, <3>3, <4>1 DEF Shows
    <3> QED
      BY <1>1, <3>1, <3>2, <3>3 DEF StageOf
  <2>3. Updated(ListIn(user_messages, b), r, a)' = Updated(ListIn(user_messages, b), r, a)
    <3>1. PreviewOf(r, a)' = PreviewOf(r, a)
      BY <1>4 DEF EntryOf, PreviewOf
    <3> QED
      BY <1>4, <3>1 DEF Updated
  <2> QED
    BY <1>4, <2>1, <2>2, <2>3 DEF StageOf
<1>6. CurrentInv'
  <2>1. ASSUME NEW u \in Names, NEW p \in Names, ~Behind(r, u, p)'
        PROVE  Current(u, p)'
    <3>1. ~Behind(r, u, p)
      BY <1>1, <1>4, <2>1 DEF Behind, UpdateCalls
    <3>2. Current(u, p)
      BY <1>1, <3>1, OthersCurrent
    <3> QED
      BY <1>4, <3>2 DEF Current
  <2> QED
    BY <2>1 DEF CurrentInv
<1>7. ListsInv'
  BY <1>4 DEF SequentialInv, ListsInv
<1> QED
  BY <1>4, <1>5, <1>6, <1>7 DEF KeptBy, ErrorOf

\* When the sender's list was the same already, another request has sent the same
\* text at the same time, and the recipient's list is as it should be too.
LEMMA WriteSenderKeeps ==
    ASSUME SequentialInv, SendersRegistered, NEW r \in Requests,
           call[r].op \in SendOps, WriteSender(r)
    PROVE  KeptBy(r)'
<1>1. pc[r] = "writeSender" /\ pc[r] \in Running /\ StageOf(r) /\ pc[r] # "idle"
  BY DEF WriteSender, SequentialInv, Running, WriteCalls
<1> PICK a \in Names, b \in Names : a = call[r].from /\ b = call[r].to
  BY <1>1, SendersHaveLists
<1> DEFINE M == SetModifies(r, a)
<1>2. /\ FirstRow(user_messages, a) # 0
      /\ TypeOK /\ RequestsOK /\ AnswerOf(r)
  BY <1>1, SendersHaveLists, SequentialTypes
<1>3. /\ SetRow(r, a) /\ UNCHANGED <<call, local>>
      /\ IF M THEN Await(r, "readRecipient") ELSE SendError(r)
  BY DEF WriteSender
<1>4. /\ Own(r) # <<>> /\ Last(Own(r)) = EntryOf(r)
      /\ local[r].rows = Updated(ListIn(user_messages, a), r, b)
      /\ \/ local[r].fresh /\ NoItem(a, b) /\ NoItem(b, a)
         \/ \E s \in Requests \ {r} :
               pc[s] # "idle" /\ Shows(a, b, EntryOf(s)) /\ Shows(b, a, EntryOf(s))
  BY <1>1 DEF StageOf, UpdateCalls
<1>5. /\ UNCHANGED <<chat_ids, chat_messages>>
      /\ \A u : ListIn(user_messages', u) =
                   IF u = a THEN local[r].rows ELSE ListIn(user_messages, u)
      /\ ShowsIn(local[r].rows, b, EntryOf(r))
      /\ ListsInv'
      /\ Current(a, b)'
      /\ \A u, p \in Names : Current(u, p) /\ ~(u = a /\ p = b) => Current(u, p)'
      /\ ~M => Shows(a, b, EntryOf(r))
  BY <1>1, <1>2, <1>3, <1>4, WriteBrings
<1>6. /\ M => pc'[r] = "readRecipient" /\ reply'[r].status = "none"
      /\ ~M => pc'[r] = "done"
      /\ \A s \in Requests \ {r} : pc'[s] = pc[s]
  <2>1. M => pc'[r] = "readRecipient" /\ reply'[r].status = "none"
    BY <1>1, <1>2, <1>3, AwaitFacts DEF AnswerOf
  <2>2. ~M => pc'[r] = "done"
    BY <1>2, <1>3, SendFacts DEF SendError
  <2>3. \A s \in Requests \ {r} : pc'[s] = pc[s]
    BY <1>2, <1>3 DEF Await, SendError, Send, RequestsOK
  <2> QED
    BY <2>1, <2>2, <2>3
<1>7. /\ \A s \in Requests : EntryOf(s)' = EntryOf(s)
      /\ Own(r)' = Own(r) /\ call'[r] = call[r] /\ local'[r] = local[r]
  BY <1>3, <1>5 DEF EntryOf, Own
<1>8. ~M => \E s \in Requests \ {r} : SameText(r, s) /\ Shows(b, a, EntryOf(r))
  <2> SUFFICES ASSUME ~M
               PROVE  \E s \in Requests \ {r} : SameText(r, s) /\ Shows(b, a, EntryOf(r))
    OBVIOUS
  <2>1. Shows(a, b, EntryOf(r))
    BY <1>5
  <2>2. PICK s \in Requests \ {r} :
            pc[s] # "idle" /\ Shows(a, b, EntryOf(s)) /\ Shows(b, a, EntryOf(s))
    BY <1>4, <2>1 DEF Shows, ShowsIn, NoItem
  <2> QED
    BY <2>1, <2>2, ShownTogether
<1>9. ASSUME NEW s \in Requests \ {r}, SameText(r, s)
      PROVE  SameText(r, s)'
  BY <1>3, <1>6, <1>9 DEF SameText
<1>10. CASE M
  <2>1. StageOf(r)'
    <3>1. \/ a = b /\ ~NoItem(b, a)'
          \/ a # b /\ local[r].fresh /\ NoItem(b, a)'
          \/ a # b /\ \E s \in Requests \ {r} :
                         pc'[s] # "idle" /\ Shows(b, a, EntryOf(s))'
      <4>1. CASE a = b
        BY <1>5, <4>1 DEF NoItem, ShowsIn
      <4>2. CASE a # b
        <5>1. ListIn(user_messages', b) = ListIn(user_messages, b)
          BY <1>5, <4>2
        <5>2. CASE local[r].fresh /\ NoItem(b, a)
          BY <4>2, <5>1, <5>2 DEF NoItem
        <5>3. ASSUME NEW s \in Requests \ {r}, pc[s] # "idle" /\ Shows(b, a, EntryOf(s))
              PROVE  pc'[s] # "idle" /\ Shows(b, a, EntryOf(s))'
          BY <1>6, <1>7, <5>1, <5>3 DEF Shows
        <5> QED
          BY <1>4, <4>2, <5>2, <5>3
      <4> QED
        BY <4>1, <4>2
    <3> QED
      BY <1>4, <1>6, <1>7, <1>10, <3>1 DEF StageOf
  <2>2. ASSUME NEW u \in Names, NEW p \in Names, ~Behind(r, u, p)'
        PROVE  Current(u, p)'
    <3>1. CASE u = a /\ p = b
      BY <1>5, <3>1
    <3>2. CASE ~(u = a /\ p = b)
      <4>1. ~Behind(r, u, p)
        BY <1>1, <1>6, <1>7, <1>10, <2>2, <3>2 DEF Behind, UpdateCalls
      <4> QED
        BY <1>1, <1>5, <3>2, <4>1, OthersCurrent
    <3> QED
      BY <3>1, <3>2
  <2> QED
    BY <1>5, <1>6, <1>10, <2>1, <2>2 DEF KeptBy, ErrorOf, CurrentInv
<1>11. CASE ~M
  <2>1. StageOf(r)'
    BY <1>6, <1>11 DEF StageOf, UpdateCalls
  <2>2. ErrorOf(r)'
    BY <1>8, <1>9, <1>11 DEF ErrorOf
  <2>3. Current(b, a)
    <3>1. Shows(b, a, EntryOf(r))
      BY <1>8, <1>11
    <3>2. Talk(chat_ids, chat_messages, b, a) = Own(r)
      BY SequentialTypes, TalkSymmetric DEF Own
    <3> QED
      BY <1>4, <3>1, <3>2 DEF Current, CurrentIn, Shows, ShowsIn
  <2>4. ASSUME NEW u \in Names, NEW p \in Names
        PROVE  Current(u, p)'
    <3>1. CASE u = a /\ p = b
      BY <1>5, <3>1
    <3>2. CASE u = b /\ p = a /\ ~(u = a /\ p = b)
      BY <1>5, <2>3, <3>2
    <3>3. CASE ~(u = a /\ p = b) /\ ~(u = b /\ p = a)
      <4>1. ~Behind(r, u, p)
        BY <3>3 DEF Behind
      <4> QED
        BY <1>1, <1>5, <3>3, <4>1, OthersCurrent
    <3> QED
      BY <3>1, <3>2, <3>3
  <2> QED
    BY <1>5, <2>1, <2>2, <2>4 DEF KeptBy, CurrentInv
<1> QED
  BY <1>10, <1>11

LEMMA WriteRecipientKeeps ==
    ASSUME SequentialInv, SendersRegistered, NEW r \in Requests,
           call[r].op \in SendOps, WriteRecipient(r)
    PROVE  KeptBy(r)'
<1>1. pc[r] = "writeRecipient" /\ pc[r] \in Running /\ StageOf(r) /\ pc[r] # "idle"
  BY DEF WriteRecipient, SequentialInv, Running, WriteCalls
<1> PICK a \in Names, b \in Names : a = call[r].from /\ b = call[r].to
  BY <1>1, SendersHaveLists
<1> DEFINE M == SetModifies(r, b)
<1>2. /\ FirstRow(user_messages, b) # 0
      /\ TypeOK /\ RequestsOK /\ AnswerOf(r)
  BY <1>1, SendersHaveLists, SequentialTypes
<1>3. /\ SetRow(r, b) /\ UNCHANGED <<call, local>>
      /\ IF M THEN Send(r, "SUCCESS", <<>>) ELSE SendError(r)
  BY DEF WriteRecipient
<1>4. /\ Own(r) # <<>> /\ Last(Own(r)) = EntryOf(r)
      /\ local[r].rows = Updated(ListIn(user_messages, b), r, a)
      /\ \/ a = b
         \/ local[r].fresh /\ NoItem(b, a)
         \/ \E s \in Requests \ {r} : pc[s] # "idle" /\ Shows(b, a, EntryOf(s))
  BY <1>1 DEF StageOf, UpdateCalls
<1>5. /\ UNCHANGED <<chat_ids, chat_messages>>
      /\ ListsInv'
      /\ Current(b, a)'
      /\ \A u, p \in Names : Current(u, p) /\ ~(u = b /\ p = a) => Current(u, p)'
      /\ ~M => Shows(b, a, EntryOf(r))
  BY <1>1, <1>2, <1>3, <1>4, WriteBrings
<1>6. /\ pc'[r] = "done"
      /\ M => reply'[r].status = "SUCCESS"
      /\ \A s \in Requests \ {r} : pc'[s] = pc[s]
  <2>1. pc'[r] = "done" /\ (M => reply'[r].status = "SUCCESS")
    BY <1>2, <1>3, SendFacts DEF SendError
  <2>2. \A s \in Requests \ {r} : pc'[s] = pc[s]
    BY <1>2, <1>3 DEF SendError, Send, RequestsOK
  <2> QED
    BY <2>1, <2>2
<1>7. StageOf(r)'
  BY <1>6 DEF StageOf, UpdateCalls
<1>8. ErrorOf(r)'
  <2> SUFFICES ASSUME a # b, ~M
               PROVE  \E s \in Requests \ {r} : SameText(r, s)'
    BY <1>3, <1>6 DEF ErrorOf
  <2>1. Shows(b, a, EntryOf(r))
    BY <1>5
  <2>2. PICK s \in Requests \ {r} : pc[s] # "idle" /\ Shows(b, a, EntryOf(s))
    BY <1>4, <2>1 DEF Shows, ShowsIn, NoItem
  <2>3. SameText(r, s)
    BY <2>1, <2>2, ShownTogether
  <2> QED
    BY <1>3, <1>6, <2>3 DEF SameText
<1>9. ASSUME NEW u \in Names, NEW p \in Names
      PROVE  Current(u, p)'
  <2>1. CASE u = b /\ p = a
    BY <1>5, <2>1
  <2>2. CASE ~(u = b /\ p = a)
    <3>1. ~Behind(r, u, p)
      BY <1>1, <2>2 DEF Behind
    <3> QED
      BY <1>1, <1>5, <2>2, <3>1, OthersCurrent
  <2> QED
    BY <2>1, <2>2
<1> QED
  BY <1>5, <1>7, <1>8, <1>9 DEF KeptBy, CurrentInv

LEMMA ActorKeepsAll ==
    ASSUME SequentialInv, SendersRegistered, CollectionsUnique',
           NEW r \in Requests, Step(r)
    PROVE  KeptBy(r)'
<1>1. CASE getExistingUsernames(r) \/ getUserChats(r) \/ getUserChatMessages(r)
  BY <1>1, AsideSteps DEF getExistingUsernames, getUserChats, getUserChatMessages
<1>2. CASE addNewUser(r)
  BY <1>2, AsideSteps, InsertRowKeeps DEF addNewUser
<1>3. CASE UpdatePreviews(r) /\ call[r].op \in SendOps
  BY <1>3, ReadSenderKeeps, WriteSenderKeeps, ReadRecipientKeeps, WriteRecipientKeeps
     DEF UpdatePreviews
<1>4. CASE sendMessage(r)
  BY <1>3, <1>4, AsideSteps, PushKeeps DEF sendMessage, SendOps
<1>5. CASE sendNewMessage(r)
  BY <1>3, <1>5, AsideSteps, PushKeeps, InsertChatIdKeeps, InsertMessagesKeeps
     DEF sendNewMessage, SendOps
<1> QED
  BY <1>1, <1>2, <1>4, <1>5 DEF Step

\* The requests that have been answered, or have not arrived
LEMMA OthersKeepErrors ==
    ASSUME SequentialInv, CollectionsUnique', NEW r \in Requests, Step(r),
           NEW s \in Requests, s # r
    PROVE  StageOf(s)' /\ ErrorOf(s)'
<1>1. /\ TypeOK /\ RequestsOK /\ SerialInv /\ StageOf(s) /\ ErrorOf(s) /\ RequestInv(s)
      /\ chat_ids \in Seq(ChatId) /\ chat_messages \in Seq(ChatLog)
  BY SequentialTypes DEF SequentialInv
<1>2. /\ UNCHANGED call /\ local'[r].time = local[r].time /\ pc[r] \in Running
      /\ pc'[r] = "done" \/ Advances(r)
  BY <1>1, StepMoves
<1>3. UNCHANGED <<local[s], pc[s], reply[s]>>
  BY <1>1, StepIsLocal
<1>4. pc[s] \notin Running
  BY <1>2 DEF SequentialInv, OneAtATime
<1>5. StageOf(s)'
  BY <1>3, <1>4 DEF StageOf, UpdateCalls, Running, ReadCalls, WriteCalls
<1>6. EntryOf(s)' = EntryOf(s)
  BY <1>2, <1>3 DEF EntryOf
<1>7. ASSUME NEW q \in Requests, SameText(s, q)
      PROVE  SameText(s, q)'
  <2>1. CASE q = r
    <3>1. pc'[r] # "idle"
      BY <1>2 DEF Advances, SendMoves, OpeningMoves
    <3> QED
      BY <1>2, <1>3, <1>7, <2>1, <3>1 DEF SameText
  <2>2. CASE q # r
    <3>1. UNCHANGED <<local[q], pc[q]>>
      BY <1>1, <2>2, StepIsLocal
    <3> QED
      BY <1>2, <1>3, <1>7, <3>1 DEF SameText
  <2> QED
    BY <2>1, <2>2
<1>8. ErrorOf(s)'
  <2> SUFFICES ASSUME reply[s].status = "DB_ERR", call[s].op \in SendOps,
                      call[s].from # call[s].to,
                      \A q \in Requests \ {s} : ~SameText(s, q)
               PROVE  \/ EntryOf(s) \notin ToSet(Own(s)')
                      \/ \E q \in Requests \ {s} : SameText(s, q)'
    BY <1>2, <1>3, <1>6, <1>7 DEF ErrorOf
  <2>1. EntryOf(s) \notin ToSet(Own(s))
    BY <1>1 DEF ErrorOf
  <2>2. CASE UNCHANGED <<chat_ids, chat_messages>>
    BY <1>2, <2>1, <2>2 DEF Own
  <2>3. CASE StoreStep(r)
    <3>1. EntryOf(s) # EntryOf(r)
      <4>1. ~SameText(s, r)
        OBVIOUS
      <4>2. pc[r] # "idle"
        BY <1>2 DEF Running, ReadCalls, WriteCalls
      <4> QED
        BY <4>1, <4>2 DEF SameText, EntryOf
    <3>2. Own(s)' = Own(s) \/ Own(s)' = Append(Own(s), EntryOf(r))
      <4>1. \/ \A x, y : Talk(chat_ids', chat_messages', x, y) =
                         Talk(chat_ids, chat_messages, x, y)
            \/ PairGrows(call[r].from, call[r].to, EntryOf(r))
        BY <1>1, <2>3, StoreTalks
      <4> QED
        BY <1>2, <4>1 DEF PairGrows, Own
    <3>3. ToSet(Append(Own(s), EntryOf(r))) = ToSet(Own(s)) \cup {EntryOf(r)}
      <4>1. Own(s) \in Seq(Entry)
        BY <1>1, TalkType DEF Own
      <4>2. EntryOf(r) \in Entry
        BY <1>1, <1>2, RequestTypes DEF Running, ReadCalls, WriteCalls
      <4> QED
        BY <4>1, <4>2, AppendSet
    <3> QED
      BY <2>1, <3>1, <3>2, <3>3
  <2> QED
    BY <1>1, <2>2, <2>3, RequestStores
<1> QED
  BY <1>5, <1>8

LEMMA SequentialInit == Init => SequentialInv
<1> SUFFICES ASSUME Init PROVE SequentialInv
  OBVIOUS
<1>1. /\ \A r \in Requests : pc[r] = "idle" /\ reply[r].status = "none"
      /\ chat_ids = <<>> /\ Len(Registered) \in Nat
      /\ DOMAIN Registered = 1..Len(Registered)
  BY RegisteredAssumption, LenProperties DEF Init, Idle, NoReply
<1>2. OneAtATime /\ \A r \in Requests : StageOf(r) /\ ErrorOf(r)
  BY <1>1 DEF OneAtATime, StageOf, ErrorOf, UpdateCalls, Running, ReadCalls, WriteCalls
<1>3. user_messages \in Seq(ChatList) /\ Len(user_messages) \in Nat
  BY TypeInit, LenProperties DEF TypeOK, DatabaseOK
<1>4. /\ DOMAIN user_messages = 1..Len(Registered)
      /\ \A i \in 1..Len(Registered) :
            user_messages[i].username = Registered[i] /\ user_messages[i].messages = <<>>
  BY <1>1 DEF Init
<1>5. Len(user_messages) = Len(Registered)
  BY <1>1, <1>3, <1>4, LenProperties
<1>6. ListsInv
  <2>1. ASSUME NEW u \in ToSet(Registered)
        PROVE  FirstRow(user_messages, u) # 0
    <3>1. PICK i \in 1..Len(Registered) : u = Registered[i]
      BY <1>1 DEF ToSet
    <3> QED
      BY <1>3, <1>4, <1>5, <3>1, FirstRowLemma
  <2> QED
    BY <1>4, <1>5, <2>1 DEF ListsInv
<1>7. \A u : ListIn(user_messages, u) = <<>>
  <2> TAKE u
  <2>1. FirstRow(user_messages, u) \in 0..Len(user_messages)
    BY <1>3, FirstRowLemma
  <2> QED
    BY <1>1, <1>4, <1>5, <2>1 DEF ListIn
<1>8. ASSUME NEW u \in Names, NEW p \in Names
      PROVE  Current(u, p)
  <2>1. Len(<<>>) = 0
    OBVIOUS
  <2>2. FirstChat(chat_ids, u, p) = 0
    BY <1>1, <2>1, FirstChatLemma
  <2>3. PeerIdx(<<>>, p) = 0
    BY <2>1, PeerIdxLemma
  <2> QED
    BY <1>7, <2>2, <2>3 DEF Current, CurrentIn
<1> QED
  BY <1>2, <1>6, <1>8, AnswersInit, CopiesInit DEF SequentialInv, CurrentInv

\* A request that arrives finds every item up to date.
LEMMA ReceiveKeeps ==
    ASSUME SequentialInv, OneAtATime', NEW r \in Requests, Receive(r)
    PROVE  /\ ListsInv' /\ CurrentInv'
           /\ \A s \in Requests : StageOf(s)' /\ ErrorOf(s)'
<1>1. TypeOK /\ RequestsOK /\ RequestInv(r)
  BY SequentialTypes
<1>2. /\ pc[r] = "idle"
      /\ UNCHANGED <<chat_ids, chat_messages, user_messages, reply>>
      /\ \A s \in Requests \ {r} : UNCHANGED <<pc[s], call[s], local[s]>>
  BY <1>1 DEF Receive, Await, database, RequestsOK
<1>3. pc'[r] \in Running \ (UpdateCalls \cup {"insertMessages"})
  <2>1. PICK c \in Calls : Await(r, FirstCall(c.op))
    BY DEF Receive
  <2>2. c.op \in Handlers
    BY CallsAssumption DEF Call
  <2>3. FirstCall(c.op) \in {"listUsers", "findRow", "findChat", "insertUser"}
    BY <2>2 DEF FirstCall, Handlers
  <2>4. pc'[r] = FirstCall(c.op)
    BY <1>1, <2>1, AwaitFacts
  <2> QED
    BY <2>3, <2>4 DEF Running, ReadCalls, WriteCalls, UpdateCalls
<1>4. \A s \in Requests \ {r} : pc[s] \notin Running
  BY <1>2, <1>3 DEF OneAtATime
<1>5. ASSUME NEW s \in Requests
      PROVE  StageOf(s)'
  <2>1. pc'[s] \notin UpdateCalls \cup {"insertMessages"}
    BY <1>2, <1>3, <1>4 DEF UpdateCalls, Running, ReadCalls, WriteCalls
  <2> QED
    BY <2>1 DEF StageOf, UpdateCalls
<1>6. ASSUME NEW s \in Requests \ {r}
      PROVE  ErrorOf(s)'
  <2>1. ErrorOf(s)
    BY DEF SequentialInv
  <2>2. Own(s)' = Own(s) /\ EntryOf(s)' = EntryOf(s)
    BY <1>2 DEF Own, EntryOf
  <2>3. \A q \in Requests : SameText(s, q) => SameText(s, q)'
    BY <1>2 DEF SameText
  <2> QED
    BY <1>2, <2>1, <2>2, <2>3 DEF ErrorOf
<1>7. ErrorOf(r)'
  BY <1>1, <1>2 DEF RequestInv, ControlOf, ErrorOf
<1>8. ASSUME NEW u \in Names, NEW p \in Names
      PROVE  Current(u, p)'
  <2>1. \A s \in Requests : ~Behind(s, u, p)
    BY <1>2, <1>4 DEF Behind, UpdateCalls, Running, ReadCalls, WriteCalls
  <2>2. Current(u, p)
    BY <2>1 DEF SequentialInv, CurrentInv
  <2> QED
    BY <1>2, <2>2 DEF Current
<1>9. ListsInv'
  BY <1>2 DEF SequentialInv, ListsInv
<1> QED
  BY <1>5, <1>6, <1>7, <1>8, <1>9 DEF CurrentInv

LEMMA SequentialStep ==
    ASSUME NoFaults, SendersRegistered, SequentialInv, AnswersInv', CopiesInv',
           [Next /\ OneAtATime']_vars
    PROVE  SequentialInv'
<1>1. OneAtATime'
  <2>1. CASE UNCHANGED vars
    BY <2>1 DEF vars, SequentialInv, OneAtATime
  <2> QED
    BY <2>1
<1>2. CollectionsUnique'
  BY DEF AnswersInv, SerialInv
<1>3. ASSUME NEW r \in Requests, Step(r)
      PROVE  SequentialInv'
  <2>1. KeptBy(r)'
    BY <1>2, <1>3, ActorKeepsAll
  <2>2. \A s \in Requests : s # r => StageOf(s)' /\ ErrorOf(s)'
    BY <1>2, <1>3, OthersKeepErrors
  <2> QED
    BY <1>1, <2>1, <2>2 DEF SequentialInv, KeptBy
<1>4. ASSUME NEW r \in Requests, Receive(r)
      PROVE  SequentialInv'
  BY <1>1, <1>4, ReceiveKeeps DEF SequentialInv
<1>5. ~Fault
  BY SequentialTypes DEF NoFaults, Fault, TypeOK
<1>6. CASE Tick \/ UNCHANGED vars
  <2>1. UNCHANGED <<chat_ids, chat_messages, user_messages, pc, call, local, reply>>
    BY <1>6 DEF Tick, vars, database
  <2>2. ListsInv' /\ CurrentInv'
    BY <2>1 DEF SequentialInv, ListsInv, CurrentInv, Current, Behind
  <2>3. ASSUME NEW r \in Requests
        PROVE  StageOf(r)' /\ ErrorOf(r)'
    <3>1. StageOf(r) /\ ErrorOf(r)
      BY DEF SequentialInv
    <3>2. StageOf(r)'
      BY <2>1, <3>1
         DEF StageOf, Own, EntryOf, NoItem, Shows, Updated, PreviewOf
    <3>3. ErrorOf(r)'
      BY <2>1, <3>1 DEF ErrorOf, Own, EntryOf, SameText
    <3> QED
      BY <3>2, <3>3
  <2> QED
    BY <1>1, <2>2, <2>3 DEF SequentialInv
<1> QED
  BY <1>3, <1>4, <1>5, <1>6 DEF Next, CallFails, AckLost, Crash

LEMMA SequentialIsSerial == SequentialSpec => SerialSpec
<1>1. OneAtATime => FirstContactsSerial
  BY DEF OneAtATime, FirstContactsSerial, Allocating, Running, ReadCalls, WriteCalls
<1>2. (OneAtATime)' => (FirstContactsSerial)'
  BY DEF OneAtATime, FirstContactsSerial, Allocating, Running, ReadCalls, WriteCalls
<1>3. [Next /\ OneAtATime']_vars => [Next /\ FirstContactsSerial']_vars
  BY <1>2
<1> QED
  BY <1>3, PTL DEF SequentialSpec, SerialSpec

\* When requests do not overlap and no call fails, every item of a chat list that
\* no request is about to change shows the last message of its chat.
THEOREM SequentialInvariant ==
    NoFaults /\ SendersRegistered /\ SequentialSpec => []SequentialInv
<1>1. /\ NoFaults => (NoFaults)'
      /\ SendersRegistered => (SendersRegistered)'
  BY DEF NoFaults, SendersRegistered
<1>2. NoFaults /\ SendersRegistered /\ SequentialInv /\ (AnswersInv)' /\ (CopiesInv)'
          /\ [Next /\ OneAtATime']_vars => (SequentialInv)'
  BY SequentialStep
<1> QED
  BY <1>1, <1>2, SequentialInit, SequentialIsSerial, AnswersInvariant, SerialIsSpec,
     CopiesInvariant, PTL DEF SequentialSpec

LEMMA QuietIsCurrent ==
    ASSUME SequentialInv, Quiet, NEW u \in Names, NEW p \in Names
    PROVE  Current(u, p)
<1>1. \A r \in Requests : ~Behind(r, u, p)
  BY DEF Quiet, Behind, UpdateCalls, Running, ReadCalls, WriteCalls
<1> QED
  BY <1>1 DEF SequentialInv, CurrentInv

\* A chat list shows the most recent message of each chat, for every number of
\* users and requests, when the requests come one at a time and no call fails.
THEOREM PreviewsAreLatest ==
    NoFaults /\ SendersRegistered /\ SequentialSpec => []PreviewIsLatest
<1>1. SequentialInv => PreviewIsLatest
  <2> SUFFICES ASSUME SequentialInv, Quiet, NEW i \in DOMAIN user_messages,
                      NEW p \in ToSet(user_messages[i].messages)
               PROVE  LET chat == Conversation(user_messages[i].username, p.toUsername)
                      IN  /\ chat # <<>>
                          /\ p.lastMessage = Last(chat).message
                          /\ p.lastMessageTime = Last(chat).time
    BY DEF PreviewIsLatest
  <2> DEFINE rows == user_messages[i].messages
             u == user_messages[i].username
             chat == Talk(chat_ids, chat_messages, u, p.toUsername)
  <2>1. user_messages \in Seq(ChatList) /\ StorageInv
    BY SequentialTypes
  <2>2. DOMAIN user_messages = 1..Len(user_messages)
    BY <2>1, LenProperties
  <2>3. user_messages[i] \in ChatList
    BY <2>1, <2>2, ElementOfSeq
  <2>4. rows \in Seq(Preview) /\ u \in Names
    BY <2>3 DEF ChatList
  <2>5. DOMAIN rows = 1..Len(rows) /\ Len(rows) \in Nat
    BY <2>4, LenProperties
  <2>6. PICK j \in 1..Len(rows) : p = rows[j]
    BY <2>5 DEF ToSet
  <2>7. p \in Preview
    BY <2>4, <2>6, ElementOfSeq
  <2>8. ListIn(user_messages, u) = rows
    <3>1. rows # <<>>
      BY <2>5, <2>6
    <3>2. i = FirstRow(user_messages, u) /\ i # 0
      BY <2>2, <3>1 DEF SequentialInv, ListsInv
    <3> QED
      BY <3>2 DEF ListIn
  <2>9. Unique(rows)
    <3>1. user_messages[i] \in ToSet(user_messages)
      BY DEF ToSet
    <3> QED
      BY <2>1, <3>1 DEF StorageInv, CollectionsInv, RowsUnique
  <2> HIDE DEF rows, u
  <2>10. PeerIdx(rows, p.toUsername) = j
    <3>1. /\ PeerIdx(rows, p.toUsername) \in 0..Len(rows)
          /\ PeerIdx(rows, p.toUsername) # 0 =>
                rows[PeerIdx(rows, p.toUsername)].toUsername = p.toUsername
          /\ PeerIdx(rows, p.toUsername) = 0 =>
                \A k \in 1..Len(rows) : rows[k].toUsername # p.toUsername
      BY <2>5, PeerIdxLemma
    <3> QED
      BY <2>5, <2>6, <2>9, <3>1 DEF Unique
  <2>11. Current(u, p.toUsername)
    BY <2>4, <2>7, QuietIsCurrent DEF Preview
  <2>12. chat # <<>> /\ ShowsIn(rows, p.toUsername, Last(chat))
    BY <2>6, <2>8, <2>10, <2>11 DEF Current, CurrentIn
  <2>13. p.lastMessage = Last(chat).message /\ p.lastMessageTime = Last(chat).time
    BY <2>6, <2>10, <2>12 DEF ShowsIn
  <2> QED
    BY <2>12, <2>13, LookupsNow DEF u
<1> QED
  BY <1>1, SequentialInvariant, PTL

\* A user's chat list has all chats of the user.
THEOREM AllChatsAreListed ==
    NoFaults /\ SendersRegistered /\ SequentialSpec => []ChatsAreListed
<1>1. SequentialInv => ChatsAreListed
  <2> SUFFICES ASSUME SequentialInv, Quiet, NEW c \in ToSet(chat_ids),
                      NEW q \in {<<c.user1, c.user2>>, <<c.user2, c.user1>>},
                      UserRow(q[1]) # 0
               PROVE  PeerIdx(user_messages[UserRow(q[1])].messages, q[2]) # 0
    BY DEF ChatsAreListed
  <2>1. chat_ids \in Seq(ChatId) /\ Len(chat_ids) \in Nat
    BY SequentialTypes
  <2>2. PICK i \in 1..Len(chat_ids) : c = chat_ids[i]
    BY <2>1, LenProperties DEF ToSet
  <2>3. c.user1 \in Names /\ c.user2 \in Names
    <3>1. chat_ids[i] \in ChatId
      BY <2>1, ElementOfSeq
    <3> QED
      BY <2>2, <3>1 DEF ChatId
  <2>4. SamePair(c, q[1], q[2]) /\ q[1] \in Names /\ q[2] \in Names
    BY <2>3 DEF SamePair
  <2>5. FirstChat(chat_ids, q[1], q[2]) # 0
    BY <2>1, <2>2, <2>4, FirstChatLemma
  <2>6. PeerIdx(ListIn(user_messages, q[1]), q[2]) # 0
    BY <2>4, <2>5, QuietIsCurrent DEF Current, CurrentIn
  <2>7. UserRow(q[1]) = FirstRow(user_messages, q[1])
    BY UserRowIs
  <2> QED
    BY <2>6, <2>7 DEF ListIn
<1> QED
  BY <1>1, SequentialInvariant, PTL

\* A message that was answered with an error is not in the conversation, unless
\* the same text was sent in the same millisecond by another request.
THEOREM ErrorsMeanNotStored ==
    NoFaults /\ SendersRegistered /\ SequentialSpec => []ErrorMeansNotStored
<1>1. SequentialInv => ErrorMeansNotStored
  BY LookupsNow DEF SequentialInv, ErrorOf, ErrorMeansNotStored, Own
<1> QED
  BY <1>1, SequentialInvariant, PTL
=============================================================================
