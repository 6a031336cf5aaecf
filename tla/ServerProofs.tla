---------------------------- MODULE ServerProofs ----------------------------
(***************************************************************************)
(* Theorems about the server of MessageServer for every set of users,      *)
(* messages, calls and requests, and for any number of errors and crashes. *)
(***************************************************************************)
EXTENDS ServerProperties, SelectionTheorems

----------------------------------------------------------------------------
(* Lookups: findOne and findIndex return the first match, 0 for none.  The *)
(* operators below take the collection as an argument, so that one lemma   *)
(* serves the state before and the state after a step.                     *)

FirstChat(ids, a, b) == SelectInSeq(ids, LAMBDA c : SamePair(c, a, b))
FirstLog(docs, id)   == SelectInSeq(docs, LAMBDA d : d.chat_id = id)

\* The conversation of a and b in the collections ids and docs
Talk(ids, docs, a, b) ==
    LET row == FirstChat(ids, a, b)
        doc == IF row = 0 THEN 0 ELSE FirstLog(docs, ids[row].chat_id)
    IN  IF doc = 0 THEN <<>> ELSE docs[doc].messages

LEMMA LookupsNow ==
    /\ \A a, b : ChatRow(a, b) = FirstChat(chat_ids, a, b)
    /\ \A id : Log(id) = FirstLog(chat_messages, id)
    /\ \A a, b : Conversation(a, b) = Talk(chat_ids, chat_messages, a, b)
<1>1. \A a, b : ChatRow(a, b) = FirstChat(chat_ids, a, b)
  BY Zenon DEF ChatRow, FirstChat, SelectInSeq
<1>2. \A id : Log(id) = FirstLog(chat_messages, id)
  BY Zenon DEF Log, FirstLog, SelectInSeq
<1>3. \A a, b : Conversation(a, b) = Talk(chat_ids, chat_messages, a, b)
  BY <1>1, <1>2, Zenon DEF Conversation, Talk
<1> QED
  BY <1>1, <1>2, <1>3

LEMMA LookupsNext ==
    \A a, b : Conversation(a, b)' = Talk(chat_ids', chat_messages', a, b)
BY Zenon DEF Conversation, Talk, ChatRow, Log, FirstChat, FirstLog, SelectInSeq

\* The chat of two users is the first row of chat_ids that names them.
LEMMA FirstChatLemma ==
    ASSUME NEW ids, Len(ids) \in Nat, NEW a, NEW b
    PROVE  /\ FirstChat(ids, a, b) \in 0..Len(ids)
           /\ FirstChat(ids, a, b) # 0 => SamePair(ids[FirstChat(ids, a, b)], a, b)
           /\ \A j \in 1..Len(ids) :
                 SamePair(ids[j], a, b) =>
                     FirstChat(ids, a, b) # 0 /\ FirstChat(ids, a, b) <= j
<1> DEFINE I == {i \in 1..Len(ids) : SamePair(ids[i], a, b)}
<1>1. FirstChat(ids, a, b) = IF I # {} THEN Min(I) ELSE 0
  BY Zenon DEF FirstChat, SelectInSeq
<1>2. I \subseteq 1..Len(ids)
  OBVIOUS
<1>3. /\ FirstChat(ids, a, b) \in 0..Len(ids)
      /\ FirstChat(ids, a, b) # 0 => FirstChat(ids, a, b) \in I
      /\ \A j \in I : FirstChat(ids, a, b) # 0 /\ FirstChat(ids, a, b) <= j
  <2> HIDE DEF I
  <2> QED
    BY <1>1, <1>2, FirstMatch
<1> QED
  BY <1>3

\* The messages of a chat_id are in the first document with that chat_id.
LEMMA FirstLogLemma ==
    ASSUME NEW docs, Len(docs) \in Nat, NEW id
    PROVE  /\ FirstLog(docs, id) \in 0..Len(docs)
           /\ FirstLog(docs, id) # 0 => docs[FirstLog(docs, id)].chat_id = id
           /\ \A j \in 1..Len(docs) :
                 docs[j].chat_id = id =>
                     FirstLog(docs, id) # 0 /\ FirstLog(docs, id) <= j
<1> DEFINE I == {i \in 1..Len(docs) : docs[i].chat_id = id}
<1>1. FirstLog(docs, id) = IF I # {} THEN Min(I) ELSE 0
  BY Zenon DEF FirstLog, SelectInSeq
<1>2. I \subseteq 1..Len(docs)
  OBVIOUS
<1>3. /\ FirstLog(docs, id) \in 0..Len(docs)
      /\ FirstLog(docs, id) # 0 => FirstLog(docs, id) \in I
      /\ \A j \in I : FirstLog(docs, id) # 0 /\ FirstLog(docs, id) <= j
  <2> HIDE DEF I
  <2> QED
    BY <1>1, <1>2, FirstMatch
<1> QED
  BY <1>3

\* The chat list of a user is in the first document with that username.
LEMMA UserRowLemma ==
    ASSUME Len(user_messages) \in Nat, NEW u
    PROVE  UserRow(u) \in 0..Len(user_messages)
<1> DEFINE I == {i \in 1..Len(user_messages) : user_messages[i].username = u}
<1>1. UserRow(u) = IF I # {} THEN Min(I) ELSE 0
  BY Zenon DEF UserRow, SelectInSeq
<1>2. I \subseteq 1..Len(user_messages)
  OBVIOUS
<1> HIDE DEF I
<1> QED
  BY <1>1, <1>2, FirstMatch

\* The index of a peer is that of the first item with the peer's name.
LEMMA PeerIdxLemma ==
    ASSUME NEW rows, Len(rows) \in Nat, NEW peer
    PROVE  /\ PeerIdx(rows, peer) \in 0..Len(rows)
           /\ PeerIdx(rows, peer) # 0 =>
                 rows[PeerIdx(rows, peer)].toUsername = peer
           /\ PeerIdx(rows, peer) = 0 =>
                 \A i \in 1..Len(rows) : rows[i].toUsername # peer
<1> DEFINE I == {i \in 1..Len(rows) : rows[i].toUsername = peer}
<1>1. PeerIdx(rows, peer) = IF I # {} THEN Min(I) ELSE 0
  BY Zenon DEF PeerIdx, SelectInSeq
<1>2. I \subseteq 1..Len(rows)
  OBVIOUS
<1>3. /\ PeerIdx(rows, peer) \in 0..Len(rows)
      /\ PeerIdx(rows, peer) # 0 => PeerIdx(rows, peer) \in I
      /\ \A j \in I : PeerIdx(rows, peer) # 0
  <2> HIDE DEF I
  <2> QED
    BY <1>1, <1>2, FirstMatch
<1> QED
  BY <1>3

\* A new chat_id is a number.
LEMMA NextChatIdLemma ==
    ASSUME chat_ids \in Seq(ChatId)
    PROVE  /\ NextChatId \in Nat
           /\ \A i \in 1..Len(chat_ids) : chat_ids[i].chat_id < NextChatId
<1> DEFINE ids == {c.chat_id : c \in ToSet(chat_ids)}
<1>1. CASE chat_ids = <<>>
  <2>1. Len(chat_ids) = 0 /\ NextChatId = 0
    BY <1>1 DEF NextChatId
  <2> QED
    BY <2>1
<1>2. CASE chat_ids # <<>>
  <2> DEFINE f == [i \in 1..Len(chat_ids) |-> chat_ids[i].chat_id]
  <2>1. /\ Len(chat_ids) \in Nat
        /\ 1 \in 1..Len(chat_ids)
        /\ DOMAIN chat_ids = 1..Len(chat_ids)
        /\ \A i \in 1..Len(chat_ids) : chat_ids[i].chat_id \in Nat
    <3>1. Len(chat_ids) \in Nat \ {0}
      BY <1>2, EmptySeq
    <3>2. \A i \in 1..Len(chat_ids) : chat_ids[i] \in ChatId
      BY ElementOfSeq
    <3> QED
      BY <3>1, <3>2, LenProperties DEF ChatId
  <2>2. ids = {chat_ids[i].chat_id : i \in 1..Len(chat_ids)}
    BY <2>1, Zenon DEF ToSet
  <2>3. ids # {} /\ ids \subseteq Nat
    BY <2>1, <2>2
  <2>4. f \in Surjection(1..Len(chat_ids), ids)
    <3> HIDE DEF ids
    <3> QED
      BY <2>2, Zenon DEF Surjection
  <2>5. IsFiniteSet(ids)
    <3> HIDE DEF ids, f
    <3> QED
      <4>1. IsFiniteSet(1..Len(chat_ids))
        BY <2>1, FS_Interval
      <4> QED
        BY <2>4, <4>1, FS_Surjection, Zenon
  <2>6. Max(ids) \in Nat /\ \A j \in ids : Max(ids) >= j
    <3> HIDE DEF ids
    <3> QED
      BY <2>3, <2>5, GreatestNatural
  <2>7. NextChatId = Max(ids) + 1
    BY <1>2 DEF NextChatId
  <2>8. \A i \in 1..Len(chat_ids) : chat_ids[i].chat_id \in ids
    BY <2>2
  <2> HIDE DEF ids
  <2> QED
    BY <2>1, <2>6, <2>7, <2>8
<1> QED
  BY <1>1, <1>2
----------------------------------------------------------------------------
(* Types                                                                   *)

LEMMA TypeInit == Init => TypeOK
<1> SUFFICES ASSUME Init PROVE TypeOK
  OBVIOUS
<1>1. DatabaseOK
  <2>1. Len(Registered) \in Nat /\ DOMAIN Registered = 1..Len(Registered)
    BY RegisteredAssumption, LenProperties
  <2>2. \A i \in 1..Len(Registered) :
           [username |-> Registered[i], messages |-> <<>>] \in ChatList
    BY RegisteredAssumption, ElementOfSeq DEF ChatList
  <2>3. user_messages \in [1..Len(Registered) -> ChatList]
    BY <2>1, <2>2 DEF Init
  <2>4. user_messages \in Seq(ChatList)
    BY <2>1, <2>3
  <2> QED
    BY <2>4, RegisteredAssumption DEF Init, DatabaseOK
<1>2. RequestsOK
  <2>1. [time |-> 0, chat |-> 0, fresh |-> FALSE, rows |-> <<>>] \in Local
    BY DEF Local
  <2>2. local \in [Requests -> Local]
    BY <2>1, Zenon DEF Init, Idle
  <2> QED
    BY <2>2 DEF Init, Idle, RequestsOK, StatusSet, NoReply
<1> QED
  BY <1>1, <1>2 DEF Init, TypeOK

\* What a request that has arrived stores is well typed.
LEMMA RequestTypes ==
    ASSUME RequestsOK, NEW r \in Requests, pc[r] # "idle"
    PROVE  /\ call[r] \in Call
           /\ call[r].op \in Handlers /\ call[r].from \in Names /\ call[r].to \in Names
           /\ local[r] \in Local
           /\ EntryOf(r) \in Entry
           /\ \A peer \in Names : PreviewOf(r, peer) \in Preview
<1>1. call[r] \in Call /\ local[r] \in Local
  BY CallsAssumption DEF RequestsOK
<1> QED
  BY <1>1 DEF Call, Local, EntryOf, Entry, PreviewOf, Preview

\* The list with the new message at the peer's index is a chat list.
LEMMA UpdatedType ==
    ASSUME RequestsOK, NEW r \in Requests, pc[r] # "idle",
           NEW rows \in Seq(Preview), NEW peer \in Names
    PROVE  Updated(rows, r, peer) \in Seq(Preview)
<1>1. PreviewOf(r, peer) \in Preview
  BY RequestTypes
<1>2. PeerIdx(rows, peer) \in 0..Len(rows)
  BY PeerIdxLemma, LenProperties
<1>3. CASE PeerIdx(rows, peer) # 0
  BY <1>1, <1>2, <1>3, ExceptSeq DEF Updated, ReplaceAt
<1>4. CASE PeerIdx(rows, peer) = 0
  BY <1>1, <1>4 DEF Updated
<1> QED
  BY <1>3, <1>4

\* Each write leaves well-typed collections.
LEMMA WriteTypes ==
    ASSUME TypeOK, NEW r \in Requests, pc[r] # "idle",
           \/ AppendEntry(r) \/ AddChatId(r) \/ AddLog(r) \/ AddUser(r) \/ AddRow(r)
           \/ \E owner : SetRow(r, owner)
    PROVE  DatabaseOK'
<1>1. /\ call[r].from \in Names /\ call[r].to \in Names
      /\ local[r] \in Local /\ EntryOf(r) \in Entry
  BY RequestTypes DEF TypeOK
<1>2. CASE AppendEntry(r)
  <2> DEFINE doc == Log(local[r].chat)
  <2>1. CASE doc = 0
    BY <2>1, <1>2 DEF AppendEntry, TypeOK, DatabaseOK
  <2>2. CASE doc # 0
    <3>1. doc \in 1..Len(chat_messages)
      BY <2>2, LookupsNow, FirstLogLemma, LenProperties DEF TypeOK, DatabaseOK
    <3>2. chat_messages[doc] \in ChatLog
      BY <3>1, ElementOfSeq DEF TypeOK, DatabaseOK
    <3>3. [chat_messages[doc] EXCEPT !.messages = Append(@, EntryOf(r))] \in ChatLog
      <4>1. Append(chat_messages[doc].messages, EntryOf(r)) \in Seq(Entry)
        BY <1>1, <3>2 DEF ChatLog
      <4> QED
        BY <3>2, <4>1, Zenon DEF ChatLog
    <3>4. chat_messages' = [chat_messages EXCEPT ![doc] =
              [chat_messages[doc] EXCEPT !.messages = Append(@, EntryOf(r))]]
      BY <2>2, <1>2 DEF AppendEntry
    <3>5. chat_messages' \in Seq(ChatLog)
      <4> HIDE DEF doc
      <4> QED
        BY <3>1, <3>3, <3>4, ExceptSeq DEF TypeOK, DatabaseOK
    <3> QED
      BY <3>5, <1>2 DEF AppendEntry, TypeOK, DatabaseOK
  <2> QED
    BY <2>1, <2>2
<1>3. CASE AddChatId(r)
  <2>1. [chat_id |-> local[r].chat, user1 |-> call[r].from, user2 |-> call[r].to]
            \in ChatId
    BY <1>1 DEF ChatId, Local
  <2> QED
    BY <2>1, <1>3 DEF AddChatId, TypeOK, DatabaseOK
<1>4. CASE AddLog(r)
  <2>1. [chat_id |-> local[r].chat, messages |-> <<EntryOf(r)>>] \in ChatLog
    BY <1>1 DEF ChatLog, Local
  <2> QED
    BY <2>1, <1>4 DEF AddLog, TypeOK, DatabaseOK
<1>5. CASE AddUser(r)
  BY <1>1, <1>5 DEF AddUser, TypeOK, DatabaseOK
<1>6. CASE AddRow(r)
  <2>1. [username |-> call[r].from, messages |-> <<>>] \in ChatList
    BY <1>1 DEF ChatList
  <2> QED
    BY <2>1, <1>6 DEF AddRow, TypeOK, DatabaseOK
<1>7. ASSUME NEW owner, SetRow(r, owner)
      PROVE  DatabaseOK'
  <2> DEFINE row == UserRow(owner)
  <2>1. CASE row = 0
    BY <2>1, <1>7 DEF SetRow, TypeOK, DatabaseOK
  <2>2. CASE row # 0
    <3>1. row \in 1..Len(user_messages)
      BY <2>2, UserRowLemma, LenProperties DEF TypeOK, DatabaseOK
    <3>2. user_messages[row] \in ChatList
      BY <3>1, ElementOfSeq DEF TypeOK, DatabaseOK
    <3>3. [user_messages[row] EXCEPT !.messages = local[r].rows] \in ChatList
      BY <1>1, <3>2 DEF ChatList, Local
    <3>4. user_messages' = [user_messages EXCEPT ![row] =
              [user_messages[row] EXCEPT !.messages = local[r].rows]]
      BY <2>2, <1>7 DEF SetRow
    <3>5. user_messages' \in Seq(ChatList)
      <4> HIDE DEF row
      <4> QED
        BY <3>1, <3>3, <3>4, ExceptSeq DEF TypeOK, DatabaseOK
    <3> QED
      BY <3>5, <1>7 DEF SetRow, TypeOK, DatabaseOK
  <2> QED
    BY <2>1, <2>2
<1> QED
  BY <1>2, <1>3, <1>4, <1>5, <1>6, <1>7

\* A request that waits for its next call or answers stays well typed.
LEMMA ControlTypes ==
    ASSUME RequestsOK, NEW r \in Requests, pc[r] # "idle",
           UNCHANGED call, local' \in [Requests -> Local],
           \/ \E step \in Running : Await(r, step)
           \/ \E status \in StatusSet : \E body : Send(r, status, body)
    PROVE  RequestsOK'
<1>1. CASE \E step \in Running : Await(r, step)
  <2>1. PICK step \in Running : Await(r, step)
    BY <1>1
  <2> QED
    BY <2>1 DEF Await, RequestsOK
<1>2. CASE \E status \in StatusSet : \E body : Send(r, status, body)
  <2>1. PICK status \in StatusSet : \E body : Send(r, status, body)
    BY <1>2
  <2>2. pc' \in [Requests -> Running \cup {"idle", "done", "lost"}]
    BY <2>1 DEF Send, RequestsOK
  <2>3. \A s \in Requests : pc'[s] # "idle" => pc[s] # "idle"
    BY <2>1 DEF Send, RequestsOK
  <2>4. DOMAIN reply' = Requests
    BY <2>1 DEF Send, RequestsOK
  <2>5. \A s \in Requests : reply'[s].status \in StatusSet
    BY <2>1 DEF Send, RequestsOK
  <2> QED
    BY <2>2, <2>3, <2>4, <2>5 DEF RequestsOK
<1> QED
  BY <1>1, <1>2

\* The change of a chat list that was read keeps the types.
LEMMA ReadRowTypes ==
    ASSUME TypeOK, NEW r \in Requests, pc[r] # "idle",
           NEW owner \in Names, NEW peer \in Names,
           NEW next \in Running, ReadRow(r, owner, peer, next)
    PROVE  TypeOK'
<1> DEFINE row == UserRow(owner)
<1>1. CASE /\ row # 0
           /\ local' = [local EXCEPT ![r].rows =
                            Updated(user_messages[row].messages, r, peer)]
           /\ Await(r, next)
  <2>1. row \in 1..Len(user_messages)
    BY <1>1, UserRowLemma, LenProperties DEF TypeOK, DatabaseOK
  <2>2. user_messages[row].messages \in Seq(Preview)
    <3>1. user_messages[row] \in ChatList
      BY <2>1, ElementOfSeq DEF TypeOK, DatabaseOK
    <3> QED
      BY <3>1 DEF ChatList
  <2>3. Updated(user_messages[row].messages, r, peer) \in Seq(Preview)
    BY <2>2, UpdatedType DEF TypeOK
  <2>4. local' \in [Requests -> Local]
    <3> HIDE DEF row
    <3> QED
      BY <1>1, <2>3 DEF TypeOK, RequestsOK, Local
  <2>5. UNCHANGED <<database, now, faults, call>>
    BY DEF ReadRow
  <2> QED
    BY <1>1, <2>4, <2>5, ControlTypes DEF TypeOK, DatabaseOK, database
<1>2. CASE SendError(r) /\ UNCHANGED local
  <2>1. UNCHANGED <<database, now, faults, call>>
    BY DEF ReadRow
  <2>2. "DB_ERR" \in StatusSet
    BY DEF StatusSet
  <2>3. RequestsOK'
    BY <1>2, <2>1, <2>2, ControlTypes DEF SendError, TypeOK, RequestsOK
  <2> QED
    BY <2>1, <2>3 DEF TypeOK, DatabaseOK, database
<1> QED
  BY <1>1, <1>2, Zenon DEF ReadRow

\* Every step of a request keeps the types: it leaves the collections alone or
\* does one of the writes, and goes on to its next call or answers.
LEMMA RequestStepTypes ==
    ASSUME TypeOK, NEW r \in Requests, Receive(r) \/ Step(r)
    PROVE  TypeOK'
<1> USE DEF TypeOK
<1>1. ASSUME Receive(r)
      PROVE  TypeOK'
  <2>1. PICK c \in Calls : /\ call' = [call EXCEPT ![r] = c]
                           /\ Await(r, FirstCall(c.op))
    BY <1>1 DEF Receive
  <2>2. FirstCall(c.op) \in Running
    <3>1. c.op \in Handlers
      BY CallsAssumption DEF Call
    <3> QED
      BY <3>1 DEF Handlers, FirstCall, Running, ReadCalls, WriteCalls
  <2>3. local' \in [Requests -> Local]
    <3>1. local' = [local EXCEPT ![r].time = now] /\ local[r] \in Local
      BY <1>1 DEF Receive, RequestsOK
    <3>2. [local[r] EXCEPT !.time = now] \in Local
      BY <3>1 DEF Local
    <3>3. local' = [local EXCEPT ![r] = [local[r] EXCEPT !.time = now]]
      BY <3>1
    <3> QED
      BY <3>2, <3>3 DEF RequestsOK
  <2>4. RequestsOK'
    BY <2>1, <2>2, <2>3 DEF Await, RequestsOK
  <2> QED
    BY <1>1, <2>4 DEF Receive, database, DatabaseOK
<1>2. ASSUME Step(r), pc[r] # "idle"
      PROVE  TypeOK'
  <2> USE <1>2
  <2>1. ASSUME UNCHANGED <<now, faults, call, local>>, DatabaseOK',
               \/ \E step \in Running : Await(r, step)
               \/ \E status \in StatusSet : \E body : Send(r, status, body)
        PROVE  TypeOK'
    BY <2>1, ControlTypes DEF RequestsOK
  <2>2. ASSUME UNCHANGED database
        PROVE  DatabaseOK'
    BY <2>2 DEF database, DatabaseOK
  <2>3. /\ "SUCCESS" \in StatusSet
        /\ \A s : SendError(s) => \E status \in StatusSet : \E body : Send(s, status, body)
        /\ "USER DOES NOT EXIST" \in StatusSet
    BY DEF SendError, StatusSet
  <2>4. {"findChat", "findMessages", "pushMessage", "lastChatId", "insertChatId",
         "insertMessages", "readSender", "writeSender", "readRecipient",
         "writeRecipient", "insertRow"} \subseteq Running
    BY DEF Running, ReadCalls, WriteCalls
  <2>5. call[r].from \in Names /\ call[r].to \in Names
    BY RequestTypes
  <2>6. CASE ListUsernames(r)
    BY <2>1, <2>2, <2>3, <2>6 DEF ListUsernames
  <2>7. CASE FindChats(r)
    BY <2>1, <2>2, <2>3, <2>7 DEF FindChats
  <2>8. CASE CheckRecipient(r)
    BY <2>1, <2>2, <2>3, <2>4, <2>8 DEF CheckRecipient
  <2>9. CASE FindChat(r)
    <3>1. \/ \E step \in Running : Await(r, step)
          \/ \E status \in StatusSet : \E body : Send(r, status, body)
      BY <2>3, <2>4, <2>9 DEF FindChat
    <3>2. local' \in [Requests -> Local]
      <4>1. CASE UNCHANGED local
        BY <4>1 DEF RequestsOK
      <4>2. CASE local' = [local EXCEPT ![r].fresh = TRUE]
        BY <4>2 DEF RequestsOK, Local
      <4>3. ASSUME NEW row, row = ChatRow(call[r].from, call[r].to), row # 0,
                   local' = [local EXCEPT ![r].chat = chat_ids[row].chat_id]
            PROVE  local' \in [Requests -> Local]
        <5>1. row \in 1..Len(chat_ids)
          BY <4>3, LookupsNow, FirstChatLemma, LenProperties DEF DatabaseOK
        <5>2. chat_ids[row] \in ChatId
          BY <5>1, ElementOfSeq DEF DatabaseOK
        <5>3. chat_ids[row].chat_id \in Nat
          BY <5>2 DEF ChatId
        <5> QED
          BY <4>3, <5>3 DEF RequestsOK, Local
      <4> QED
        BY <2>9, <4>1, <4>2, <4>3 DEF FindChat
    <3> QED
      BY <2>2, <2>9, <3>1, <3>2, ControlTypes DEF FindChat
  <2>10. CASE FindMessages(r)
    BY <2>1, <2>2, <2>3, <2>10 DEF FindMessages
  <2>11. CASE PushMessage(r)
    BY <2>1, <2>3, <2>4, <2>11, WriteTypes DEF PushMessage
  <2>12. CASE AllocateChatId(r)
    <3>1. NextChatId \in Nat
      BY NextChatIdLemma DEF DatabaseOK
    <3>2. local' \in [Requests -> Local]
      BY <2>12, <3>1 DEF AllocateChatId, RequestsOK, Local
    <3> QED
      BY <2>2, <2>4, <2>12, <3>2, ControlTypes DEF AllocateChatId
  <2>13. CASE InsertChatId(r)
    BY <2>1, <2>4, <2>13, WriteTypes DEF InsertChatId
  <2>14. CASE InsertMessages(r)
    BY <2>1, <2>4, <2>14, WriteTypes DEF InsertMessages
  <2>15. CASE ReadSender(r)
    BY <2>4, <2>5, <2>15, ReadRowTypes DEF ReadSender
  <2>16. CASE WriteSender(r)
    BY <2>1, <2>3, <2>4, <2>16, WriteTypes DEF WriteSender
  <2>17. CASE ReadRecipient(r)
    BY <2>4, <2>5, <2>17, ReadRowTypes DEF ReadRecipient
  <2>18. CASE WriteRecipient(r)
    BY <2>1, <2>3, <2>18, WriteTypes DEF WriteRecipient
  <2>19. CASE InsertUser(r)
    BY <2>1, <2>4, <2>19, WriteTypes DEF InsertUser
  <2>20. CASE InsertRow(r)
    BY <2>1, <2>3, <2>20, WriteTypes DEF InsertRow
  <2> QED
    BY <2>6, <2>7, <2>8, <2>9, <2>10, <2>11, <2>12, <2>13, <2>14, <2>15, <2>16,
       <2>17, <2>18, <2>19, <2>20, Zenon
       DEF Step, getExistingUsernames, getUserChats, getUserChatMessages,
           sendMessage, sendNewMessage, addNewUser, UpdatePreviews
<1>3. Step(r) => pc[r] # "idle"
  BY DEF Step, getExistingUsernames, getUserChats, getUserChatMessages, sendMessage,
         sendNewMessage, addNewUser, UpdatePreviews, ListUsernames, FindChats,
         CheckRecipient, FindChat, FindMessages, PushMessage, AllocateChatId,
         InsertChatId, InsertMessages, ReadSender, WriteSender, ReadRecipient,
         WriteRecipient, InsertUser, InsertRow
<1> QED
  BY <1>1, <1>2, <1>3, Zenon

\* So do errors and crashes, also when a write took effect.
LEMMA FaultTypes ==
    ASSUME TypeOK, \/ \E r \in Requests : CallFails(r) \/ AckLost(r)
                   \/ Crash
    PROVE  TypeOK'
<1> USE DEF TypeOK
<1>1. faults' \in Nat /\ now' \in Nat
  BY DEF CallFails, AckLost, Crash, Fault
<1>2. ASSUME NEW r \in Requests, CallFails(r)
      PROVE  TypeOK'
  <2>1. pc[r] # "idle" /\ "DB_ERR" \in StatusSet
    BY <1>2 DEF CallFails, Running, ReadCalls, WriteCalls, StatusSet
  <2>2. RequestsOK'
    BY <1>2, <2>1, ControlTypes DEF CallFails, SendError, RequestsOK
  <2> QED
    BY <1>1, <1>2, <2>2 DEF CallFails, database, DatabaseOK
<1>3. ASSUME NEW r \in Requests, AckLost(r)
      PROVE  TypeOK'
  <2>1. pc[r] # "idle" /\ "DB_ERR" \in StatusSet
    BY <1>3 DEF AckLost, StatusSet
  <2>2. RequestsOK'
    BY <1>3, <2>1, ControlTypes DEF AckLost, SendError, RequestsOK
  <2>3. DatabaseOK'
    BY <1>3, <2>1, WriteTypes DEF AckLost
  <2> QED
    BY <1>1, <2>2, <2>3
<1>4. CASE Crash
  <2>1. /\ pc' \in [Requests -> Running \cup {"idle", "done", "lost"}]
        /\ \A r \in Requests : pc'[r] # "idle" => pc[r] # "idle"
    BY <1>4 DEF Crash, RequestsOK, Running, ReadCalls, WriteCalls
  <2>2. RequestsOK'
    BY <1>4, <2>1 DEF Crash, RequestsOK
  <2> QED
    BY <1>1, <1>4, <2>2 DEF Crash, database, DatabaseOK
<1> QED
  BY <1>2, <1>3, <1>4

LEMMA TypeStep == TypeOK /\ [Next]_vars => TypeOK'
<1> SUFFICES ASSUME TypeOK, [Next]_vars PROVE TypeOK'
  OBVIOUS
<1>1. CASE \E r \in Requests : Receive(r) \/ Step(r)
  BY <1>1, RequestStepTypes
<1>2. CASE (\E r \in Requests : CallFails(r) \/ AckLost(r)) \/ Crash
  BY <1>2, FaultTypes
<1>3. CASE Tick
  BY <1>3, BoundsAssumption DEF Tick, TypeOK, DatabaseOK, RequestsOK, database
<1>4. CASE UNCHANGED vars
  BY <1>4 DEF vars, TypeOK, DatabaseOK, RequestsOK
<1> QED
  BY <1>1, <1>2, <1>3, <1>4 DEF Next

\* Whatever requests, errors and crashes do, in any order and for any number of
\* users and requests, documents keep the fields that the handlers write and
\* every running request knows its call.
THEOREM TypeCorrect == Spec => []TypeOK
  BY TypeInit, TypeStep, PTL DEF Spec
----------------------------------------------------------------------------
(* Conversations only grow: chat_ids and chat_messages are only appended   *)
(* to, and so are the messages of a document.  The first row of a pair and *)
(* the first document of a chat_id therefore stay the first.               *)

ChatsKept(ids, ids2) ==
    Len(ids) <= Len(ids2) /\ \A i \in 1..Len(ids) : ids2[i] = ids[i]

LogsKept(docs, docs2) ==
    /\ Len(docs) <= Len(docs2)
    /\ \A i \in 1..Len(docs) :
          /\ docs2[i].chat_id = docs[i].chat_id
          /\ IsPrefix(docs[i].messages, docs2[i].messages)

\* A row of chat_ids that is appended is not the first of a pair that has one.
LEMMA FirstChatStays ==
    ASSUME NEW ids \in Seq(ChatId), NEW ids2 \in Seq(ChatId), ChatsKept(ids, ids2),
           NEW a, NEW b, FirstChat(ids, a, b) # 0
    PROVE  FirstChat(ids2, a, b) = FirstChat(ids, a, b)
<1> DEFINE m == FirstChat(ids, a, b)
           n == FirstChat(ids2, a, b)
<1>1. Len(ids) \in Nat /\ Len(ids2) \in Nat
  BY LenProperties
<1>2. m \in 1..Len(ids) /\ SamePair(ids[m], a, b)
  BY <1>1, FirstChatLemma
<1>3. m \in 1..Len(ids2) /\ SamePair(ids2[m], a, b)
  BY <1>1, <1>2 DEF ChatsKept
<1>4. n \in 1..Len(ids2) /\ n <= m /\ SamePair(ids2[n], a, b)
  BY <1>1, <1>3, FirstChatLemma
<1>5. n \in 1..Len(ids) /\ SamePair(ids[n], a, b)
  BY <1>1, <1>2, <1>4 DEF ChatsKept
<1>6. m <= n
  BY <1>1, <1>5, FirstChatLemma
<1> QED
  BY <1>2, <1>4, <1>6

\* Nor is a document that is appended the first of a chat_id that has one.
LEMMA FirstLogStays ==
    ASSUME NEW docs \in Seq(ChatLog), NEW docs2 \in Seq(ChatLog),
           LogsKept(docs, docs2), NEW id, FirstLog(docs, id) # 0
    PROVE  FirstLog(docs2, id) = FirstLog(docs, id)
<1> DEFINE m == FirstLog(docs, id)
           n == FirstLog(docs2, id)
<1>1. Len(docs) \in Nat /\ Len(docs2) \in Nat
  BY LenProperties
<1>2. m \in 1..Len(docs) /\ docs[m].chat_id = id
  BY <1>1, FirstLogLemma
<1>3. m \in 1..Len(docs2) /\ docs2[m].chat_id = id
  BY <1>1, <1>2 DEF LogsKept
<1>4. n \in 1..Len(docs2) /\ n <= m /\ docs2[n].chat_id = id
  BY <1>1, <1>3, FirstLogLemma
<1>5. n \in 1..Len(docs) /\ docs[n].chat_id = id
  BY <1>1, <1>2, <1>4 DEF LogsKept
<1>6. m <= n
  BY <1>1, <1>5, FirstLogLemma
<1> QED
  BY <1>2, <1>4, <1>6

LEMMA TalkType ==
    ASSUME NEW ids \in Seq(ChatId), NEW docs \in Seq(ChatLog), NEW a, NEW b
    PROVE  Talk(ids, docs, a, b) \in Seq(Entry)
<1> DEFINE row == FirstChat(ids, a, b)
           doc == IF row = 0 THEN 0 ELSE FirstLog(docs, ids[row].chat_id)
<1>1. doc \in 0..Len(docs)
  BY FirstLogLemma, LenProperties
<1>2. CASE doc = 0
  BY <1>2 DEF Talk
<1>3. CASE doc # 0
  <2>1. docs[doc] \in ChatLog
    <3>1. doc \in 1..Len(docs)
      <4> HIDE DEF doc
      <4> QED
        BY <1>1, <1>3, LenProperties
    <3> HIDE DEF doc
    <3> QED
      BY <3>1, ElementOfSeq
  <2>2. docs[doc].messages \in Seq(Entry)
    BY <2>1 DEF ChatLog
  <2> QED
    BY <1>3, <2>2, Zenon DEF Talk
<1> QED
  BY <1>2, <1>3

LEMMA TalkGrows ==
    ASSUME NEW ids \in Seq(ChatId), NEW ids2 \in Seq(ChatId), ChatsKept(ids, ids2),
           NEW docs \in Seq(ChatLog), NEW docs2 \in Seq(ChatLog),
           LogsKept(docs, docs2), NEW a, NEW b
    PROVE  IsPrefix(Talk(ids, docs, a, b), Talk(ids2, docs2, a, b))
<1> DEFINE row == FirstChat(ids, a, b)
           doc == IF row = 0 THEN 0 ELSE FirstLog(docs, ids[row].chat_id)
<1>1. CASE doc = 0
  <2>1. Talk(ids, docs, a, b) = <<>>
    BY <1>1, Zenon DEF Talk
  <2> QED
    BY <2>1, TalkType, PrefixFacts
<1>2. CASE doc # 0
  <2>1. row # 0 /\ doc = FirstLog(docs, ids[row].chat_id)
    BY <1>2
  <2>2. row \in 1..Len(ids) /\ doc \in 1..Len(docs)
    BY <1>2, <2>1, FirstChatLemma, FirstLogLemma, LenProperties
  <2>3. FirstChat(ids2, a, b) = row /\ ids2[row] = ids[row]
    BY <2>1, <2>2, FirstChatStays DEF ChatsKept
  <2>4. FirstLog(docs2, ids[row].chat_id) = doc
    BY <1>2, <2>1, FirstLogStays
  <2>5. /\ Talk(ids, docs, a, b) = docs[doc].messages
        /\ Talk(ids2, docs2, a, b) = docs2[doc].messages
    <3> HIDE DEF row, doc
    <3>1. Talk(ids2, docs2, a, b) = docs2[doc].messages
      BY <1>2, <2>1, <2>3, <2>4 DEF Talk
    <3>2. Talk(ids, docs, a, b) = docs[doc].messages
      BY <1>2, <2>1 DEF Talk, row
    <3> QED
      BY <3>1, <3>2
  <2> HIDE DEF row, doc
  <2> QED
    BY <2>2, <2>5 DEF LogsKept
<1> QED
  BY <1>1, <1>2

LEMMA NothingLost ==
    ASSUME NEW ids \in Seq(ChatId), NEW docs \in Seq(ChatLog)
    PROVE  ChatsKept(ids, ids) /\ LogsKept(docs, docs)
<1>1. Len(ids) \in Nat /\ Len(docs) \in Nat
  BY LenProperties
<1>2. \A i \in 1..Len(docs) : docs[i].messages \in Seq(Entry)
  <2>1. \A i \in 1..Len(docs) : docs[i] \in ChatLog
    BY ElementOfSeq
  <2> QED
    BY <2>1 DEF ChatLog
<1>3. \A i \in 1..Len(docs) : IsPrefix(docs[i].messages, docs[i].messages)
  BY <1>2, PrefixFacts
<1> QED
  BY <1>1, <1>3 DEF ChatsKept, LogsKept

\* What a $push does to chat_messages, when a document matches.
Pushed(r, doc) ==
    /\ doc \in 1..Len(chat_messages)
    /\ chat_messages[doc].chat_id = local[r].chat
    /\ chat_messages[doc].messages \in Seq(Entry)
    /\ EntryOf(r) \in Entry
    /\ Len(chat_messages') = Len(chat_messages)
    /\ \A i \in 1..Len(chat_messages) :
          /\ chat_messages'[i].chat_id = chat_messages[i].chat_id
          /\ i # doc => chat_messages'[i] = chat_messages[i]
    /\ chat_messages'[doc].messages =
          Append(chat_messages[doc].messages, EntryOf(r))

LEMMA PushEffect ==
    ASSUME TypeOK, NEW r \in Requests, pc[r] # "idle", AppendEntry(r),
           NEW doc, doc = Log(local[r].chat), doc # 0
    PROVE  Pushed(r, doc)
<1>1. doc \in 1..Len(chat_messages) /\ chat_messages[doc].chat_id = local[r].chat
  BY LookupsNow, FirstLogLemma, LenProperties DEF TypeOK, DatabaseOK
<1>2. EntryOf(r) \in Entry
  BY RequestTypes DEF TypeOK
<1>3. \A i \in 1..Len(chat_messages) : chat_messages[i] \in ChatLog
  BY ElementOfSeq DEF TypeOK, DatabaseOK
<1>4. chat_messages[doc].messages \in Seq(Entry)
  BY <1>1, <1>3 DEF ChatLog
<1> DEFINE new == [chat_messages[doc] EXCEPT !.messages = Append(@, EntryOf(r))]
<1>5. /\ new \in ChatLog
      /\ new.chat_id = chat_messages[doc].chat_id
      /\ new.messages = Append(chat_messages[doc].messages, EntryOf(r))
  <2>1. Append(chat_messages[doc].messages, EntryOf(r)) \in Seq(Entry)
    BY <1>2, <1>4
  <2>2. chat_messages[doc] \in ChatLog
    BY <1>1, <1>3
  <2> QED
    BY <2>1, <2>2, Zenon DEF ChatLog
<1>6. chat_messages' = [chat_messages EXCEPT ![doc] = new]
  BY DEF AppendEntry
<1>7. /\ Len(chat_messages') = Len(chat_messages)
      /\ \A i \in 1..Len(chat_messages) :
            chat_messages'[i] = IF i = doc THEN new ELSE chat_messages[i]
  <2> HIDE DEF new
  <2> QED
    BY <1>1, <1>5, <1>6, ExceptSeq, SMTT(20) DEF TypeOK, DatabaseOK
<1> QED
  <2> HIDE DEF new
  <2> QED
    BY <1>1, <1>2, <1>4, <1>5, <1>7 DEF Pushed

\* No write removes or changes a row of chat_ids, a document or a message.
LEMMA WriteKeeps ==
    ASSUME TypeOK, NEW r \in Requests, pc[r] # "idle",
           \/ AppendEntry(r) \/ AddChatId(r) \/ AddLog(r) \/ AddUser(r) \/ AddRow(r)
           \/ \E owner : SetRow(r, owner)
    PROVE  ChatsKept(chat_ids, chat_ids') /\ LogsKept(chat_messages, chat_messages')
<1>1. ChatsKept(chat_ids, chat_ids) /\ LogsKept(chat_messages, chat_messages)
  BY NothingLost DEF TypeOK, DatabaseOK
<1>2. Len(chat_ids) \in Nat /\ Len(chat_messages) \in Nat
  BY LenProperties DEF TypeOK, DatabaseOK
<1>3. call[r].from \in Names /\ call[r].to \in Names /\ local[r].chat \in Nat
      /\ EntryOf(r) \in Entry
  BY RequestTypes DEF TypeOK, Local
<1>4. CASE AppendEntry(r)
  <2>1. CASE Log(local[r].chat) = 0
    BY <1>1, <1>4, <2>1 DEF AppendEntry
  <2>2. CASE Log(local[r].chat) # 0
    <3>1. PICK doc : doc = Log(local[r].chat)
      OBVIOUS
    <3>2. /\ doc \in 1..Len(chat_messages)
          /\ chat_messages[doc].messages \in Seq(Entry)
          /\ EntryOf(r) \in Entry
          /\ Len(chat_messages') = Len(chat_messages)
          /\ \A i \in 1..Len(chat_messages) :
                /\ chat_messages'[i].chat_id = chat_messages[i].chat_id
                /\ i # doc => chat_messages'[i] = chat_messages[i]
          /\ chat_messages'[doc].messages =
                Append(chat_messages[doc].messages, EntryOf(r))
      <4>1. Pushed(r, doc)
        BY <1>4, <2>2, <3>1, PushEffect
      <4> QED
        BY <4>1 DEF Pushed
    <3>3. IsPrefix(chat_messages[doc].messages, chat_messages'[doc].messages)
      BY <3>2, AppendFacts
    <3> QED
      BY <1>1, <1>2, <1>4, <3>2, <3>3 DEF LogsKept, AppendEntry
  <2> QED
    BY <2>1, <2>2
<1>5. CASE AddChatId(r)
  <2>1. ChatsKept(chat_ids, chat_ids')
    <3>1. [chat_id |-> local[r].chat, user1 |-> call[r].from, user2 |-> call[r].to]
              \in ChatId
      BY <1>3 DEF ChatId
    <3> QED
      BY <1>2, <1>5, <3>1, AppendFacts DEF AddChatId, ChatsKept, TypeOK, DatabaseOK
  <2> QED
    BY <1>1, <1>5, <2>1 DEF AddChatId
<1>6. CASE AddLog(r)
  <2>1. [chat_id |-> local[r].chat, messages |-> <<EntryOf(r)>>] \in ChatLog
    BY <1>3 DEF ChatLog
  <2>2. /\ Len(chat_messages') = Len(chat_messages) + 1
        /\ \A i \in 1..Len(chat_messages) : chat_messages'[i] = chat_messages[i]
    BY <1>6, <2>1, AppendFacts DEF AddLog, TypeOK, DatabaseOK
  <2> QED
    BY <1>1, <1>2, <1>6, <2>2 DEF AddLog, LogsKept
<1>7. CASE AddUser(r) \/ AddRow(r) \/ \E owner : SetRow(r, owner)
  BY <1>1, <1>7 DEF AddUser, AddRow, SetRow
<1> QED
  BY <1>4, <1>5, <1>6, <1>7

LEMMA StepKeeps ==
    TypeOK /\ [Next]_vars =>
        ChatsKept(chat_ids, chat_ids') /\ LogsKept(chat_messages, chat_messages')
<1> SUFFICES ASSUME TypeOK, [Next]_vars
             PROVE  /\ ChatsKept(chat_ids, chat_ids')
                    /\ LogsKept(chat_messages, chat_messages')
  OBVIOUS
<1>1. CASE UNCHANGED <<chat_ids, chat_messages>>
  BY <1>1, NothingLost DEF TypeOK, DatabaseOK
<1>2. ASSUME NEW r \in Requests, Step(r) \/ AckLost(r)
      PROVE  \/ UNCHANGED <<chat_ids, chat_messages>>
             \/ /\ pc[r] # "idle"
                /\ \/ AppendEntry(r) \/ AddChatId(r) \/ AddLog(r) \/ AddUser(r)
                   \/ AddRow(r) \/ \E owner : SetRow(r, owner)
  <2>1. CASE AckLost(r)
    BY <2>1 DEF AckLost
  <2>2. CASE \/ ListUsernames(r) \/ FindChats(r) \/ CheckRecipient(r) \/ FindChat(r)
             \/ FindMessages(r) \/ AllocateChatId(r) \/ ReadSender(r) \/ ReadRecipient(r)
    BY <2>2 DEF ListUsernames, FindChats, CheckRecipient, FindChat, FindMessages,
                AllocateChatId, ReadSender, ReadRecipient, ReadRow, database
  <2>3. CASE \/ PushMessage(r) \/ InsertChatId(r) \/ InsertMessages(r)
             \/ WriteSender(r) \/ WriteRecipient(r) \/ InsertUser(r) \/ InsertRow(r)
    BY <2>3 DEF PushMessage, InsertChatId, InsertMessages, WriteSender,
                WriteRecipient, InsertUser, InsertRow
  <2> QED
    BY <1>2, <2>1, <2>2, <2>3, Zenon
       DEF Step, getExistingUsernames, getUserChats, getUserChatMessages,
           sendMessage, sendNewMessage, addNewUser, UpdatePreviews
<1>3. CASE \E r \in Requests : Step(r) \/ AckLost(r)
  BY <1>1, <1>2, <1>3, WriteKeeps
<1>4. CASE (\E r \in Requests : Receive(r) \/ CallFails(r)) \/ Crash \/ Tick
           \/ UNCHANGED vars
  BY <1>1, <1>4 DEF Receive, CallFails, Crash, Tick, vars, database
<1> QED
  BY <1>3, <1>4 DEF Next

LEMMA ConversationGrows ==
    TypeOK /\ TypeOK' /\ [Next]_vars =>
        \A a, b : IsPrefix(Conversation(a, b), Conversation(a, b)')
<1> SUFFICES ASSUME TypeOK, TypeOK', [Next]_vars, NEW a, NEW b
             PROVE  IsPrefix(Conversation(a, b), Conversation(a, b)')
  OBVIOUS
<1>1. ChatsKept(chat_ids, chat_ids') /\ LogsKept(chat_messages, chat_messages')
  BY StepKeeps
<1>2. /\ chat_ids \in Seq(ChatId) /\ chat_ids' \in Seq(ChatId)
      /\ chat_messages \in Seq(ChatLog) /\ chat_messages' \in Seq(ChatLog)
  BY DEF TypeOK, DatabaseOK
<1>3. IsPrefix(Talk(chat_ids, chat_messages, a, b), Talk(chat_ids', chat_messages', a, b))
  BY <1>1, <1>2, TalkGrows
<1> QED
  BY <1>3, LookupsNow, LookupsNext, Zenon

\* For every pair of users, every step only adds messages at the end of the
\* conversation that both read, also when two chats were created for the pair or
\* for the same chat_id, and whatever fails.
THEOREM ConversationsGrow == Spec => ConversationsOnlyGrow
<1>1. TypeOK /\ TypeOK' /\ [Next]_vars =>
          [\/ UNCHANGED <<chat_ids, chat_messages>>
           \/ \A a, b \in Names : IsPrefix(Conversation(a, b), Conversation(a, b)')]_vars
  BY ConversationGrows
<1> QED
  BY <1>1, TypeCorrect, PTL DEF Spec, ConversationsOnlyGrow
----------------------------------------------------------------------------
(* A message answered with SUCCESS stays visible, a read stays a prefix.   *)
(* Neither is inductive: the invariant also says what a request knows at   *)
(* each of its calls.                                                      *)

UpdateCalls == {"readSender", "writeSender", "readRecipient", "writeRecipient"}

\* The conversation and the chat of the users of a request
Own(r)    == Talk(chat_ids, chat_messages, call[r].from, call[r].to)
ChatOf(r) == FirstChat(chat_ids, call[r].from, call[r].to)

\* Which calls belong to which handler
ControlOf(r) ==
    /\ pc[r] = "idle" => reply[r].status = "none"
    /\ pc[r] = "findRow" => call[r].op = "getUserChats"
    /\ pc[r] \in {"insertUser", "insertRow"} => call[r].op = "addNewUser"
    /\ pc[r] \in {"lastChatId", "insertChatId", "insertMessages"} => local[r].fresh

\* A chat_id that was read is that of the first row of the pair.
IdOf(r) ==
    pc[r] \in {"pushMessage", "findMessages"} =>
        ChatOf(r) # 0 /\ chat_ids[ChatOf(r)].chat_id = local[r].chat

\* While the chat lists are updated, the message is stored.
PushedOf(r) ==
    pc[r] \in UpdateCalls /\ ~local[r].fresh => EntryOf(r) \in ToSet(Own(r))

SeenOf(r) == Succeeded(r) /\ ~local[r].fresh => EntryOf(r) \in ToSet(Own(r))

ReadOf(r) ==
    call[r].op = "getUserChatMessages" /\ reply[r].status = "SUCCESS" =>
        reply[r].body \in Seq(Entry) /\ IsPrefix(reply[r].body, Own(r))

RequestInv(r) ==
    ControlOf(r) /\ IdOf(r) /\ PushedOf(r) /\ SeenOf(r) /\ ReadOf(r)

VisibleInv == TypeOK /\ \A r \in Requests : RequestInv(r)

LEMMA VisibleInit == Init => VisibleInv
<1> SUFFICES ASSUME Init, NEW r \in Requests PROVE RequestInv(r)
  BY TypeInit DEF VisibleInv
<1> QED
  BY DEF Init, Idle, NoReply, UpdateCalls, RequestInv, ControlOf, IdOf, PushedOf,
         SeenOf, ReadOf, Succeeded

\* The chat and the conversation of a request that is in progress or over: the
\* chat stays, the conversation keeps its messages and its prefixes.
LEMMA OwnGrows ==
    ASSUME TypeOK, TypeOK', [Next]_vars, NEW r \in Requests, UNCHANGED call[r]
    PROVE  /\ Own(r) \in Seq(Entry) /\ Own(r)' \in Seq(Entry)
           /\ IsPrefix(Own(r), Own(r)')
           /\ ToSet(Own(r)) \subseteq ToSet(Own(r)')
           /\ ChatOf(r) # 0 => /\ ChatOf(r)' # 0
                               /\ chat_ids'[ChatOf(r)'].chat_id
                                      = chat_ids[ChatOf(r)].chat_id
<1>1. ChatsKept(chat_ids, chat_ids') /\ LogsKept(chat_messages, chat_messages')
  BY StepKeeps
<1>2. /\ chat_ids \in Seq(ChatId) /\ chat_ids' \in Seq(ChatId)
      /\ chat_messages \in Seq(ChatLog) /\ chat_messages' \in Seq(ChatLog)
  BY DEF TypeOK, DatabaseOK
<1>3. Own(r) \in Seq(Entry) /\ Own(r)' \in Seq(Entry)
  BY <1>2, TalkType DEF Own
<1>4. IsPrefix(Own(r), Own(r)')
  BY <1>1, <1>2, TalkGrows DEF Own
<1>5. ToSet(Own(r)) \subseteq ToSet(Own(r)')
  BY <1>3, <1>4, PrefixFacts
<1>6. ASSUME ChatOf(r) # 0
      PROVE  ChatOf(r)' # 0 /\ chat_ids'[ChatOf(r)'].chat_id = chat_ids[ChatOf(r)].chat_id
  <2>1. ChatOf(r)' = ChatOf(r)
    BY <1>1, <1>2, <1>6, FirstChatStays DEF ChatOf
  <2>2. ChatOf(r) \in 1..Len(chat_ids)
    BY <1>2, <1>6, FirstChatLemma, LenProperties DEF ChatOf
  <2> QED
    BY <1>1, <1>6, <2>1, <2>2 DEF ChatsKept
<1> QED
  BY <1>3, <1>4, <1>5, <1>6

\* What was true of an answer stays true.
LEMMA AnswerStays ==
    ASSUME TypeOK, TypeOK', [Next]_vars, NEW r \in Requests, SeenOf(r), ReadOf(r),
           UNCHANGED <<call[r], reply[r], local[r].time>>,
           local'[r].fresh = local[r].fresh \/ local'[r].fresh
    PROVE  SeenOf(r)' /\ ReadOf(r)'
<1>1. /\ Own(r) \in Seq(Entry) /\ Own(r)' \in Seq(Entry)
      /\ IsPrefix(Own(r), Own(r)')
      /\ ToSet(Own(r)) \subseteq ToSet(Own(r)')
  BY OwnGrows
<1>2. EntryOf(r)' = EntryOf(r)
  BY DEF EntryOf
<1>3. SeenOf(r)'
  BY <1>1, <1>2 DEF SeenOf, Succeeded
<1>4. ReadOf(r)'
  <2> SUFFICES ASSUME call[r].op = "getUserChatMessages", reply[r].status = "SUCCESS"
               PROVE  reply[r].body \in Seq(Entry) /\ IsPrefix(reply[r].body, Own(r)')
    BY DEF ReadOf
  <2>1. reply[r].body \in Seq(Entry) /\ IsPrefix(reply[r].body, Own(r))
    BY DEF ReadOf
  <2> QED
    BY <1>1, <2>1, PrefixFacts
<1> QED
  BY <1>3, <1>4

\* A request that does nothing keeps its invariant, also when it is lost.
LEMMA OtherStays ==
    ASSUME TypeOK, TypeOK', [Next]_vars, NEW r \in Requests, RequestInv(r),
           UNCHANGED <<call[r], local[r], reply[r]>>,
           pc'[r] = pc[r] \/ pc'[r] = "lost"
    PROVE  RequestInv(r)'
<1>1. SeenOf(r)' /\ ReadOf(r)'
  BY AnswerStays DEF RequestInv
<1>2. /\ ToSet(Own(r)) \subseteq ToSet(Own(r)')
      /\ ChatOf(r) # 0 => /\ ChatOf(r)' # 0
                          /\ chat_ids'[ChatOf(r)'].chat_id
                                 = chat_ids[ChatOf(r)].chat_id
  BY OwnGrows
<1>3. EntryOf(r)' = EntryOf(r)
  BY DEF EntryOf
<1>4. CASE pc'[r] = pc[r]
  BY <1>1, <1>2, <1>3, <1>4 DEF RequestInv, ControlOf, IdOf, PushedOf
<1>5. CASE pc'[r] = "lost"
  BY <1>1, <1>5 DEF RequestInv, ControlOf, IdOf, PushedOf, UpdateCalls
<1> QED
  BY <1>4, <1>5

LEMMA AwaitFacts ==
    ASSUME TypeOK, NEW r \in Requests, NEW step, Await(r, step)
    PROVE  pc'[r] = step /\ reply'[r] = reply[r]
BY DEF TypeOK, RequestsOK, Await

LEMMA SendFacts ==
    ASSUME TypeOK, NEW r \in Requests, NEW status, NEW body, Send(r, status, body)
    PROVE  pc'[r] = "done" /\ reply'[r].status = status /\ reply'[r].body = body
BY DEF TypeOK, RequestsOK, Send

\* An answer that is not a SUCCESS promises nothing.
LEMMA RefusalKeeps ==
    ASSUME TypeOK, NEW r \in Requests, NEW status, NEW body, status # "SUCCESS",
           Send(r, status, body)
    PROVE  RequestInv(r)'
<1>1. pc'[r] = "done" /\ reply'[r].status = status
  BY SendFacts
<1> QED
  BY <1>1 DEF RequestInv, ControlOf, IdOf, PushedOf, SeenOf, ReadOf, Succeeded,
              UpdateCalls

LEMMA ErrorKeeps ==
    ASSUME TypeOK, NEW r \in Requests, SendError(r)
    PROVE  RequestInv(r)'
BY RefusalKeeps DEF SendError

\* The conversation of a request, when its chat_id is the pair's.
LEMMA OwnIsLog ==
    ASSUME NEW r \in Requests, ChatOf(r) # 0,
           chat_ids[ChatOf(r)].chat_id = local[r].chat, Log(local[r].chat) # 0
    PROVE  Own(r) = chat_messages[Log(local[r].chat)].messages
<1>1. Log(local[r].chat) = FirstLog(chat_messages, local[r].chat)
  BY LookupsNow
<1> QED
  BY <1>1 DEF Own, Talk, ChatOf

\* After a successful $push the message is in the conversation of its users.
LEMMA PushStores ==
    ASSUME TypeOK, TypeOK', NEW r \in Requests, IdOf(r), PushMessage(r),
           PushModifies(r)
    PROVE  EntryOf(r)' = EntryOf(r) /\ EntryOf(r) \in ToSet(Own(r)')
<1>1. /\ pc[r] = "pushMessage" /\ pc[r] # "idle"
      /\ AppendEntry(r) /\ UNCHANGED <<call, local, chat_ids>>
  BY DEF PushMessage, AppendEntry
<1>2. PICK doc : doc = Log(local[r].chat) /\ doc # 0
  BY DEF PushModifies
<1>3. /\ doc \in 1..Len(chat_messages)
      /\ chat_messages[doc].messages \in Seq(Entry)
      /\ EntryOf(r) \in Entry
      /\ chat_messages'[doc].messages = Append(chat_messages[doc].messages, EntryOf(r))
  <2>1. Pushed(r, doc)
    BY <1>1, <1>2, PushEffect
  <2> QED
    BY <2>1 DEF Pushed
<1>4. LogsKept(chat_messages, chat_messages')
  BY <1>1, WriteKeeps
<1>5. FirstLog(chat_messages', local[r].chat) = doc
  BY <1>2, <1>4, LookupsNow, FirstLogStays DEF TypeOK, DatabaseOK
<1>6. Own(r)' = chat_messages'[doc].messages
  <2>1. /\ ChatOf(r) # 0
        /\ chat_ids[ChatOf(r)].chat_id = local[r].chat
        /\ ChatOf(r) = FirstChat(chat_ids, call[r].from, call[r].to)
    BY <1>1 DEF IdOf, ChatOf
  <2>2. Own(r)' = Talk(chat_ids, chat_messages', call[r].from, call[r].to)
    BY <1>1 DEF Own
  <2> QED
    BY <1>2, <1>5, <2>1, <2>2 DEF Talk
<1>7. EntryOf(r) \in ToSet(Append(chat_messages[doc].messages, EntryOf(r)))
  BY <1>3, AppendFacts, Zenon
<1> QED
  BY <1>1, <1>3, <1>6, <1>7 DEF EntryOf

LEMMA ReadRowKeeps ==
    ASSUME TypeOK, TypeOK', [Next]_vars, NEW r \in Requests, RequestInv(r),
           pc[r] \in UpdateCalls, NEW owner, NEW peer,
           NEW next \in {"writeSender", "writeRecipient"},
           ReadRow(r, owner, peer, next)
    PROVE  RequestInv(r)'
<1>1. CASE /\ Await(r, next)
           /\ \E rows : local' = [local EXCEPT ![r].rows = rows]
  <2>1. pc'[r] = next /\ reply'[r] = reply[r]
    BY <1>1, AwaitFacts
  <2>2. UNCHANGED call[r]
    BY DEF ReadRow
  <2>3. local'[r].time = local[r].time /\ local'[r].fresh = local[r].fresh
    BY <1>1 DEF TypeOK, RequestsOK, Local
  <2>4. SeenOf(r)' /\ ReadOf(r)'
    BY <2>1, <2>2, <2>3, AnswerStays DEF RequestInv
  <2>5. ToSet(Own(r)) \subseteq ToSet(Own(r)') /\ EntryOf(r)' = EntryOf(r)
    BY <2>2, <2>3, OwnGrows DEF EntryOf
  <2>6. PushedOf(r)'
    BY <2>1, <2>3, <2>5 DEF RequestInv, PushedOf, UpdateCalls
  <2> QED
    BY <2>1, <2>4, <2>6 DEF RequestInv, ControlOf, IdOf
<1>2. CASE SendError(r)
  BY <1>2, ErrorKeeps
<1> QED
  BY <1>1, <1>2, Zenon DEF ReadRow

\* The step of a request keeps its own invariant.
LEMMA ActorKeeps ==
    ASSUME TypeOK, TypeOK', [Next]_vars, NEW r \in Requests, RequestInv(r),
           Receive(r) \/ Step(r)
    PROVE  RequestInv(r)'
<1>1. CASE Receive(r)
  <2>1. PICK c \in Calls : /\ call' = [call EXCEPT ![r] = c]
                           /\ Await(r, FirstCall(c.op))
    BY <1>1 DEF Receive
  <2>2. pc'[r] = FirstCall(c.op) /\ reply'[r] = reply[r] /\ call'[r] = c
    BY <2>1, AwaitFacts DEF TypeOK, RequestsOK
  <2>3. c.op \in Handlers
    BY CallsAssumption DEF Call
  <2>4. /\ pc'[r] \in {"listUsers", "findRow", "findChat", "insertUser"}
        /\ pc'[r] = "findRow" => c.op = "getUserChats"
        /\ pc'[r] = "insertUser" => c.op = "addNewUser"
    BY <2>2, <2>3 DEF FirstCall, Handlers
  <2>5. reply'[r].status = "none"
    BY <1>1, <2>2 DEF Receive, RequestInv, ControlOf
  <2> QED
    BY <2>2, <2>4, <2>5 DEF RequestInv, ControlOf, IdOf, PushedOf, SeenOf, ReadOf,
                            Succeeded, UpdateCalls
<1>2. ASSUME UNCHANGED <<call, local>>, NEW step, Await(r, step),
             step \in {"findChat", "readSender", "readRecipient", "insertChatId",
                       "insertMessages", "insertRow"},
             step \in {"readSender", "readRecipient"} /\ ~local[r].fresh =>
                 EntryOf(r) \in ToSet(Own(r)'),
             step \in {"insertChatId", "insertMessages"} => local[r].fresh,
             step = "insertRow" => call[r].op = "addNewUser"
      PROVE  RequestInv(r)'
  <2>1. pc'[r] = step /\ reply'[r] = reply[r]
    BY <1>2, AwaitFacts
  <2>2. SeenOf(r)' /\ ReadOf(r)'
    BY <1>2, <2>1, AnswerStays DEF RequestInv
  <2>3. EntryOf(r)' = EntryOf(r)
    BY <1>2 DEF EntryOf
  <2> QED
    BY <1>2, <2>1, <2>2, <2>3 DEF RequestInv, ControlOf, IdOf, PushedOf, UpdateCalls
<1>3. ASSUME UNCHANGED call, NEW body, Send(r, "SUCCESS", body),
             call[r].op \in SendOps => SeenOf(r)',
             call[r].op = "getUserChatMessages" => ReadOf(r)'
      PROVE  RequestInv(r)'
  <2>1. pc'[r] = "done"
    BY <1>3, SendFacts
  <2>2. SeenOf(r)' /\ ReadOf(r)'
    BY <1>3 DEF SeenOf, ReadOf, Succeeded
  <2> QED
    BY <2>1, <2>2 DEF RequestInv, ControlOf, IdOf, PushedOf, UpdateCalls
<1>4. CASE ListUsernames(r)
  BY <1>3, <1>4 DEF ListUsernames, SendOps
<1>5. CASE FindChats(r)
  BY <1>3, <1>5 DEF FindChats, SendOps, RequestInv, ControlOf
<1>6. CASE CheckRecipient(r)
  BY <1>2, <1>6, RefusalKeeps DEF CheckRecipient
<1>7. CASE FindChat(r) /\ call[r].op # "getUserChatMessages"
  <2> DEFINE row == ChatRow(call[r].from, call[r].to)
  <2>1. UNCHANGED <<call, chat_ids>> /\ row = ChatOf(r)
    BY <1>7, LookupsNow DEF FindChat, database, ChatOf
  <2>2. CASE SendError(r)
    BY <2>2, ErrorKeeps
  <2>3. CASE /\ row # 0
             /\ local' = [local EXCEPT ![r].chat = chat_ids[row].chat_id]
             /\ Await(r, "pushMessage")
    <3>1. /\ local'[r].time = local[r].time /\ local'[r].fresh = local[r].fresh
          /\ local'[r].chat = chat_ids[row].chat_id
      BY <2>3 DEF TypeOK, RequestsOK, Local
    <3>2. pc'[r] = "pushMessage" /\ reply'[r] = reply[r]
      BY <2>3, AwaitFacts
    <3>3. SeenOf(r)' /\ ReadOf(r)'
      BY <2>1, <3>1, <3>2, AnswerStays DEF RequestInv
    <3>4. IdOf(r)'
      BY <2>1, <2>3, <3>1 DEF IdOf, ChatOf
    <3> QED
      BY <3>2, <3>3, <3>4 DEF RequestInv, ControlOf, PushedOf, UpdateCalls
  <2>4. CASE /\ local' = [local EXCEPT ![r].fresh = TRUE]
             /\ Await(r, "lastChatId")
    <3>1. local'[r].time = local[r].time /\ local'[r].fresh
      BY <2>4 DEF TypeOK, RequestsOK, Local
    <3>2. pc'[r] = "lastChatId" /\ reply'[r] = reply[r]
      BY <2>4, AwaitFacts
    <3>3. SeenOf(r)' /\ ReadOf(r)'
      BY <2>1, <3>1, <3>2, AnswerStays DEF RequestInv
    <3> QED
      BY <3>1, <3>2, <3>3 DEF RequestInv, ControlOf, IdOf, PushedOf, UpdateCalls
  <2> QED
    BY <1>7, <2>2, <2>3, <2>4 DEF FindChat
<1>8. CASE FindChat(r) /\ call[r].op = "getUserChatMessages"
  <2> DEFINE row == ChatRow(call[r].from, call[r].to)
  <2>1. UNCHANGED <<call, chat_ids>> /\ row = ChatOf(r)
    BY <1>8, LookupsNow DEF FindChat, database, ChatOf
  <2>2. CASE SendError(r)
    BY <2>2, ErrorKeeps
  <2>3. CASE /\ row # 0
             /\ local' = [local EXCEPT ![r].chat = chat_ids[row].chat_id]
             /\ Await(r, "findMessages")
    <3>1. /\ local'[r].time = local[r].time /\ local'[r].fresh = local[r].fresh
          /\ local'[r].chat = chat_ids[row].chat_id
      BY <2>3 DEF TypeOK, RequestsOK, Local
    <3>2. pc'[r] = "findMessages" /\ reply'[r] = reply[r]
      BY <2>3, AwaitFacts
    <3>3. SeenOf(r)' /\ ReadOf(r)'
      BY <2>1, <3>1, <3>2, AnswerStays DEF RequestInv
    <3>4. IdOf(r)'
      BY <2>1, <2>3, <3>1 DEF IdOf, ChatOf
    <3> QED
      BY <3>2, <3>3, <3>4 DEF RequestInv, ControlOf, PushedOf, UpdateCalls
  <2> QED
    BY <1>8, <2>2, <2>3 DEF FindChat
<1>9. CASE FindMessages(r) /\ call[r].op = "getUserChatMessages"
  <2> DEFINE doc == Log(local[r].chat)
  <2>1. CASE SendError(r)
    BY <2>1, ErrorKeeps
  <2>2. CASE doc # 0 /\ Send(r, "SUCCESS", chat_messages[doc].messages)
    <3>1. UNCHANGED <<chat_ids, chat_messages, call>>
      BY <1>9 DEF FindMessages, database
    <3>2. Own(r) = chat_messages[doc].messages
      BY <1>9, <2>2, OwnIsLog DEF FindMessages, RequestInv, IdOf
    <3>3. reply'[r].body = Own(r)
      BY <2>2, <3>2, SendFacts
    <3>4. Own(r) \in Seq(Entry)
      BY TalkType DEF Own, TypeOK, DatabaseOK
    <3>5. Own(r)' = Own(r)
      BY <3>1 DEF Own
    <3>6. ReadOf(r)'
      BY <3>3, <3>4, <3>5, PrefixFacts DEF ReadOf
    <3> QED
      BY <1>3, <1>9, <2>2, <3>1, <3>6 DEF SendOps
  <2> QED
    BY <1>9, <2>1, <2>2 DEF FindMessages
<1>10. CASE PushMessage(r)
  <2>1. CASE PushModifies(r)
    <3>1. EntryOf(r) \in ToSet(Own(r)')
      BY <1>10, <2>1, PushStores DEF RequestInv
    <3> QED
      BY <1>2, <1>10, <2>1, <3>1 DEF PushMessage
  <2>2. CASE ~PushModifies(r)
    BY <1>10, <2>2, ErrorKeeps DEF PushMessage
  <2> QED
    BY <2>1, <2>2
<1>11. CASE AllocateChatId(r)
  <2>1. pc'[r] = "insertChatId" /\ reply'[r] = reply[r] /\ UNCHANGED call
    BY <1>11, AwaitFacts DEF AllocateChatId
  <2>2. /\ local'[r].time = local[r].time /\ local'[r].fresh = local[r].fresh
        /\ local[r].fresh
    BY <1>11 DEF AllocateChatId, TypeOK, RequestsOK, Local, RequestInv, ControlOf
  <2>3. SeenOf(r)' /\ ReadOf(r)'
    BY <2>1, <2>2, AnswerStays DEF RequestInv
  <2> QED
    BY <2>1, <2>2, <2>3 DEF RequestInv, ControlOf, IdOf, PushedOf, UpdateCalls
<1>12. CASE InsertChatId(r) \/ InsertMessages(r)
  BY <1>2, <1>12 DEF InsertChatId, InsertMessages, RequestInv, ControlOf
<1>13. CASE ReadSender(r) \/ ReadRecipient(r)
  BY <1>13, ReadRowKeeps DEF ReadSender, ReadRecipient, UpdateCalls
<1>14. CASE \/ WriteSender(r)
            \/ WriteRecipient(r) /\ call[r].op # "getUserChatMessages"
  <2>1. ~local[r].fresh => EntryOf(r) \in ToSet(Own(r))
    BY <1>14 DEF WriteSender, WriteRecipient, RequestInv, PushedOf, UpdateCalls
  <2>2. UNCHANGED <<call, local, chat_ids, chat_messages>>
    BY <1>14 DEF WriteSender, WriteRecipient, SetRow
  <2>3. ~local[r].fresh => EntryOf(r) \in ToSet(Own(r)')
    BY <2>1, <2>2 DEF Own
  <2>4. SendError(r) => RequestInv(r)'
    BY ErrorKeeps
  <2>5. CASE WriteSender(r)
    BY <1>2, <2>2, <2>3, <2>4, <2>5 DEF WriteSender
  <2>6. CASE WriteRecipient(r) /\ call[r].op # "getUserChatMessages"
    <3>1. SeenOf(r)'
      BY <2>2, <2>3 DEF SeenOf, EntryOf
    <3> QED
      BY <1>3, <2>2, <2>4, <2>6, <3>1 DEF WriteRecipient
  <2> QED
    BY <1>14, <2>5, <2>6
<1>15. CASE InsertUser(r)
  BY <1>2, <1>15 DEF InsertUser, RequestInv, ControlOf
<1>16. CASE InsertRow(r)
  BY <1>3, <1>16 DEF InsertRow, RequestInv, ControlOf, SendOps
<1> QED
  BY <1>1, <1>4, <1>5, <1>6, <1>7, <1>8, <1>9, <1>10, <1>11, <1>12, <1>13, <1>14,
     <1>15, <1>16, Zenon
     DEF Step, getExistingUsernames, getUserChats, getUserChatMessages,
         sendMessage, sendNewMessage, addNewUser, UpdatePreviews

\* A handler that sends a message goes on to its next call.
SendMoves(r) ==
    \/ pc[r] = "findChat"      /\ pc'[r] = "pushMessage"
    \/ pc[r] = "pushMessage"   /\ pc'[r] = "readSender"
    \/ pc[r] = "readSender"    /\ pc'[r] = "writeSender"
    \/ pc[r] = "writeSender"   /\ pc'[r] = "readRecipient"
    \/ pc[r] = "readRecipient" /\ pc'[r] = "writeRecipient"

OpeningMoves(r) ==
    \/ pc[r] = "listUsers"      /\ pc'[r] = "findChat"
    \/ pc[r] = "findChat"       /\ pc'[r] = "lastChatId"
    \/ pc[r] = "lastChatId"     /\ pc'[r] = "insertChatId"
    \/ pc[r] = "insertChatId"   /\ pc'[r] = "insertMessages"
    \/ pc[r] = "insertMessages" /\ pc'[r] = "readSender"

Advances(r) ==
    /\ reply'[r] = reply[r]
    /\ \/ call[r].op \in SendOps /\ SendMoves(r)
       \/ call[r].op = "sendNewMessage" /\ OpeningMoves(r)
       \/ /\ call[r].op = "getUserChatMessages"
          /\ pc[r] = "findChat" /\ pc'[r] = "findMessages"
       \/ pc[r] = "insertUser" /\ pc'[r] = "insertRow"

\* A step of a request answers it or goes on to the next call of its handler.
LEMMA StepMoves ==
    ASSUME TypeOK, NEW r \in Requests, Step(r)
    PROVE  /\ UNCHANGED call /\ local'[r].time = local[r].time
           /\ pc[r] \in Running
           /\ pc'[r] = "done" \/ Advances(r)
<1>1. /\ \A status, body : Send(r, status, body) => pc'[r] = "done"
      /\ SendError(r) => pc'[r] = "done"
      /\ \A step : Await(r, step) => pc'[r] = step /\ reply'[r] = reply[r]
  BY AwaitFacts, SendFacts DEF SendError
<1> USE DEF Running, ReadCalls, WriteCalls
<1>2. CASE ListUsernames(r) \/ FindChats(r) \/ FindMessages(r) \/ InsertRow(r)
  BY <1>1, <1>2 DEF ListUsernames, FindChats, FindMessages, InsertRow
<1>3. CASE InsertUser(r)
  BY <1>1, <1>3 DEF InsertUser, Advances
<1>4. CASE FindChat(r) /\ call[r].op \in SendOps \cup {"getUserChatMessages"}
  <2>1. /\ UNCHANGED call /\ local'[r].time = local[r].time /\ pc[r] = "findChat"
    BY <1>4 DEF FindChat, TypeOK, RequestsOK, Local
  <2>2. \/ call[r].op = "getUserChatMessages" /\ Await(r, "findMessages")
        \/ call[r].op \in SendOps /\ Await(r, "pushMessage")
        \/ call[r].op = "sendNewMessage" /\ Await(r, "lastChatId")
        \/ SendError(r)
    BY <1>4 DEF FindChat
  <2> QED
    BY <1>1, <2>1, <2>2 DEF Advances, SendMoves, OpeningMoves
<1>5. CASE CheckRecipient(r)
  <2>1. UNCHANGED <<call, local>> /\ pc[r] = "listUsers" /\ call[r].op = "sendNewMessage"
    BY <1>5, Zenon DEF CheckRecipient
  <2>2. Await(r, "findChat") \/ Send(r, "USER DOES NOT EXIST", <<>>)
    BY <1>5, Zenon DEF CheckRecipient
  <2> QED
    BY <1>1, <2>1, <2>2 DEF Advances, OpeningMoves
<1>6. CASE call[r].op = "sendNewMessage" /\ AllocateChatId(r)
  <2>1. UNCHANGED call /\ local'[r].time = local[r].time
    BY <1>6 DEF AllocateChatId, TypeOK, RequestsOK, Local
  <2> QED
    BY <1>1, <1>6, <2>1 DEF AllocateChatId, Advances, OpeningMoves
<1>7. CASE call[r].op = "sendNewMessage" /\ (InsertChatId(r) \/ InsertMessages(r))
  BY <1>1, <1>7 DEF InsertChatId, InsertMessages, Advances, OpeningMoves
<1>8. CASE call[r].op \in SendOps /\ PushMessage(r)
  BY <1>1, <1>8 DEF PushMessage, Advances, SendMoves
<1>9. CASE call[r].op \in SendOps /\ (ReadSender(r) \/ ReadRecipient(r))
  <2>1. \A owner, peer, next : ReadRow(r, owner, peer, next) =>
            /\ UNCHANGED call /\ local'[r].time = local[r].time
            /\ Await(r, next) \/ SendError(r)
    BY DEF ReadRow, TypeOK, RequestsOK, Local
  <2>2. CASE ReadSender(r)
    BY <1>1, <1>9, <2>1, <2>2 DEF ReadSender, Advances, SendMoves
  <2>3. CASE ReadRecipient(r)
    BY <1>1, <1>9, <2>1, <2>3 DEF ReadRecipient, Advances, SendMoves
  <2> QED
    BY <1>9, <2>2, <2>3
<1>10. CASE call[r].op \in SendOps /\ WriteSender(r)
  BY <1>1, <1>10 DEF WriteSender, Advances, SendMoves
<1>11. CASE call[r].op \in SendOps /\ WriteRecipient(r)
  BY <1>1, <1>11 DEF WriteRecipient, Advances, SendMoves
<1> HIDE DEF Running, ReadCalls, WriteCalls
<1>12. /\ call[r].op = "sendMessage" => call[r].op \in SendOps
       /\ call[r].op = "sendNewMessage" => call[r].op \in SendOps
  BY DEF SendOps
<1>13. sendMessage(r) \/ sendNewMessage(r) \/ getUserChatMessages(r) =>
           \/ FindChat(r) /\ call[r].op \in SendOps \cup {"getUserChatMessages"}
           \/ FindMessages(r) \/ CheckRecipient(r)
           \/ /\ call[r].op = "sendNewMessage"
              /\ AllocateChatId(r) \/ InsertChatId(r) \/ InsertMessages(r)
           \/ /\ call[r].op \in SendOps
              /\ PushMessage(r) \/ ReadSender(r) \/ ReadRecipient(r)
                 \/ WriteSender(r) \/ WriteRecipient(r)
  BY <1>12, Zenon DEF sendMessage, sendNewMessage, getUserChatMessages, UpdatePreviews
<1> QED
  BY <1>2, <1>3, <1>4, <1>5, <1>6, <1>7, <1>8, <1>9, <1>10, <1>11, <1>13, Zenon
     DEF Step, getExistingUsernames, getUserChats, addNewUser

\* A request does not touch the control state of another.
LEMMA StepIsLocal ==
    ASSUME TypeOK, NEW s \in Requests, Step(s), NEW r \in Requests, s # r
    PROVE  UNCHANGED <<call[r], local[r], pc[r], reply[r]>>
<1>1. /\ \A step : Await(s, step) => UNCHANGED <<pc[r], reply[r]>>
      /\ \A status, body : Send(s, status, body) => UNCHANGED <<pc[r], reply[r]>>
      /\ SendError(s) => UNCHANGED <<pc[r], reply[r]>>
  BY DEF Await, Send, SendError, TypeOK, RequestsOK
<1>2. \A owner, peer, next :
          ReadRow(s, owner, peer, next) => UNCHANGED <<call[r], local[r], pc[r], reply[r]>>
  BY <1>1 DEF ReadRow, TypeOK, RequestsOK
<1>3. CASE \/ ListUsernames(s) \/ FindChats(s) \/ CheckRecipient(s) \/ FindMessages(s)
           \/ PushMessage(s) \/ InsertChatId(s) \/ InsertMessages(s) \/ WriteSender(s)
           \/ WriteRecipient(s) \/ InsertUser(s) \/ InsertRow(s)
  BY <1>1, <1>3 DEF ListUsernames, FindChats, CheckRecipient, FindMessages,
                    PushMessage, InsertChatId, InsertMessages, WriteSender,
                    WriteRecipient, InsertUser, InsertRow
<1>4. CASE FindChat(s) \/ AllocateChatId(s)
  BY <1>1, <1>4 DEF FindChat, AllocateChatId, TypeOK, RequestsOK
<1>5. CASE ReadSender(s) \/ ReadRecipient(s)
  BY <1>2, <1>5 DEF ReadSender, ReadRecipient
<1> QED
  BY <1>3, <1>4, <1>5, Zenon
     DEF Step, getExistingUsernames, getUserChats, getUserChatMessages,
         sendMessage, sendNewMessage, addNewUser, UpdatePreviews

LEMMA VisibleStep == VisibleInv /\ TypeOK' /\ [Next]_vars => VisibleInv'
<1> SUFFICES ASSUME VisibleInv, TypeOK', [Next]_vars, NEW r \in Requests
             PROVE  RequestInv(r)'
  BY DEF VisibleInv
<1>1. TypeOK /\ RequestInv(r)
  BY DEF VisibleInv
<1>2. ASSUME UNCHANGED <<call[r], local[r], reply[r]>>, pc'[r] = pc[r] \/ pc'[r] = "lost"
      PROVE  RequestInv(r)'
  BY <1>1, <1>2, OtherStays
<1>3. ASSUME NEW s \in Requests, Receive(s) \/ Step(s) \/ CallFails(s) \/ AckLost(s)
      PROVE  RequestInv(r)'
  <2>1. CASE s = r
    <3>1. CASE Receive(r) \/ Step(r)
      BY <1>1, <3>1, ActorKeeps
    <3>2. CASE CallFails(r) \/ AckLost(r)
      BY <1>1, <3>2, ErrorKeeps DEF CallFails, AckLost
    <3> QED
      BY <1>3, <2>1, <3>1, <3>2
  <2>2. CASE s # r
    <3>1. UNCHANGED <<call[r], local[r], pc[r], reply[r]>>
      <4>1. CASE Receive(s)
        BY <1>1, <2>2, <4>1 DEF Receive, Await, TypeOK, RequestsOK
      <4>2. CASE CallFails(s) \/ AckLost(s)
        BY <1>1, <2>2, <4>2 DEF CallFails, AckLost, SendError, Send, TypeOK, RequestsOK
      <4>3. CASE Step(s)
        BY <1>1, <2>2, <4>3, StepIsLocal
      <4> QED
        BY <1>3, <4>1, <4>2, <4>3
    <3> QED
      BY <1>2, <3>1
  <2> QED
    BY <2>1, <2>2
<1>4. CASE Crash
  <2>1. UNCHANGED <<call[r], local[r], reply[r]>> /\ (pc'[r] = pc[r] \/ pc'[r] = "lost")
    BY <1>4 DEF Crash
  <2> QED
    BY <1>2, <2>1
<1>5. CASE Tick \/ UNCHANGED vars
  BY <1>2, <1>5 DEF Tick, vars
<1> QED
  BY <1>3, <1>4, <1>5 DEF Next

\* What a request knows at each of its calls holds in every reachable state: the
\* chat_id is its pair's, and its message is stored when it says so.
THEOREM VisibleInvariant == Spec => []VisibleInv
<1>1. VisibleInv /\ TypeOK' /\ [Next]_vars => VisibleInv'
  BY VisibleStep
<1> QED
  BY <1>1, VisibleInit, TypeCorrect, PTL DEF Spec

\* A message sent into an existing chat and answered with SUCCESS is in the
\* conversation of its two users from then on, for any number of users, chats
\* (also several for one pair or one chat_id), requests, errors and crashes.
THEOREM SuccessStaysVisible == Spec => []SuccessIsVisible
<1>1. VisibleInv => SuccessIsVisible
  BY LookupsNow DEF VisibleInv, RequestInv, SeenOf, Own, SuccessIsVisible
<1> QED
  BY <1>1, VisibleInvariant, PTL

\* What a client was shown is the beginning of what it will be shown.
THEOREM ReadsArePrefixes == Spec => []ReadIsPrefix
<1>1. VisibleInv => ReadIsPrefix
  BY LookupsNow DEF VisibleInv, RequestInv, ReadOf, Own, ReadIsPrefix
<1> QED
  BY <1>1, VisibleInvariant, PTL

\* The chat_id that a handler carries from one call to the next is not stale.
THEOREM ChatIdStaysValid == Spec => []ChatIdNotStale
<1>1. VisibleInv => ChatIdNotStale
  BY LookupsNow DEF VisibleInv, RequestInv, IdOf, ChatOf, ChatIdNotStale
<1> QED
  BY <1>1, VisibleInvariant, PTL
=============================================================================
