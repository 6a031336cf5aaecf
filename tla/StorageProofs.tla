--------------------------- MODULE StorageProofs ----------------------------
(***************************************************************************)
(* Theorems about how the four collections fit together, for any number of *)
(* requests, errors and crashes: previews are of stored messages, messages *)
(* are of users of the chat, chat lists are of users and name a contact    *)
(* once.  None is inductive: the invariant also says what a request has    *)
(* stored, and what it has in its hands, at each of its calls.             *)
(***************************************************************************)
EXTENDS ServerProofs

----------------------------------------------------------------------------
(* The elements of sequences that are changed                              *)

LEMMA AppendSet ==
    ASSUME NEW S, NEW s \in Seq(S), NEW e \in S
    PROVE  ToSet(Append(s, e)) = ToSet(s) \cup {e}
<1>1. /\ Len(Append(s, e)) = Len(s) + 1 /\ Len(s) \in Nat
      /\ \A i \in 1..Len(s) : Append(s, e)[i] = s[i]
      /\ Append(s, e)[Len(s) + 1] = e
      /\ DOMAIN s = 1..Len(s) /\ DOMAIN Append(s, e) = 1..(Len(s) + 1)
  OBVIOUS
<1> QED
  BY <1>1 DEF ToSet

LEMMA ExceptSet ==
    ASSUME NEW S, NEW s \in Seq(S), NEW i \in 1..Len(s), NEW x \in S
    PROVE  ToSet([s EXCEPT ![i] = x]) \subseteq ToSet(s) \cup {x}
<1>1. /\ DOMAIN [s EXCEPT ![i] = x] = DOMAIN s
      /\ \A j \in DOMAIN s : [s EXCEPT ![i] = x][j] = IF j = i THEN x ELSE s[j]
  OBVIOUS
<1> QED
  BY <1>1 DEF ToSet

----------------------------------------------------------------------------
(* What is stored in given collections, and stays                          *)

\* A row gives the chat_id to the users a and b.
RowIn(ids, id, a, b) == \E c \in ToSet(ids) : c.chat_id = id /\ UsersOf(c) = {a, b}

\* The message e is in a document of a chat of a and b.
EntryIn(ids, docs, a, b, e) ==
    \E d \in ToSet(docs) : RowIn(ids, d.chat_id, a, b) /\ e \in ToSet(d.messages)

\* The item p of u's chat list previews a message of a chat with the contact.
PreviewIn(ids, docs, u, p) ==
    \E d \in ToSet(docs) :
        /\ RowIn(ids, d.chat_id, u, p.toUsername)
        /\ \E e \in ToSet(d.messages) :
              /\ e.message = p.lastMessage /\ e.time = p.lastMessageTime
              /\ e.sentBy \in {u, p.toUsername}

LEMMA StoredStays ==
    ASSUME NEW ids \in Seq(ChatId), NEW ids2 \in Seq(ChatId), ChatsKept(ids, ids2),
           NEW docs \in Seq(ChatLog), NEW docs2 \in Seq(ChatLog), LogsKept(docs, docs2)
    PROVE  /\ \A id, a, b : RowIn(ids, id, a, b) => RowIn(ids2, id, a, b)
           /\ \A a, b, e : EntryIn(ids, docs, a, b, e) => EntryIn(ids2, docs2, a, b, e)
           /\ \A u, p : PreviewIn(ids, docs, u, p) => PreviewIn(ids2, docs2, u, p)
<1>1. ToSet(ids) \subseteq ToSet(ids2)
  <2>1. /\ Len(ids) \in Nat /\ DOMAIN ids = 1..Len(ids)
        /\ Len(ids2) \in Nat /\ DOMAIN ids2 = 1..Len(ids2)
    OBVIOUS
  <2>2. ASSUME NEW i \in 1..Len(ids)
        PROVE  i \in 1..Len(ids2) /\ ids2[i] = ids[i]
    BY <2>1 DEF ChatsKept
  <2> QED
    BY <2>1, <2>2 DEF ToSet
<1>2. \A id, a, b : RowIn(ids, id, a, b) => RowIn(ids2, id, a, b)
  BY <1>1 DEF RowIn
<1>3. ASSUME NEW d \in ToSet(docs)
      PROVE  \E d2 \in ToSet(docs2) :
                 d2.chat_id = d.chat_id /\ ToSet(d.messages) \subseteq ToSet(d2.messages)
  <2>1. PICK i \in 1..Len(docs) : d = docs[i]
    BY <1>3, LenProperties DEF ToSet
  <2>2. i \in 1..Len(docs2) /\ docs2[i] \in ToSet(docs2)
    BY LenProperties DEF LogsKept, ToSet
  <2>3. docs[i].messages \in Seq(Entry) /\ docs2[i].messages \in Seq(Entry)
    <3>1. docs[i] \in ChatLog
      BY ElementOfSeq
    <3>2. docs2[i] \in ChatLog
      BY <2>2, ElementOfSeq
    <3> QED
      BY <3>1, <3>2 DEF ChatLog
  <2>4. IsPrefix(docs[i].messages, docs2[i].messages) /\ docs2[i].chat_id = docs[i].chat_id
    BY DEF LogsKept
  <2>5. ToSet(docs[i].messages) \subseteq ToSet(docs2[i].messages)
    BY <2>3, <2>4, PrefixFacts
  <2> QED
    BY <2>1, <2>2, <2>4, <2>5
<1>4. ASSUME NEW a, NEW b, NEW e, EntryIn(ids, docs, a, b, e)
      PROVE  EntryIn(ids2, docs2, a, b, e)
  <2>1. PICK d \in ToSet(docs) : RowIn(ids, d.chat_id, a, b) /\ e \in ToSet(d.messages)
    BY <1>4 DEF EntryIn
  <2>2. PICK d2 \in ToSet(docs2) :
           d2.chat_id = d.chat_id /\ ToSet(d.messages) \subseteq ToSet(d2.messages)
    BY <1>3
  <2>3. RowIn(ids2, d2.chat_id, a, b) /\ e \in ToSet(d2.messages)
    BY <1>2, <2>1, <2>2
  <2> QED
    BY <2>3 DEF EntryIn
<1>5. ASSUME NEW u, NEW p, PreviewIn(ids, docs, u, p)
      PROVE  PreviewIn(ids2, docs2, u, p)
  <2>1. PICK d \in ToSet(docs) :
           /\ RowIn(ids, d.chat_id, u, p.toUsername)
           /\ \E e \in ToSet(d.messages) :
                 /\ e.message = p.lastMessage /\ e.time = p.lastMessageTime
                 /\ e.sentBy \in {u, p.toUsername}
    BY <1>5 DEF PreviewIn
  <2>2. PICK d2 \in ToSet(docs2) :
           d2.chat_id = d.chat_id /\ ToSet(d.messages) \subseteq ToSet(d2.messages)
    BY <1>3
  <2>3. RowIn(ids2, d2.chat_id, u, p.toUsername)
    BY <1>2, <2>1, <2>2
  <2>4. \E e \in ToSet(d2.messages) :
           /\ e.message = p.lastMessage /\ e.time = p.lastMessageTime
           /\ e.sentBy \in {u, p.toUsername}
    BY <2>1, <2>2
  <2> QED
    BY <2>3, <2>4 DEF PreviewIn
<1> QED
  BY <1>2, <1>4, <1>5

\* Both users may preview a stored message.
LEMMA EntryPreview ==
    ASSUME NEW r \in Requests,
           EntryIn(chat_ids, chat_messages, call[r].from, call[r].to, EntryOf(r))
    PROVE  /\ PreviewIn(chat_ids, chat_messages, call[r].from, PreviewOf(r, call[r].to))
           /\ PreviewIn(chat_ids, chat_messages, call[r].to, PreviewOf(r, call[r].from))
<1>1. PICK d \in ToSet(chat_messages) :
         RowIn(chat_ids, d.chat_id, call[r].from, call[r].to) /\ EntryOf(r) \in ToSet(d.messages)
  BY DEF EntryIn
<1>2. RowIn(chat_ids, d.chat_id, call[r].to, call[r].from)
  BY <1>1 DEF RowIn
<1>3. /\ EntryOf(r).sentBy = call[r].from
      /\ EntryOf(r).message = call[r].message /\ EntryOf(r).time = local[r].time
  BY DEF EntryOf
<1>4. \A peer : /\ PreviewOf(r, peer).toUsername = peer
                /\ PreviewOf(r, peer).lastMessage = call[r].message
                /\ PreviewOf(r, peer).lastMessageTime = local[r].time
  BY DEF PreviewOf
<1> QED
  BY <1>1, <1>2, <1>3, <1>4 DEF PreviewIn

\* A user's chat list is in a document with that username.
LEMMA UserRowNames ==
    ASSUME user_messages \in Seq(ChatList), NEW u, UserRow(u) # 0
    PROVE  /\ UserRow(u) \in 1..Len(user_messages)
           /\ user_messages[UserRow(u)] \in ToSet(user_messages)
           /\ user_messages[UserRow(u)].username = u
           /\ user_messages[UserRow(u)].messages \in Seq(Preview)
<1> DEFINE I == {i \in 1..Len(user_messages) : user_messages[i].username = u}
<1>1. UserRow(u) = IF I # {} THEN Min(I) ELSE 0
  BY Zenon DEF UserRow, SelectInSeq
<1>2. I \subseteq 1..Len(user_messages) /\ Len(user_messages) \in Nat
  BY LenProperties
<1>3. UserRow(u) \in I
  <2> HIDE DEF I
  <2> QED
    BY <1>1, <1>2, FirstMatch
<1>4. user_messages[UserRow(u)] \in ChatList
  BY <1>3, ElementOfSeq
<1> QED
  BY <1>3, <1>4, LenProperties DEF ChatList, ToSet

Unique(rows) ==
    \A j, k \in DOMAIN rows : rows[j].toUsername = rows[k].toUsername => j = k

\* The list with the new message at the peer's index still names a contact once.
LEMMA UpdatedRows ==
    ASSUME NEW r \in Requests, NEW peer, PreviewOf(r, peer) \in Preview,
           NEW rows \in Seq(Preview), Unique(rows)
    PROVE  /\ Unique(Updated(rows, r, peer))
           /\ ToSet(Updated(rows, r, peer)) \subseteq ToSet(rows) \cup {PreviewOf(r, peer)}
<1> DEFINE idx == PeerIdx(rows, peer)
           p == PreviewOf(r, peer)
<1>1. /\ Len(rows) \in Nat /\ DOMAIN rows = 1..Len(rows)
      /\ idx \in 0..Len(rows)
      /\ idx # 0 => rows[idx].toUsername = peer
      /\ idx = 0 => \A i \in 1..Len(rows) : rows[i].toUsername # peer
  BY LenProperties, PeerIdxLemma
<1>2. p.toUsername = peer /\ p \in Preview
  BY DEF PreviewOf
<1>3. CASE idx # 0
  <2>1. Updated(rows, r, peer) = [rows EXCEPT ![idx] = p]
    BY <1>3 DEF Updated, ReplaceAt
  <2>2. idx \in 1..Len(rows)
    <3> HIDE DEF idx
    <3> QED
      BY <1>1, <1>3
  <2>3. ToSet(Updated(rows, r, peer)) \subseteq ToSet(rows) \cup {p}
    <3> HIDE DEF idx, p
    <3> QED
      BY <1>2, <2>1, <2>2, ExceptSet
  <2>4. Unique(Updated(rows, r, peer))
    <3> HIDE DEF idx, p
    <3>1. /\ DOMAIN Updated(rows, r, peer) = DOMAIN rows
          /\ \A i \in DOMAIN rows :
                Updated(rows, r, peer)[i].toUsername = rows[i].toUsername
      BY <1>1, <1>2, <1>3, <2>1, <2>2
    <3> QED
      BY <3>1 DEF Unique
  <2> QED
    BY <2>3, <2>4
<1>4. CASE idx = 0
  <2>1. Updated(rows, r, peer) = Append(rows, p)
    BY <1>4 DEF Updated
  <2>2. ToSet(Updated(rows, r, peer)) \subseteq ToSet(rows) \cup {p}
    <3> HIDE DEF p
    <3> QED
      BY <1>2, <2>1, AppendSet
  <2>3. Unique(Updated(rows, r, peer))
    <3> HIDE DEF idx, p
    <3>1. /\ DOMAIN Append(rows, p) = 1..(Len(rows) + 1)
          /\ \A i \in 1..Len(rows) : Append(rows, p)[i] = rows[i]
          /\ Append(rows, p)[Len(rows) + 1] = p
      BY <1>1, <1>2
    <3>2. ASSUME NEW j \in 1..(Len(rows) + 1), NEW k \in 1..(Len(rows) + 1),
                 Append(rows, p)[j].toUsername = Append(rows, p)[k].toUsername
          PROVE  j = k
      <4>1. CASE j \in 1..Len(rows) /\ k \in 1..Len(rows)
        BY <1>1, <3>1, <3>2, <4>1 DEF Unique
      <4>2. CASE j = Len(rows) + 1 /\ k \in 1..Len(rows)
        BY <1>1, <1>2, <1>4, <3>1, <3>2, <4>2
      <4>3. CASE k = Len(rows) + 1 /\ j \in 1..Len(rows)
        BY <1>1, <1>2, <1>4, <3>1, <3>2, <4>3
      <4> QED
        BY <1>1, <4>1, <4>2, <4>3
    <3> QED
      BY <2>1, <3>1, <3>2 DEF Unique
  <2> QED
    BY <2>2, <2>3
<1> QED
  BY <1>3, <1>4

----------------------------------------------------------------------------
(* The invariant                                                           *)

Previewed(u, p) == PreviewIn(chat_ids, chat_messages, u, p)

\* Before a request stores its message, the chat of its users has the chat_id.
RowOf(r) ==
    pc[r] \in {"pushMessage", "insertMessages"} =>
        RowIn(chat_ids, local[r].chat, call[r].from, call[r].to)

\* While it updates the chat lists, its message is stored, also in a new chat.
StoredOf(r) ==
    pc[r] \in UpdateCalls =>
        EntryIn(chat_ids, chat_messages, call[r].from, call[r].to, EntryOf(r))

\* The chat list that it is about to write is one the owner may have.
RowsOf(r) ==
    /\ pc[r] = "writeSender" =>
          \A p \in ToSet(local[r].rows) : Previewed(call[r].from, p)
    /\ pc[r] = "writeRecipient" =>
          \A p \in ToSet(local[r].rows) : Previewed(call[r].to, p)
    /\ pc[r] \in {"writeSender", "writeRecipient"} => Unique(local[r].rows)

\* A sign-up has inserted the user when it inserts the chat list.
UserOf(r) == pc[r] = "insertRow" => call[r].from \in ToSet(users)

\* The chat list that was answered is one the user could have.
ListOf(r) ==
    call[r].op = "getUserChats" /\ reply[r].status = "SUCCESS" =>
        /\ reply[r].body \in Seq(Preview)
        /\ \A p \in ToSet(reply[r].body) : Previewed(call[r].from, p)

HoldsInv(r) == RowOf(r) /\ StoredOf(r) /\ RowsOf(r) /\ UserOf(r) /\ ListOf(r)

RowsPreviewed ==
    \A row \in ToSet(user_messages) : \A p \in ToSet(row.messages) :
        Previewed(row.username, p)

RowsUnique == \A row \in ToSet(user_messages) : Unique(row.messages)

CollectionsInv ==
    RowsPreviewed /\ RowsUnique /\ SenderIsInChat /\ ChatListHasUser

StorageInv ==
    VisibleInv /\ CollectionsInv /\ \A r \in Requests : HoldsInv(r)

LEMMA StorageInit == Init => StorageInv
<1> SUFFICES ASSUME Init PROVE StorageInv
  OBVIOUS
<1>1. VisibleInv
  BY VisibleInit
<1>2. DOMAIN Registered = 1..Len(Registered)
  BY RegisteredAssumption, LenProperties
<1>3. \A row \in ToSet(user_messages) :
         row.messages = <<>> /\ row.username \in ToSet(users)
  BY <1>2 DEF Init, ToSet
<1>4. ToSet(<<>>) = {} /\ Unique(<<>>)
  BY DEF ToSet, Unique
<1>5. CollectionsInv
  BY <1>3, <1>4 DEF CollectionsInv, RowsPreviewed, RowsUnique, SenderIsInChat,
                    ChatListHasUser, Init
<1>6. \A r \in Requests : HoldsInv(r)
  BY DEF Init, Idle, NoReply, UpdateCalls, HoldsInv, RowOf, StoredOf, RowsOf, UserOf,
         ListOf
<1> QED
  BY <1>1, <1>5, <1>6 DEF StorageInv

----------------------------------------------------------------------------
(* Writes                                                                  *)

\* The write that a request has reached
WriteOf(r) ==
    \/ pc[r] = "pushMessage"    /\ AppendEntry(r)
    \/ pc[r] = "insertChatId"   /\ AddChatId(r)
    \/ pc[r] = "insertMessages" /\ AddLog(r)
    \/ pc[r] = "writeSender"    /\ SetRow(r, call[r].from)
    \/ pc[r] = "writeRecipient" /\ SetRow(r, call[r].to)
    \/ pc[r] = "insertUser"     /\ AddUser(r)
    \/ pc[r] = "insertRow"      /\ AddRow(r)

LEMMA StepWrites ==
    ASSUME NEW r \in Requests, Step(r) \/ AckLost(r)
    PROVE  UNCHANGED database \/ WriteOf(r)
<1>1. CASE AckLost(r)
  BY <1>1 DEF AckLost, WriteOf
<1>2. CASE \/ ListUsernames(r) \/ FindChats(r) \/ CheckRecipient(r) \/ FindChat(r)
           \/ FindMessages(r) \/ AllocateChatId(r) \/ ReadSender(r) \/ ReadRecipient(r)
  BY <1>2 DEF ListUsernames, FindChats, CheckRecipient, FindChat, FindMessages,
              AllocateChatId, ReadSender, ReadRecipient, ReadRow
<1>3. CASE \/ PushMessage(r) \/ InsertChatId(r) \/ InsertMessages(r)
           \/ WriteSender(r) \/ WriteRecipient(r) \/ InsertUser(r) \/ InsertRow(r)
  BY <1>3 DEF PushMessage, InsertChatId, InsertMessages, WriteSender,
              WriteRecipient, InsertUser, InsertRow, WriteOf
<1> QED
  BY <1>1, <1>2, <1>3, Zenon
     DEF Step, getExistingUsernames, getUserChats, getUserChatMessages,
         sendMessage, sendNewMessage, addNewUser, UpdatePreviews

LEMMA NextWrites == [Next]_vars => UNCHANGED database \/ \E r \in Requests : WriteOf(r)
<1>1. ASSUME NEW r \in Requests, Receive(r) \/ CallFails(r)
      PROVE  UNCHANGED database
  BY <1>1 DEF Receive, CallFails
<1>2. CASE Crash \/ Tick \/ UNCHANGED vars
  BY <1>2 DEF Crash, Tick, vars, database
<1> QED
  BY <1>1, <1>2, StepWrites DEF Next

\* What is stored stays stored, and users stay.
LEMMA StorageGrows ==
    ASSUME TypeOK, TypeOK', [Next]_vars
    PROVE  /\ \A id, a, b : RowIn(chat_ids, id, a, b) => RowIn(chat_ids', id, a, b)
           /\ \A a, b, e : EntryIn(chat_ids, chat_messages, a, b, e) =>
                              EntryIn(chat_ids', chat_messages', a, b, e)
           /\ \A u, p : Previewed(u, p) => Previewed(u, p)'
           /\ ToSet(users) \subseteq ToSet(users')
<1>1. ChatsKept(chat_ids, chat_ids') /\ LogsKept(chat_messages, chat_messages')
  BY StepKeeps
<1>2. /\ chat_ids \in Seq(ChatId) /\ chat_ids' \in Seq(ChatId)
      /\ chat_messages \in Seq(ChatLog) /\ chat_messages' \in Seq(ChatLog)
  BY DEF TypeOK, DatabaseOK
<1>3. ToSet(users) \subseteq ToSet(users')
  <2>1. CASE UNCHANGED users
    BY <2>1
  <2>2. ASSUME NEW r \in Requests, pc[r] = "insertUser", AddUser(r)
        PROVE  ToSet(users) \subseteq ToSet(users')
    <3>1. call[r].from \in Names
      BY <2>2, RequestTypes DEF TypeOK
    <3> QED
      BY <2>2, <3>1, AppendSet DEF AddUser, TypeOK, DatabaseOK
  <2> QED
    BY <2>1, <2>2, NextWrites
       DEF database, WriteOf, AppendEntry, AddChatId, AddLog, SetRow, AddRow
<1> QED
  BY <1>1, <1>2, <1>3, StoredStays DEF Previewed

\* A user row is overwritten with rows that its owner may have.
LEMMA SetRowKeeps ==
    ASSUME StorageInv, TypeOK', NEW r \in Requests, pc[r] # "idle",
           NEW owner, SetRow(r, owner),
           \A p \in ToSet(local[r].rows) : Previewed(owner, p),
           Unique(local[r].rows)
    PROVE  CollectionsInv'
<1>1. UNCHANGED <<users, chat_ids, chat_messages>>
  BY DEF SetRow
<1>2. /\ RowsPreviewed /\ RowsUnique /\ SenderIsInChat /\ ChatListHasUser
      /\ user_messages \in Seq(ChatList) /\ local[r].rows \in Seq(Preview)
  BY RequestTypes DEF StorageInv, CollectionsInv, VisibleInv, TypeOK, DatabaseOK, Local
<1>3. SenderIsInChat'
  BY <1>1, <1>2 DEF SenderIsInChat
<1>4. \A row \in ToSet(user_messages') :
         \/ row \in ToSet(user_messages)
         \/ /\ row.username = owner /\ row.messages = local[r].rows
            /\ row.username \in ToSet(users)
  <2>1. CASE UserRow(owner) = 0
    BY <2>1 DEF SetRow
  <2>2. CASE UserRow(owner) # 0
    <3> DEFINE old == user_messages[UserRow(owner)]
               new == [old EXCEPT !.messages = local[r].rows]
    <3>1. /\ UserRow(owner) \in 1..Len(user_messages)
          /\ old \in ToSet(user_messages) /\ old.username = owner
      BY <1>2, <2>2, UserRowNames
    <3>2. old \in ChatList
      BY <1>2, <3>1, ElementOfSeq
    <3>3. new \in ChatList /\ new.username = owner /\ new.messages = local[r].rows
      BY <1>2, <3>1, <3>2 DEF ChatList
    <3>4. user_messages' = [user_messages EXCEPT ![UserRow(owner)] = new]
      BY <2>2 DEF SetRow
    <3>5. ToSet(user_messages') \subseteq ToSet(user_messages) \cup {new}
      <4> HIDE DEF new
      <4> QED
        BY <1>2, <3>1, <3>3, <3>4, ExceptSet
    <3>6. owner \in ToSet(users)
      BY <1>2, <3>1 DEF ChatListHasUser
    <3> HIDE DEF new
    <3> QED
      BY <3>3, <3>5, <3>6
  <2> QED
    BY <2>1, <2>2
<1>5. RowsPreviewed'
  BY <1>1, <1>2, <1>4 DEF RowsPreviewed, Previewed
<1>6. RowsUnique'
  BY <1>2, <1>4 DEF RowsUnique
<1>7. ChatListHasUser'
  BY <1>1, <1>2, <1>4 DEF ChatListHasUser
<1> QED
  BY <1>3, <1>5, <1>6, <1>7 DEF CollectionsInv

\* What is not written keeps fitting to what is.
LEMMA UnwrittenKeeps ==
    ASSUME StorageInv, TypeOK', [Next]_vars
    PROVE  /\ UNCHANGED user_messages => RowsPreviewed' /\ RowsUnique' /\ ChatListHasUser'
           /\ UNCHANGED chat_messages => SenderIsInChat'
<1>1. /\ RowsPreviewed /\ RowsUnique /\ SenderIsInChat /\ ChatListHasUser /\ TypeOK
  BY DEF StorageInv, CollectionsInv, VisibleInv
<1>2. /\ \A u, p : Previewed(u, p) => Previewed(u, p)'
      /\ ToSet(users) \subseteq ToSet(users')
      /\ ToSet(chat_ids) \subseteq ToSet(chat_ids')
  <2>1. ChatsKept(chat_ids, chat_ids')
    BY <1>1, StepKeeps
  <2>2. ToSet(chat_ids) \subseteq ToSet(chat_ids')
    <3>1. chat_ids \in Seq(ChatId) /\ chat_ids' \in Seq(ChatId)
      BY <1>1 DEF TypeOK, DatabaseOK
    <3> QED
      BY <2>1, <3>1, LenProperties DEF ChatsKept, ToSet
  <2> QED
    BY <1>1, <2>2, StorageGrows
<1>3. ASSUME UNCHANGED user_messages
      PROVE  RowsPreviewed' /\ RowsUnique' /\ ChatListHasUser'
  BY <1>1, <1>2, <1>3 DEF RowsPreviewed, RowsUnique, ChatListHasUser
<1>4. ASSUME UNCHANGED chat_messages
      PROVE  SenderIsInChat'
  BY <1>1, <1>2, <1>4 DEF SenderIsInChat
<1> QED
  BY <1>3, <1>4

\* Every message that is stored was sent by a user of a chat with the chat_id.
LEMMA StoreKeeps ==
    ASSUME StorageInv, TypeOK', [Next]_vars, NEW r \in Requests,
           \/ pc[r] = "pushMessage" /\ AppendEntry(r)
           \/ pc[r] = "insertMessages" /\ AddLog(r)
    PROVE  SenderIsInChat'
<1>1. /\ SenderIsInChat /\ TypeOK /\ RowIn(chat_ids, local[r].chat, call[r].from, call[r].to)
  BY DEF StorageInv, CollectionsInv, VisibleInv, HoldsInv, RowOf
<1>2. PICK c \in ToSet(chat_ids) :
         c.chat_id = local[r].chat /\ UsersOf(c) = {call[r].from, call[r].to}
  BY <1>1 DEF RowIn
<1>3. EntryOf(r).sentBy \in UsersOf(c) /\ UNCHANGED chat_ids
  BY <1>2 DEF EntryOf, AppendEntry, AddLog
<1>4. pc[r] # "idle" /\ EntryOf(r) \in Entry
  BY <1>1, RequestTypes DEF TypeOK
<1>5. ASSUME NEW d \in ToSet(chat_messages'), NEW e \in ToSet(d.messages)
      PROVE  \/ \E d0 \in ToSet(chat_messages) :
                   d0.chat_id = d.chat_id /\ e \in ToSet(d0.messages)
             \/ d.chat_id = local[r].chat /\ e = EntryOf(r)
  <2>1. CASE AddLog(r)
    <3> DEFINE new == [chat_id |-> local[r].chat, messages |-> <<EntryOf(r)>>]
    <3>1. new \in ChatLog
      BY <1>1, <1>4, RequestTypes DEF ChatLog, Local, TypeOK
    <3>2. d \in ToSet(chat_messages) \cup {new}
      <4> HIDE DEF new
      <4>1. chat_messages' = Append(chat_messages, new)
        BY <2>1 DEF AddLog, new
      <4> QED
        BY <1>1, <1>5, <3>1, <4>1, AppendSet DEF TypeOK, DatabaseOK
    <3>3. ToSet(<<EntryOf(r)>>) = {EntryOf(r)}
      BY DEF ToSet
    <3> QED
      BY <1>5, <3>2, <3>3
  <2>2. CASE AppendEntry(r) /\ Log(local[r].chat) = 0
    BY <1>5, <2>2 DEF AppendEntry
  <2>3. CASE AppendEntry(r) /\ Log(local[r].chat) # 0
    <3>1. PICK doc : doc = Log(local[r].chat)
      OBVIOUS
    <3>2. /\ doc \in 1..Len(chat_messages)
          /\ chat_messages[doc].chat_id = local[r].chat
          /\ chat_messages[doc].messages \in Seq(Entry)
          /\ Len(chat_messages') = Len(chat_messages)
          /\ \A i \in 1..Len(chat_messages) :
                /\ chat_messages'[i].chat_id = chat_messages[i].chat_id
                /\ i # doc => chat_messages'[i] = chat_messages[i]
          /\ chat_messages'[doc].messages =
                Append(chat_messages[doc].messages, EntryOf(r))
      <4>1. Pushed(r, doc)
        BY <1>1, <1>4, <2>3, <3>1, PushEffect
      <4> QED
        BY <4>1 DEF Pushed
    <3>3. ToSet(chat_messages'[doc].messages) =
             ToSet(chat_messages[doc].messages) \cup {EntryOf(r)}
      BY <1>4, <3>2, AppendSet
    <3>4. /\ DOMAIN chat_messages = 1..Len(chat_messages)
          /\ DOMAIN chat_messages' = 1..Len(chat_messages')
      BY <1>1, LenProperties DEF TypeOK, DatabaseOK
    <3>5. PICK i \in 1..Len(chat_messages) : d = chat_messages'[i]
      BY <1>5, <3>2, <3>4 DEF ToSet
    <3>6. chat_messages[i] \in ToSet(chat_messages)
      BY <3>4 DEF ToSet
    <3>7. CASE i = doc
      BY <1>5, <3>2, <3>3, <3>5, <3>6, <3>7
    <3>8. CASE i # doc
      BY <1>5, <3>2, <3>5, <3>6, <3>8
    <3> QED
      BY <3>7, <3>8
  <2> QED
    BY <2>1, <2>2, <2>3
<1> QED
  BY <1>1, <1>2, <1>3, <1>5 DEF SenderIsInChat

LEMMA CollectionsStep ==
    ASSUME StorageInv, TypeOK', [Next]_vars
    PROVE  CollectionsInv'
<1>1. TypeOK /\ RowsPreviewed /\ RowsUnique /\ ChatListHasUser
  BY DEF StorageInv, VisibleInv, CollectionsInv
<1>2. ASSUME UNCHANGED user_messages, SenderIsInChat'
      PROVE  CollectionsInv'
  BY <1>2, UnwrittenKeeps DEF CollectionsInv
<1>3. CASE UNCHANGED database
  BY <1>2, <1>3, UnwrittenKeeps DEF database
<1>4. ASSUME NEW r \in Requests, WriteOf(r)
      PROVE  CollectionsInv'
  <2>1. CASE AddChatId(r) \/ AddUser(r)
    BY <1>2, <2>1, UnwrittenKeeps DEF AddChatId, AddUser
  <2>2. CASE \/ pc[r] = "pushMessage" /\ AppendEntry(r)
             \/ pc[r] = "insertMessages" /\ AddLog(r)
    BY <1>2, <2>2, StoreKeeps DEF AppendEntry, AddLog
  <2>3. CASE pc[r] = "writeSender" /\ SetRow(r, call[r].from)
    BY <2>3, SetRowKeeps DEF StorageInv, HoldsInv, RowsOf
  <2>4. CASE pc[r] = "writeRecipient" /\ SetRow(r, call[r].to)
    BY <2>4, SetRowKeeps DEF StorageInv, HoldsInv, RowsOf
  <2>5. CASE pc[r] = "insertRow" /\ AddRow(r)
    <3> DEFINE new == [username |-> call[r].from, messages |-> <<>>]
    <3>1. new \in ChatList
      BY <1>1, <2>5, RequestTypes DEF ChatList, TypeOK
    <3>2. ToSet(user_messages') = ToSet(user_messages) \cup {new}
      <4> HIDE DEF new
      <4>1. user_messages' = Append(user_messages, new)
        BY <2>5 DEF AddRow, new
      <4> QED
        BY <1>1, <3>1, <4>1, AppendSet DEF TypeOK, DatabaseOK
    <3>3. UNCHANGED <<users, chat_ids, chat_messages>> /\ call[r].from \in ToSet(users)
      BY <2>5 DEF AddRow, StorageInv, HoldsInv, UserOf
    <3>4. ToSet(<<>>) = {} /\ Unique(<<>>)
      BY DEF ToSet, Unique
    <3>5. RowsPreviewed' /\ RowsUnique' /\ ChatListHasUser'
      BY <1>1, <3>2, <3>3, <3>4 DEF RowsPreviewed, Previewed, RowsUnique, ChatListHasUser
    <3> QED
      BY <3>3, <3>5, UnwrittenKeeps DEF CollectionsInv
  <2> QED
    BY <1>4, <2>1, <2>2, <2>3, <2>4, <2>5 DEF WriteOf
<1> QED
  BY <1>3, <1>4, NextWrites

----------------------------------------------------------------------------
(* Requests                                                                *)

\* What a list that was answered previews stays stored.
LEMMA ListStays ==
    ASSUME TypeOK, TypeOK', [Next]_vars, NEW r \in Requests, ListOf(r),
           UNCHANGED <<call[r], reply[r]>>
    PROVE  ListOf(r)'
BY StorageGrows DEF ListOf

\* A request that does nothing keeps its part of the invariant.
LEMMA OtherHolds ==
    ASSUME TypeOK, TypeOK', [Next]_vars, NEW r \in Requests, HoldsInv(r),
           UNCHANGED <<call[r], local[r], reply[r]>>,
           pc'[r] = pc[r] \/ pc'[r] = "lost"
    PROVE  HoldsInv(r)'
<1>1. ListOf(r)'
  BY ListStays DEF HoldsInv
<1>2. EntryOf(r)' = EntryOf(r)
  BY DEF EntryOf
<1>3. CASE pc'[r] = pc[r]
  <2>1. RowOf(r)' /\ StoredOf(r)' /\ UserOf(r)'
    BY <1>2, <1>3, StorageGrows DEF HoldsInv, RowOf, StoredOf, UserOf
  <2>2. RowsOf(r)'
    BY <1>3, StorageGrows DEF HoldsInv, RowsOf
  <2> QED
    BY <1>1, <2>1, <2>2 DEF HoldsInv
<1>4. CASE pc'[r] = "lost"
  BY <1>1, <1>4 DEF HoldsInv, RowOf, StoredOf, RowsOf, UserOf, UpdateCalls
<1> QED
  BY <1>3, <1>4

\* A request that is over only has to have answered with a list that is true.
LEMMA AnswerHolds ==
    ASSUME TypeOK, NEW r \in Requests, NEW status, NEW body, Send(r, status, body),
           UNCHANGED call,
           call[r].op = "getUserChats" /\ status = "SUCCESS" =>
               body \in Seq(Preview) /\ \A p \in ToSet(body) : Previewed(call[r].from, p)'
    PROVE  HoldsInv(r)'
<1>1. pc'[r] = "done" /\ reply'[r].status = status /\ reply'[r].body = body
  BY SendFacts
<1>2. ListOf(r)'
  BY <1>1 DEF ListOf
<1> QED
  BY <1>1, <1>2 DEF HoldsInv, RowOf, StoredOf, RowsOf, UserOf, UpdateCalls

LEMMA ErrorHolds ==
    ASSUME TypeOK, NEW r \in Requests, SendError(r), UNCHANGED call
    PROVE  HoldsInv(r)'
BY AnswerHolds DEF SendError

\* A message that was pushed or inserted is stored in the chat of its users.
LEMMA WriteStores ==
    ASSUME TypeOK, TypeOK', [Next]_vars, NEW r \in Requests, RowOf(r),
           \/ PushMessage(r) /\ PushModifies(r)
           \/ InsertMessages(r)
    PROVE  EntryIn(chat_ids', chat_messages', call[r].from, call[r].to, EntryOf(r))
<1>1. /\ pc[r] # "idle" /\ EntryOf(r) \in Entry
      /\ RowIn(chat_ids', local[r].chat, call[r].from, call[r].to)
  <2>1. pc[r] \in {"pushMessage", "insertMessages"}
    BY DEF PushMessage, InsertMessages
  <2> QED
    BY <2>1, RequestTypes, StorageGrows DEF RowOf, TypeOK
<1>2. DOMAIN chat_messages' = 1..Len(chat_messages')
  BY LenProperties DEF TypeOK, DatabaseOK
<1>3. CASE PushMessage(r) /\ PushModifies(r)
  <2>1. PICK doc : doc = Log(local[r].chat) /\ doc # 0
    BY <1>3 DEF PushModifies
  <2>5. AppendEntry(r)
    BY <1>3 DEF PushMessage
  <2>2. /\ doc \in 1..Len(chat_messages)
        /\ chat_messages[doc].chat_id = local[r].chat
        /\ chat_messages[doc].messages \in Seq(Entry)
        /\ Len(chat_messages') = Len(chat_messages)
        /\ chat_messages'[doc].chat_id = chat_messages[doc].chat_id
        /\ chat_messages'[doc].messages =
              Append(chat_messages[doc].messages, EntryOf(r))
    <3>1. Pushed(r, doc)
      BY <1>1, <2>1, <2>5, PushEffect
    <3> QED
      BY <3>1 DEF Pushed
  <2>3. EntryOf(r) \in ToSet(chat_messages'[doc].messages)
    BY <1>1, <2>2, AppendSet
  <2>4. chat_messages'[doc] \in ToSet(chat_messages')
    BY <1>2, <2>2 DEF ToSet
  <2> QED
    BY <1>1, <2>2, <2>3, <2>4 DEF EntryIn
<1>4. CASE InsertMessages(r)
  <2> DEFINE new == [chat_id |-> local[r].chat, messages |-> <<EntryOf(r)>>]
  <2>1. new \in ChatLog
    BY <1>1, RequestTypes DEF ChatLog, Local, TypeOK
  <2>2. new \in ToSet(chat_messages')
    <3> HIDE DEF new
    <3>1. chat_messages' = Append(chat_messages, new)
      BY <1>4 DEF InsertMessages, AddLog, new
    <3> QED
      BY <2>1, <3>1, AppendSet DEF TypeOK, DatabaseOK
  <2>3. new.chat_id = local[r].chat /\ EntryOf(r) \in ToSet(new.messages)
    BY DEF ToSet
  <2> HIDE DEF new
  <2> QED
    BY <1>1, <2>2, <2>3 DEF EntryIn
<1> QED
  BY <1>3, <1>4

\* The list that was read, with the new message, is one that its owner may have.
LEMMA ReadRowHolds ==
    ASSUME StorageInv, TypeOK', [Next]_vars, NEW r \in Requests, pc[r] \in UpdateCalls,
           \/ ReadRow(r, call[r].from, call[r].to, "writeSender")
           \/ ReadRow(r, call[r].to, call[r].from, "writeRecipient")
    PROVE  HoldsInv(r)'
<1>1. /\ TypeOK /\ HoldsInv(r) /\ RowsPreviewed /\ RowsUnique /\ pc[r] # "idle"
      /\ call[r].from \in Names /\ call[r].to \in Names
  BY RequestTypes DEF StorageInv, VisibleInv, CollectionsInv, TypeOK, UpdateCalls
<1>2. UNCHANGED <<database, call>>
  BY DEF ReadRow
<1>3. CASE SendError(r)
  BY <1>1, <1>2, <1>3, ErrorHolds
<1>4. ASSUME NEW owner \in {call[r].from, call[r].to}, NEW peer \in {call[r].from, call[r].to},
             NEW next \in {"writeSender", "writeRecipient"}, UserRow(owner) # 0,
             Previewed(owner, PreviewOf(r, peer)),
             next = "writeSender" => owner = call[r].from,
             next = "writeRecipient" => owner = call[r].to,
             local' = [local EXCEPT ![r].rows =
                          Updated(user_messages[UserRow(owner)].messages, r, peer)],
             Await(r, next)
      PROVE  HoldsInv(r)'
  <2> DEFINE old == user_messages[UserRow(owner)].messages
             rows == Updated(old, r, peer)
  <2>1. /\ pc'[r] = next /\ reply'[r] = reply[r]
        /\ local'[r].time = local[r].time /\ local'[r].rows = rows
    BY <1>1, <1>4, AwaitFacts DEF TypeOK, RequestsOK, Local
  <2>2. /\ old \in Seq(Preview) /\ Unique(old)
        /\ \A p \in ToSet(old) : Previewed(owner, p)
    BY <1>1, <1>4, UserRowNames DEF TypeOK, DatabaseOK, RowsPreviewed, RowsUnique
  <2>3. PreviewOf(r, peer) \in Preview
    BY <1>1, RequestTypes DEF TypeOK
  <2>4. Unique(rows) /\ \A p \in ToSet(rows) : Previewed(owner, p)
    <3> HIDE DEF old
    <3> QED
      BY <1>4, <2>2, <2>3, UpdatedRows
  <2>5. \A p : Previewed(owner, p) => Previewed(owner, p)'
    BY <1>1, StorageGrows
  <2>6. RowsOf(r)'
    <3> HIDE DEF rows
    <3> QED
      BY <1>2, <1>4, <2>1, <2>4, <2>5 DEF RowsOf
  <2>7. StoredOf(r)'
    <3>1. EntryOf(r)' = EntryOf(r)
      BY <1>2, <2>1 DEF EntryOf
    <3> QED
      BY <1>1, <1>2, <3>1, StorageGrows DEF HoldsInv, StoredOf
  <2>8. ListOf(r)'
    BY <1>1, <1>2, <2>1, ListStays DEF HoldsInv
  <2> QED
    BY <2>1, <2>6, <2>7, <2>8 DEF HoldsInv, RowOf, UserOf
<1>5. /\ Previewed(call[r].from, PreviewOf(r, call[r].to))
      /\ Previewed(call[r].to, PreviewOf(r, call[r].from))
  BY <1>1, EntryPreview DEF HoldsInv, StoredOf, Previewed
<1>6. CASE ReadRow(r, call[r].from, call[r].to, "writeSender")
  BY <1>3, <1>4, <1>5, <1>6 DEF ReadRow
<1>7. CASE ReadRow(r, call[r].to, call[r].from, "writeRecipient")
  BY <1>3, <1>4, <1>5, <1>7 DEF ReadRow
<1> QED
  BY <1>6, <1>7

\* The answer of getUserChats is the user's list in another order.
LEMMA FindChatsHolds ==
    ASSUME StorageInv, TypeOK', [Next]_vars, NEW r \in Requests, FindChats(r)
    PROVE  HoldsInv(r)'
<1>1. /\ TypeOK /\ RowsPreviewed
      /\ UNCHANGED call /\ \A u, p : Previewed(u, p) => Previewed(u, p)'
  BY StorageGrows DEF StorageInv, VisibleInv, CollectionsInv, FindChats
<1>2. CASE Send(r, "SUCCESS", <<>>)
  <2>1. ToSet(<<>>) = {} /\ <<>> \in Seq(Preview)
    BY DEF ToSet
  <2> QED
    BY <1>1, <1>2, <2>1, AnswerHolds
<1>3. ASSUME UserRow(call[r].from) # 0,
             NEW chats \in LatestFirst(user_messages[UserRow(call[r].from)].messages),
             Send(r, "SUCCESS", chats)
      PROVE  HoldsInv(r)'
  <2> DEFINE old == user_messages[UserRow(call[r].from)].messages
  <2>1. /\ old \in Seq(Preview)
        /\ \A p \in ToSet(old) : Previewed(call[r].from, p)
    BY <1>1, <1>3, UserRowNames DEF TypeOK, DatabaseOK, RowsPreviewed
  <2>2. chats \in [DOMAIN old -> ToSet(old)]
    BY <1>3 DEF LatestFirst
  <2>3. /\ DOMAIN old = 1..Len(old) /\ Len(old) \in Nat
        /\ ToSet(old) \subseteq Preview
    <3>1. \A i \in 1..Len(old) : old[i] \in Preview
      BY <2>1, ElementOfSeq
    <3> QED
      BY <2>1, <3>1, LenProperties DEF ToSet
  <2> HIDE DEF old
  <2>4. chats \in Seq(Preview)
    BY <2>2, <2>3
  <2>5. ToSet(chats) \subseteq ToSet(old)
    BY <2>2 DEF ToSet
  <2> QED
    BY <1>1, <1>3, <2>1, <2>4, <2>5, AnswerHolds
<1> QED
  BY <1>2, <1>3 DEF FindChats

LEMMA ActorHolds ==
    ASSUME StorageInv, TypeOK', [Next]_vars, NEW r \in Requests, Receive(r) \/ Step(r)
    PROVE  HoldsInv(r)'
<1>1. TypeOK /\ HoldsInv(r) /\ ControlOf(r)
  BY DEF StorageInv, VisibleInv, RequestInv
<1>2. CASE Receive(r)
  <2>1. PICK c \in Calls : /\ call' = [call EXCEPT ![r] = c]
                           /\ Await(r, FirstCall(c.op))
    BY <1>2 DEF Receive
  <2>2. pc'[r] = FirstCall(c.op) /\ reply'[r] = reply[r] /\ c.op \in Handlers
    BY <1>1, <2>1, CallsAssumption, AwaitFacts DEF Call
  <2>3. pc'[r] \in {"listUsers", "findRow", "findChat", "insertUser"}
    BY <2>2 DEF FirstCall, Handlers
  <2>4. reply'[r].status = "none"
    BY <1>1, <1>2, <2>2 DEF Receive, ControlOf
  <2> QED
    BY <2>3, <2>4 DEF HoldsInv, RowOf, StoredOf, RowsOf, UserOf, ListOf, UpdateCalls
<1>3. ASSUME UNCHANGED call, local'[r].time = local[r].time,
             NEW step \in {"findChat", "findMessages", "pushMessage", "lastChatId",
                           "insertChatId", "insertMessages", "readSender",
                           "readRecipient", "insertRow"},
             Await(r, step),
             step \in {"pushMessage", "insertMessages"} =>
                 RowIn(chat_ids', local'[r].chat, call[r].from, call[r].to),
             step \in {"readSender", "readRecipient"} =>
                 EntryIn(chat_ids', chat_messages', call[r].from, call[r].to, EntryOf(r)),
             step = "insertRow" => call[r].from \in ToSet(users')
      PROVE  HoldsInv(r)'
  <2>1. pc'[r] = step /\ reply'[r] = reply[r]
    BY <1>1, <1>3, AwaitFacts
  <2>2. ListOf(r)' /\ EntryOf(r)' = EntryOf(r)
    BY <1>1, <1>3, <2>1, ListStays DEF HoldsInv, EntryOf
  <2> QED
    BY <1>3, <2>1, <2>2 DEF HoldsInv, RowOf, StoredOf, RowsOf, UserOf, UpdateCalls
<1>4. ASSUME UNCHANGED call, NEW status, NEW body, Send(r, status, body),
             call[r].op # "getUserChats" \/ status # "SUCCESS"
      PROVE  HoldsInv(r)'
  BY <1>1, <1>4, AnswerHolds
<1>5. CASE ListUsernames(r)
  BY <1>4, <1>5 DEF ListUsernames
<1>6. CASE FindChats(r)
  BY <1>6, FindChatsHolds
<1>7. CASE CheckRecipient(r)
  BY <1>3, <1>4, <1>7 DEF CheckRecipient
<1>8. CASE FindChat(r)
  <2> DEFINE row == ChatRow(call[r].from, call[r].to)
  <2>1. UNCHANGED <<call, chat_ids>>
    BY <1>8 DEF FindChat, database
  <2>2. ASSUME row # 0,
               local' = [local EXCEPT ![r].chat = chat_ids[row].chat_id],
               NEW step \in {"findMessages", "pushMessage"}, Await(r, step)
        PROVE  HoldsInv(r)'
    <3>1. local'[r].time = local[r].time /\ local'[r].chat = chat_ids[row].chat_id
      BY <1>1, <2>2 DEF TypeOK, RequestsOK, Local
    <3>2. row \in 1..Len(chat_ids) /\ SamePair(chat_ids[row], call[r].from, call[r].to)
      BY <1>1, <2>2, LookupsNow, FirstChatLemma, LenProperties DEF TypeOK, DatabaseOK
    <3>3. chat_ids[row] \in ToSet(chat_ids)
      BY <1>1, <3>2, LenProperties DEF TypeOK, DatabaseOK, ToSet
    <3>4. UsersOf(chat_ids[row]) = {call[r].from, call[r].to}
      BY <3>2 DEF SamePair, UsersOf
    <3>5. RowIn(chat_ids', local'[r].chat, call[r].from, call[r].to)
      BY <2>1, <3>1, <3>3, <3>4 DEF RowIn
    <3> QED
      BY <1>3, <2>1, <2>2, <3>1, <3>5
  <2>3. CASE local' = [local EXCEPT ![r].fresh = TRUE] /\ Await(r, "lastChatId")
    <3>1. local'[r].time = local[r].time
      BY <1>1, <2>3 DEF TypeOK, RequestsOK, Local
    <3> QED
      BY <1>3, <2>1, <2>3, <3>1
  <2>4. CASE SendError(r)
    BY <1>1, <2>1, <2>4, ErrorHolds
  <2> QED
    BY <1>8, <2>2, <2>3, <2>4 DEF FindChat
<1>9. CASE FindMessages(r) /\ call[r].op = "getUserChatMessages"
  BY <1>1, <1>4, <1>9, ErrorHolds DEF FindMessages
<1>10. CASE PushMessage(r)
  <2>1. CASE PushModifies(r)
    <3>1. EntryIn(chat_ids', chat_messages', call[r].from, call[r].to, EntryOf(r))
      BY <1>1, <1>10, <2>1, WriteStores DEF HoldsInv
    <3> QED
      BY <1>3, <1>10, <2>1, <3>1 DEF PushMessage
  <2>2. CASE ~PushModifies(r)
    BY <1>1, <1>10, <2>2, ErrorHolds DEF PushMessage
  <2> QED
    BY <2>1, <2>2
<1>11. CASE AllocateChatId(r)
  <2>1. local'[r].time = local[r].time
    BY <1>1, <1>11 DEF AllocateChatId, TypeOK, RequestsOK, Local
  <2> QED
    BY <1>3, <1>11, <2>1 DEF AllocateChatId
<1>12. CASE InsertChatId(r)
  <2> DEFINE new == [chat_id |-> local[r].chat,
                     user1 |-> call[r].from, user2 |-> call[r].to]
  <2>1. new \in ChatId
    <3>1. pc[r] # "idle"
      BY <1>12 DEF InsertChatId
    <3> QED
      BY <1>1, <3>1, RequestTypes DEF ChatId, Local, TypeOK
  <2>2. new \in ToSet(chat_ids')
    <3> HIDE DEF new
    <3>1. chat_ids' = Append(chat_ids, new)
      BY <1>12 DEF InsertChatId, AddChatId, new
    <3> QED
      BY <1>1, <2>1, <3>1, AppendSet DEF TypeOK, DatabaseOK
  <2>3. new.chat_id = local[r].chat /\ UsersOf(new) = {call[r].from, call[r].to}
    BY DEF UsersOf
  <2>4. RowIn(chat_ids', local[r].chat, call[r].from, call[r].to)
    <3> HIDE DEF new
    <3> QED
      BY <2>2, <2>3 DEF RowIn
  <2> QED
    BY <1>3, <1>12, <2>4 DEF InsertChatId
<1>13. CASE InsertMessages(r)
  <2>1. EntryIn(chat_ids', chat_messages', call[r].from, call[r].to, EntryOf(r))
    BY <1>1, <1>13, WriteStores DEF HoldsInv
  <2> QED
    BY <1>3, <1>13, <2>1 DEF InsertMessages
<1>14. CASE ReadSender(r) \/ ReadRecipient(r)
  BY <1>14, ReadRowHolds DEF ReadSender, ReadRecipient, UpdateCalls
<1>15. CASE \/ WriteSender(r)
            \/ WriteRecipient(r) /\ call[r].op # "getUserChats"
  <2>1. EntryIn(chat_ids', chat_messages', call[r].from, call[r].to, EntryOf(r))
    BY <1>1, <1>15, StorageGrows
       DEF WriteSender, WriteRecipient, HoldsInv, StoredOf, UpdateCalls
  <2>2. CASE WriteSender(r)
    BY <1>1, <1>3, <2>1, <2>2, ErrorHolds DEF WriteSender
  <2>3. CASE WriteRecipient(r) /\ call[r].op # "getUserChats"
    BY <1>1, <1>4, <2>3, ErrorHolds DEF WriteRecipient
  <2> QED
    BY <1>15, <2>2, <2>3
<1>16. CASE InsertUser(r)
  <2>1. call[r].from \in ToSet(users')
    <3>1. call[r].from \in Names
      BY <1>1, <1>16, RequestTypes DEF InsertUser, TypeOK
    <3> QED
      BY <1>1, <1>16, <3>1, AppendSet DEF InsertUser, AddUser, TypeOK, DatabaseOK
  <2> QED
    BY <1>3, <1>16, <2>1 DEF InsertUser
<1>17. CASE InsertRow(r)
  BY <1>1, <1>4, <1>17 DEF InsertRow, ControlOf
<1> QED
  BY <1>2, <1>5, <1>6, <1>7, <1>8, <1>9, <1>10, <1>11, <1>12, <1>13, <1>14, <1>15,
     <1>16, <1>17, Zenon
     DEF Step, getExistingUsernames, getUserChats, getUserChatMessages,
         sendMessage, sendNewMessage, addNewUser, UpdatePreviews

LEMMA HoldsStep ==
    ASSUME StorageInv, TypeOK', [Next]_vars, NEW r \in Requests
    PROVE  HoldsInv(r)'
<1>1. TypeOK /\ HoldsInv(r)
  BY DEF StorageInv, VisibleInv
<1>2. ASSUME UNCHANGED <<call[r], local[r], reply[r]>>, pc'[r] = pc[r] \/ pc'[r] = "lost"
      PROVE  HoldsInv(r)'
  BY <1>1, <1>2, OtherHolds
<1>3. ASSUME NEW s \in Requests, Receive(s) \/ Step(s) \/ CallFails(s) \/ AckLost(s)
      PROVE  HoldsInv(r)'
  <2>1. CASE s = r
    <3>1. CASE Receive(r) \/ Step(r)
      BY <3>1, ActorHolds
    <3>2. CASE CallFails(r) \/ AckLost(r)
      BY <1>1, <3>2, ErrorHolds DEF CallFails, AckLost
    <3> QED
      BY <1>3, <2>1, <3>1, <3>2
  <2>2. CASE s # r
    <3>1. CASE Receive(s)
      BY <1>1, <1>2, <2>2, <3>1 DEF Receive, Await, TypeOK, RequestsOK
    <3>2. CASE CallFails(s) \/ AckLost(s)
      BY <1>1, <1>2, <2>2, <3>2 DEF CallFails, AckLost, SendError, Send, TypeOK, RequestsOK
    <3>3. CASE Step(s)
      BY <1>1, <1>2, <2>2, <3>3, StepIsLocal
    <3> QED
      BY <1>3, <3>1, <3>2, <3>3
  <2> QED
    BY <2>1, <2>2
<1>4. CASE Crash
  BY <1>2, <1>4 DEF Crash
<1>5. CASE Tick \/ UNCHANGED vars
  BY <1>2, <1>5 DEF Tick, vars
<1> QED
  BY <1>3, <1>4, <1>5 DEF Next

\* What requests carry between the collections, and what the collections say of
\* each other, holds in every reachable state.
THEOREM StorageInvariant == Spec => []StorageInv
<1>1. StorageInv /\ TypeOK' /\ VisibleInv' /\ [Next]_vars => StorageInv'
  BY CollectionsStep, HoldsStep DEF StorageInv
<1> QED
  BY <1>1, StorageInit, TypeCorrect, VisibleInvariant, PTL DEF Spec

\* For any number of users, chats, requests, errors and crashes: a chat list only
\* previews messages that are stored in a chat of its two users, although the
\* lists are overwritten from copies that other requests have made stale.
THEOREM PreviewsAreStored == Spec => []PreviewIsStored
<1>1. StorageInv => PreviewIsStored
  BY DEF StorageInv, CollectionsInv, RowsPreviewed, Previewed, PreviewIn, RowIn,
         PreviewIsStored
<1> QED
  BY <1>1, StorageInvariant, PTL

\* A stored message is of a user of a chat with the chat_id, also when a chat_id
\* has been given to two pairs of users.
THEOREM SendersAreInChats == Spec => []SenderIsInChat
<1>1. StorageInv => SenderIsInChat
  BY DEF StorageInv, CollectionsInv
<1> QED
  BY <1>1, StorageInvariant, PTL

\* Nobody has a chat list without being a user, wherever a sign-up stops.
THEOREM ChatListsHaveUsers == Spec => []ChatListHasUser
<1>1. StorageInv => ChatListHasUser
  BY DEF StorageInv, CollectionsInv
<1> QED
  BY <1>1, StorageInvariant, PTL

\* A chat list names a contact once, the key that MessagesAll.js:126 relies on.
THEOREM ContactsAreUnique == Spec => []OneItemPerContact
<1>1. ASSUME StorageInv
      PROVE  OneItemPerContact
  <2>1. \A i \in DOMAIN user_messages : Unique(user_messages[i].messages)
    BY <1>1 DEF StorageInv, CollectionsInv, RowsUnique, ToSet
  <2> QED
    BY <2>1 DEF OneItemPerContact, Unique
<1> QED
  BY <1>1, StorageInvariant, PTL

----------------------------------------------------------------------------
(* Writes to the conversations                                             *)

\* The write of s that adds to chat_ids or chat_messages, and ends the call
StoreStep(s) ==
    /\ UNCHANGED <<call, local>>
    /\ \/ pc[s] = "insertChatId" /\ pc'[s] \in {"insertMessages", "done"} /\ AddChatId(s)
       \/ pc[s] = "insertMessages" /\ pc'[s] \in {"readSender", "done"} /\ AddLog(s)
       \/ /\ pc[s] = "pushMessage" /\ pc'[s] \in {"readSender", "done"}
          /\ pc'[s] = "readSender" => Log(local[s].chat) # 0
          /\ AppendEntry(s)

LEMMA RequestStores ==
    ASSUME TypeOK, NEW s \in Requests, Step(s) \/ AckLost(s)
    PROVE  UNCHANGED <<chat_ids, chat_messages>> \/ StoreStep(s)
<1>1. /\ \A step : Await(s, step) => pc'[s] = step
      /\ \A status, body : Send(s, status, body) => pc'[s] = "done"
      /\ SendError(s) => pc'[s] = "done"
  BY AwaitFacts, SendFacts DEF SendError
<1>2. CASE AckLost(s)
  BY <1>1, <1>2 DEF AckLost, StoreStep, SetRow, AddUser, AddRow
<1>3. CASE \/ ListUsernames(s) \/ FindChats(s) \/ CheckRecipient(s) \/ FindChat(s)
           \/ FindMessages(s) \/ AllocateChatId(s) \/ ReadSender(s) \/ ReadRecipient(s)
           \/ WriteSender(s) \/ WriteRecipient(s) \/ InsertUser(s) \/ InsertRow(s)
  BY <1>3 DEF ListUsernames, FindChats, CheckRecipient, FindChat, FindMessages,
              AllocateChatId, ReadSender, ReadRecipient, ReadRow, WriteSender,
              WriteRecipient, InsertUser, InsertRow, SetRow, AddUser, AddRow, database
<1>4. CASE PushMessage(s) \/ InsertChatId(s) \/ InsertMessages(s)
  BY <1>1, <1>4 DEF PushMessage, PushModifies, InsertChatId, InsertMessages, StoreStep
<1> QED
  BY <1>2, <1>3, <1>4, Zenon
     DEF Step, getExistingUsernames, getUserChats, getUserChatMessages,
         sendMessage, sendNewMessage, addNewUser, UpdatePreviews

LEMMA NextStores ==
    TypeOK /\ [Next]_vars =>
        UNCHANGED <<chat_ids, chat_messages>> \/ \E s \in Requests : StoreStep(s)
<1>1. ASSUME NEW r \in Requests, Receive(r) \/ CallFails(r)
      PROVE  UNCHANGED <<chat_ids, chat_messages>>
  BY <1>1 DEF Receive, CallFails, database
<1>2. ASSUME Crash \/ Tick \/ UNCHANGED vars
      PROVE  UNCHANGED <<chat_ids, chat_messages>>
  BY <1>2 DEF Crash, Tick, vars, database
<1> QED
  BY <1>1, <1>2, RequestStores DEF Next

----------------------------------------------------------------------------
(* No message is stored more often than it was sent.  Every place of a     *)
(* stored message belongs to a send that has made its write, and no two to *)
(* the same one.                                                           *)

\* The places of the messages in the documents docs
Places(docs) ==
    {c \in Nat \X Nat : c[1] \in 1..Len(docs) /\ c[2] \in 1..Len(docs[c[1]].messages)}

At(docs, c) == docs[c[1]].messages[c[2]]

StoreCalls == {"pushMessage", "insertMessages"}

\* Only sends store messages.
SendsOf(r) == pc[r] \in StoreCalls => call[r].op \in SendOps

\* A send that will not write a message any more
HasStored(r) == call[r].op \in SendOps /\ pc[r] \in UpdateCalls \cup {"done", "lost"}

\* f names the send that has stored each message.
StoredBy(f) ==
    /\ f \in [Places(chat_messages) -> Requests]
    /\ \A c \in Places(chat_messages) :
          HasStored(f[c]) /\ EntryOf(f[c]) = At(chat_messages, c)
    /\ \A c, d \in Places(chat_messages) : f[c] = f[d] => c = d

Arrived == {r \in Requests : call[r] # NoCall}

CopiesInv ==
    /\ TypeOK /\ IsFiniteSet(Arrived)
    /\ \A r \in Requests : SendsOf(r)
    /\ \E f : StoredBy(f)

LEMMA CopiesInit == Init => CopiesInv
<1> SUFFICES ASSUME Init PROVE CopiesInv
  OBVIOUS
<1>1. TypeOK
  BY TypeInit
<1>2. \A r \in Requests : call[r] = NoCall /\ pc[r] = "idle"
  BY DEF Init, Idle
<1>3. Arrived = {}
  BY <1>2 DEF Arrived
<1>4. \A r \in Requests : SendsOf(r)
  BY <1>2 DEF SendsOf, StoreCalls
<1>5. Places(chat_messages) = {}
  BY DEF Init, Places
<1>6. StoredBy([c \in {} |-> c])
  BY <1>5 DEF StoredBy
<1> QED
  BY <1>1, <1>3, <1>4, <1>6, FS_EmptySet DEF CopiesInv

\* A request comes to a call that stores a message by a step of a send.
LEMMA SendsStep ==
    ASSUME TypeOK, [Next]_vars, NEW r \in Requests, SendsOf(r)
    PROVE  SendsOf(r)'
<1>1. ASSUME UNCHANGED call[r], pc'[r] = pc[r] \/ pc'[r] \in {"lost", "done"}
      PROVE  SendsOf(r)'
  BY <1>1 DEF SendsOf, StoreCalls
<1>2. ASSUME NEW s \in Requests, s # r, Receive(s) \/ Step(s) \/ CallFails(s) \/ AckLost(s)
      PROVE  SendsOf(r)'
  <2>1. UNCHANGED <<call[r], pc[r]>>
    <3>1. CASE Receive(s)
      BY <1>2, <3>1 DEF Receive, Await, TypeOK, RequestsOK
    <3>2. CASE CallFails(s) \/ AckLost(s)
      BY <1>2, <3>2 DEF CallFails, AckLost, SendError, Send, TypeOK, RequestsOK
    <3>3. CASE Step(s)
      BY <1>2, <3>3, StepIsLocal
    <3> QED
      BY <1>2, <3>1, <3>2, <3>3
  <2> QED
    BY <1>1, <2>1
<1>3. CASE Receive(r)
  <2>1. PICK c \in Calls : Await(r, FirstCall(c.op))
    BY <1>3 DEF Receive
  <2>2. pc'[r] = FirstCall(c.op) /\ c.op \in Handlers
    BY <2>1, AwaitFacts, CallsAssumption DEF Call
  <2> QED
    BY <2>2 DEF SendsOf, StoreCalls, FirstCall, Handlers
<1>4. CASE CallFails(r) \/ AckLost(r)
  BY <1>1, <1>4, SendFacts DEF CallFails, AckLost, SendError
<1>5. CASE Step(r)
  <2>1. UNCHANGED call /\ (pc'[r] = "done" \/ Advances(r))
    BY <1>5, StepMoves
  <2> QED
    BY <1>1, <2>1 DEF Advances, SendMoves, OpeningMoves, SendsOf, StoreCalls, SendOps
<1>6. CASE Crash
  BY <1>1, <1>6 DEF Crash
<1>7. CASE Tick \/ UNCHANGED vars
  BY <1>1, <1>7 DEF Tick, vars
<1> QED
  BY <1>2, <1>3, <1>4, <1>5, <1>6, <1>7 DEF Next

\* A request that arrives is the only new one.
LEMMA ArrivedStep ==
    ASSUME TypeOK, [Next]_vars
    PROVE  Arrived' = Arrived \/ \E s \in Requests : Arrived' \subseteq Arrived \cup {s}
<1>1. ASSUME NEW s \in Requests, Receive(s)
      PROVE  Arrived' \subseteq Arrived \cup {s}
  BY <1>1 DEF Receive, Arrived, TypeOK, RequestsOK
<1>2. ASSUME UNCHANGED call
      PROVE  Arrived' = Arrived
  BY <1>2 DEF Arrived
<1>3. ASSUME NEW s \in Requests, Step(s) \/ CallFails(s) \/ AckLost(s)
      PROVE  UNCHANGED call
  BY <1>3, StepMoves DEF CallFails, AckLost
<1>4. Crash \/ Tick \/ UNCHANGED vars => UNCHANGED call
  BY DEF Crash, Tick, vars
<1> QED
  BY <1>1, <1>2, <1>3, <1>4 DEF Next

\* What a send has stored is its own, whatever happens then.
LEMMA HasStoredStays ==
    ASSUME TypeOK, [Next]_vars, NEW r \in Requests, HasStored(r)
    PROVE  HasStored(r)' /\ EntryOf(r)' = EntryOf(r)
<1>1. ASSUME UNCHANGED <<call[r], local[r].time>>,
             pc'[r] \in UpdateCalls \cup {"done", "lost"}
      PROVE  HasStored(r)' /\ EntryOf(r)' = EntryOf(r)
  BY <1>1 DEF HasStored, EntryOf
<1>2. pc[r] \in UpdateCalls \cup {"done", "lost"}
  BY DEF HasStored
<1>3. ASSUME NEW s \in Requests, s # r, Receive(s) \/ Step(s) \/ CallFails(s) \/ AckLost(s)
      PROVE  UNCHANGED <<call[r], local[r], pc[r]>>
  <2>1. CASE Receive(s)
    BY <1>3, <2>1 DEF Receive, Await, TypeOK, RequestsOK
  <2>2. CASE CallFails(s) \/ AckLost(s)
    BY <1>3, <2>2 DEF CallFails, AckLost, SendError, Send, TypeOK, RequestsOK
  <2>3. CASE Step(s)
    BY <1>3, <2>3, StepIsLocal
  <2> QED
    BY <1>3, <2>1, <2>2, <2>3
<1>4. CASE Receive(r)
  BY <1>2, <1>4 DEF Receive, UpdateCalls
<1>5. CASE CallFails(r) \/ AckLost(r)
  <2>1. UNCHANGED <<call, local>> /\ pc'[r] = "done"
    BY <1>5, SendFacts DEF CallFails, AckLost, SendError
  <2> QED
    BY <1>1, <2>1
<1>6. CASE Step(r)
  <2>1. UNCHANGED <<call[r], local[r].time>>
    BY <1>6, StepMoves
  <2>2. pc'[r] = "done" \/ Advances(r)
    BY <1>6, StepMoves
  <2>3. pc'[r] \in UpdateCalls \cup {"done"}
    BY <1>2, <2>2 DEF Advances, SendMoves, OpeningMoves, UpdateCalls
  <2> QED
    BY <1>1, <2>1, <2>3
<1>7. CASE Crash
  BY <1>1, <1>2, <1>7 DEF Crash
<1>8. CASE Tick \/ UNCHANGED vars
  BY <1>1, <1>2, <1>8 DEF Tick, vars
<1> QED
  BY <1>1, <1>2, <1>3, <1>4, <1>5, <1>6, <1>7, <1>8 DEF Next

\* One more message, stored by a send that had not stored any.
LEMMA OneMoreMessage ==
    ASSUME TypeOK, [Next]_vars, NEW f, StoredBy(f),
           NEW s \in Requests, ~HasStored(s), HasStored(s)',
           NEW x, Places(chat_messages') \subseteq Places(chat_messages) \cup {x},
           \A c \in Places(chat_messages) : At(chat_messages', c) = At(chat_messages, c),
           x \in Places(chat_messages') \ Places(chat_messages) =>
               At(chat_messages', x) = EntryOf(s)'
    PROVE  \E g : StoredBy(g)'
<1>1. PICK P, P2 : P = Places(chat_messages) /\ P2 = Places(chat_messages')
  OBVIOUS
<1>2. PICK g : g = [c \in P2 |-> IF c \in P THEN f[c] ELSE s]
  OBVIOUS
<1>3. g \in [P2 -> Requests]
  BY <1>1, <1>2 DEF StoredBy
<1>4. ASSUME NEW c \in P2
      PROVE  HasStored(g[c])' /\ EntryOf(g[c])' = At(chat_messages', c)
  <2>1. CASE c \in P
    <3>1. /\ g[c] = f[c] /\ f[c] \in Requests /\ HasStored(f[c])
          /\ EntryOf(f[c]) = At(chat_messages, c)
          /\ At(chat_messages', c) = At(chat_messages, c)
      BY <1>1, <1>2, <1>4, <2>1 DEF StoredBy
    <3>2. PICK r \in Requests : r = g[c]
      BY <3>1
    <3>3. HasStored(r)' /\ EntryOf(r)' = EntryOf(r)
      BY <3>1, <3>2, HasStoredStays
    <3> QED
      BY <3>1, <3>2, <3>3 DEF HasStored, EntryOf
  <2>2. CASE c \notin P
    <3>1. c = x /\ g[c] = s
      BY <1>1, <1>2, <1>4, <2>2
    <3>2. At(chat_messages', x) = EntryOf(s)'
      BY <1>1, <1>4, <2>2, <3>1
    <3> QED
      BY <3>1, <3>2 DEF HasStored, EntryOf
  <2> QED
    BY <2>1, <2>2
<1>5. ASSUME NEW c \in P2, NEW d \in P2, g[c] = g[d]
      PROVE  c = d
  <2>1. \A e \in P : f[e] # s
    BY <1>1 DEF StoredBy
  <2>2. \A e \in P2 : e \notin P => e = x
    BY <1>1
  <2> QED
    BY <1>1, <1>2, <1>5, <2>1, <2>2 DEF StoredBy
<1>6. StoredBy(g)'
  BY <1>1, <1>3, <1>4, <1>5 DEF StoredBy
<1> QED
  BY <1>6

\* A write of a message adds one place, and its message there.
LEMMA StoreAddsPlace ==
    ASSUME TypeOK, NEW s \in Requests,
           \/ pc[s] = "pushMessage" /\ AppendEntry(s)
           \/ pc[s] = "insertMessages" /\ AddLog(s)
    PROVE  \E x :
              /\ Places(chat_messages') \subseteq Places(chat_messages) \cup {x}
              /\ \A c \in Places(chat_messages) :
                    At(chat_messages', c) = At(chat_messages, c)
              /\ x \in Places(chat_messages') \ Places(chat_messages) =>
                    At(chat_messages', x) = EntryOf(s)
<1>1. pc[s] # "idle" /\ EntryOf(s) \in Entry /\ local[s].chat \in Nat
  BY RequestTypes DEF TypeOK, Local
<1>2. Len(chat_messages) \in Nat /\ chat_messages \in Seq(ChatLog)
  BY LenProperties DEF TypeOK, DatabaseOK
<1>3. CASE AppendEntry(s) /\ Log(local[s].chat) = 0
  <2>1. UNCHANGED chat_messages
    BY <1>3 DEF AppendEntry
  <2> QED
    BY <2>1
<1>4. CASE AppendEntry(s) /\ Log(local[s].chat) # 0
  <2>1. PICK doc : doc = Log(local[s].chat)
    OBVIOUS
  <2>2. Pushed(s, doc)
    BY <1>1, <1>4, <2>1, PushEffect
  <2>3. PICK old : old = chat_messages[doc].messages
    OBVIOUS
  <2>4. /\ old \in Seq(Entry) /\ Len(old) \in Nat
        /\ chat_messages'[doc].messages = Append(old, EntryOf(s))
        /\ Len(chat_messages') = Len(chat_messages)
        /\ \A i \in 1..Len(chat_messages) : i # doc => chat_messages'[i] = chat_messages[i]
    BY <2>2, <2>3, LenProperties DEF Pushed
  <2>5. /\ Len(Append(old, EntryOf(s))) = Len(old) + 1
        /\ \A i \in 1..Len(old) : Append(old, EntryOf(s))[i] = old[i]
        /\ Append(old, EntryOf(s))[Len(old) + 1] = EntryOf(s)
    BY <1>1, <2>4, AppendFacts
  <2>6. \A c \in Places(chat_messages') :
            c \in Places(chat_messages) \/ c = <<doc, Len(old) + 1>>
    <3> SUFFICES ASSUME NEW c \in Places(chat_messages')
                 PROVE  c \in Places(chat_messages) \/ c = <<doc, Len(old) + 1>>
      OBVIOUS
    <3>1. /\ c \in Nat \X Nat /\ c[1] \in 1..Len(chat_messages)
          /\ c[2] \in 1..Len(chat_messages'[c[1]].messages)
      BY <2>4 DEF Places
    <3>2. CASE c[1] = doc
      <4>1. c[2] \in 1..Len(old) \/ c[2] = Len(old) + 1
        BY <2>4, <2>5, <3>1, <3>2
      <4> QED
        BY <2>3, <3>1, <3>2, <4>1 DEF Places
    <3>3. CASE c[1] # doc
      BY <2>4, <3>1, <3>3 DEF Places
    <3> QED
      BY <3>2, <3>3
  <2>7. \A c \in Places(chat_messages) : At(chat_messages', c) = At(chat_messages, c)
    BY <1>2, <2>3, <2>4, <2>5 DEF Places, At
  <2>8. At(chat_messages', <<doc, Len(old) + 1>>) = EntryOf(s)
    BY <2>4, <2>5 DEF At
  <2> QED
    BY <2>6, <2>7, <2>8
<1>5. CASE AddLog(s)
  <2>1. PICK log : log = [chat_id |-> local[s].chat, messages |-> <<EntryOf(s)>>]
    OBVIOUS
  <2>2. log \in ChatLog /\ log.messages = <<EntryOf(s)>>
    BY <1>1, <2>1 DEF ChatLog
  <2>3. chat_messages' = Append(chat_messages, log)
    BY <1>5, <2>1 DEF AddLog
  <2>4. /\ Len(chat_messages') = Len(chat_messages) + 1
        /\ \A i \in 1..Len(chat_messages) : chat_messages'[i] = chat_messages[i]
        /\ chat_messages'[Len(chat_messages) + 1] = log
    BY <1>2, <2>2, <2>3, AppendFacts
  <2>5. Len(log.messages) = 1 /\ log.messages[1] = EntryOf(s)
    BY <2>2
  <2>6. \A c \in Places(chat_messages') :
            c \in Places(chat_messages) \/ c = <<Len(chat_messages) + 1, 1>>
    <3> SUFFICES ASSUME NEW c \in Places(chat_messages')
                 PROVE  \/ c \in Places(chat_messages)
                        \/ c = <<Len(chat_messages) + 1, 1>>
      OBVIOUS
    <3>1. CASE c[1] \in 1..Len(chat_messages)
      BY <2>4, <3>1 DEF Places
    <3>2. CASE c[1] \notin 1..Len(chat_messages)
      <4>1. c[1] = Len(chat_messages) + 1 /\ c \in Nat \X Nat
        BY <1>2, <2>4, <3>2 DEF Places
      <4>2. c[2] \in 1..1
        BY <2>4, <2>5, <4>1 DEF Places
      <4> QED
        BY <4>1, <4>2
    <3> QED
      BY <3>1, <3>2
  <2>7. \A c \in Places(chat_messages) : At(chat_messages', c) = At(chat_messages, c)
    BY <1>2, <2>4 DEF Places, At
  <2>8. At(chat_messages', <<Len(chat_messages) + 1, 1>>) = EntryOf(s)
    BY <2>4, <2>5 DEF At
  <2> QED
    BY <2>6, <2>7, <2>8
<1> QED
  BY <1>3, <1>4, <1>5

LEMMA StoredByStep ==
    ASSUME CopiesInv, [Next]_vars
    PROVE  \E g : StoredBy(g)'
<1>1. PICK f : StoredBy(f)
  BY DEF CopiesInv
<1>2. CASE UNCHANGED chat_messages
  <2>1. \A c \in Places(chat_messages) :
            f[c] \in Requests /\ HasStored(f[c])' /\ EntryOf(f[c])' = EntryOf(f[c])
    BY <1>1, HasStoredStays DEF StoredBy, CopiesInv
  <2>2. StoredBy(f)'
    BY <1>1, <1>2, <2>1 DEF StoredBy
  <2> QED
    BY <2>2
<1>3. ASSUME NEW s \in Requests, StoreStep(s), pc[s] \in StoreCalls
      PROVE  \E g : StoredBy(g)'
  <2>1. /\ ~HasStored(s) /\ HasStored(s)' /\ EntryOf(s)' = EntryOf(s)
    BY <1>3 DEF StoreStep, HasStored, StoreCalls, UpdateCalls, CopiesInv, SendsOf, EntryOf
  <2>2. PICK x :
              /\ Places(chat_messages') \subseteq Places(chat_messages) \cup {x}
              /\ \A c \in Places(chat_messages) :
                    At(chat_messages', c) = At(chat_messages, c)
              /\ x \in Places(chat_messages') \ Places(chat_messages) =>
                    At(chat_messages', x) = EntryOf(s)
    BY <1>3, StoreAddsPlace DEF StoreStep, StoreCalls, CopiesInv
  <2> QED
    BY <1>1, <2>1, <2>2, OneMoreMessage DEF CopiesInv
<1>4. ASSUME NEW s \in Requests, StoreStep(s), pc[s] \notin StoreCalls
      PROVE  UNCHANGED chat_messages
  BY <1>4 DEF StoreStep, StoreCalls, AddChatId
<1> QED
  BY <1>2, <1>3, <1>4, NextStores DEF CopiesInv

LEMMA CopiesStep == CopiesInv /\ TypeOK' /\ [Next]_vars => CopiesInv'
<1> SUFFICES ASSUME CopiesInv, TypeOK', [Next]_vars PROVE CopiesInv'
  OBVIOUS
<1>1. IsFiniteSet(Arrived')
  <2>1. CASE Arrived' = Arrived
    BY <2>1 DEF CopiesInv
  <2>2. CASE \E s \in Requests : Arrived' \subseteq Arrived \cup {s}
    BY <2>2, FS_AddElement, FS_Subset DEF CopiesInv
  <2> QED
    BY <2>1, <2>2, ArrivedStep DEF CopiesInv
<1>2. \A r \in Requests : SendsOf(r)'
  BY SendsStep DEF CopiesInv
<1> QED
  BY <1>1, <1>2, StoredByStep DEF CopiesInv

\* Every stored message can be given a send of its own.
THEOREM CopiesInvariant == Spec => []CopiesInv
BY CopiesInit, CopiesStep, TypeCorrect, PTL DEF Spec

\* No message is stored more often than it was sent, whatever fails half way.
THEOREM MessagesAreNotRepeated == Spec => []StoredAtMostOnce
<1>1. ASSUME CopiesInv, NEW e
      PROVE  Copies(e) <= Cardinality({r \in Requests :
                 call[r] # NoCall /\ call[r].op \in SendOps /\ EntryOf(r) = e})
  <2> DEFINE P == {c \in Places(chat_messages) : At(chat_messages, c) = e}
             R == {r \in Requests :
                      call[r] # NoCall /\ call[r].op \in SendOps /\ EntryOf(r) = e}
  <2>1. PICK f : StoredBy(f)
    BY <1>1 DEF CopiesInv
  <2> DEFINE g == [c \in P |-> f[c]]
  <2>2. g \in Injection(P, R)
    <3>1. \A c \in P : f[c] \in R
      BY <2>1 DEF StoredBy, HasStored, NoCall, SendOps
    <3>2. \A c, d \in P : f[c] = f[d] => c = d
      BY <2>1 DEF StoredBy
    <3> HIDE DEF P, R
    <3>3. g \in [P -> R] /\ \A c, d \in P : g[c] = g[d] => c = d
      BY <3>1, <3>2
    <3> HIDE DEF g
    <3> QED
      BY <3>3 DEF Injection, IsInjective
  <2>3. IsFiniteSet(R)
    <3>1. R \subseteq Arrived
      BY DEF Arrived
    <3> QED
      BY <1>1, <3>1, FS_Subset DEF CopiesInv
  <2>4. Cardinality(P) <= Cardinality(R)
    <3> HIDE DEF P, R, g
    <3> QED
      BY <2>2, <2>3, FS_Injection
  <2>5. Copies(e) = Cardinality(P)
    <3>1. /\ chat_messages \in Seq(ChatLog)
          /\ DOMAIN chat_messages = 1..Len(chat_messages)
          /\ Len(chat_messages) \in Nat
      BY <1>1, LenProperties DEF CopiesInv, TypeOK, DatabaseOK
    <3>2. ASSUME NEW i \in 1..Len(chat_messages)
          PROVE  /\ DOMAIN chat_messages[i].messages = 1..Len(chat_messages[i].messages)
                 /\ Len(chat_messages[i].messages) \in Nat
      <4>1. chat_messages[i] \in ChatLog
        BY <3>1, <3>2, ElementOfSeq
      <4>2. chat_messages[i].messages \in Seq(Entry)
        BY <4>1 DEF ChatLog
      <4> QED
        BY <4>2, LenProperties
    <3>3. UNION {{<<i, j>> : j \in {k \in DOMAIN chat_messages[i].messages :
                                            chat_messages[i].messages[k] = e}} :
                          i \in DOMAIN chat_messages} = P
      BY <3>1, <3>2 DEF Places, At
    <3> QED
      BY <3>3, Zenon DEF Copies
  <2> QED
    BY <2>4, <2>5
<1>2. CopiesInv => StoredAtMostOnce
  BY <1>1 DEF StoredAtMostOnce
<1> QED
  BY <1>2, CopiesInvariant, PTL
=============================================================================
