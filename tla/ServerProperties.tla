------------------------- MODULE ServerProperties --------------------------
(***************************************************************************)
(* What the server of MessageServer promises, and the abstract             *)
(* specification (Conversations) it implements when first contacts do not  *)
(* overlap.                                                                *)
(***************************************************************************)
EXTENDS MessageServer

SendOps == {"sendMessage", "sendNewMessage"}

UsersOf(c) == {c.user1, c.user2}

StatusSet == {"none", "SUCCESS", "DB_ERR", "USER DOES NOT EXIST"}

\* The conversation getUserChatMessages would answer with now.
Conversation(a, b) ==
    LET row == ChatRow(a, b)
        doc == IF row = 0 THEN 0 ELSE Log(chat_ids[row].chat_id)
    IN  IF doc = 0 THEN <<>> ELSE chat_messages[doc].messages

Succeeded(r) == call[r].op \in SendOps /\ reply[r].status = "SUCCESS"

Quiet == \A r \in Requests : pc[r] \notin Running

----------------------------------------------------------------------------
(* Invariants of the server under any interleaving and any fault           *)

DatabaseOK ==
    /\ users \in Seq(Names)
    /\ chat_ids \in Seq(ChatId)
    /\ chat_messages \in Seq(ChatLog)
    /\ user_messages \in Seq(ChatList)

RequestsOK ==
    /\ pc \in [Requests -> Running \cup {"idle", "done", "lost"}]
    /\ call \in [Requests -> Calls \cup {NoCall}]
    /\ local \in [Requests -> Local]
    /\ DOMAIN reply = Requests
    /\ \A r \in Requests :
          /\ reply[r].status \in StatusSet
          /\ pc[r] # "idle" => call[r] \in Calls

\* Every variable keeps its type: documents have the fields the handlers
\* write, and a request that runs knows its call.
TypeOK == DatabaseOK /\ RequestsOK /\ now \in Nat /\ faults \in Nat

\* The chat_id that a handler has read is still that of its two users when it is
\* used in the next call, whatever has been inserted in between.
ChatIdNotStale ==
    \A r \in Requests :
        pc[r] \in {"pushMessage", "findMessages"} =>
            LET row == ChatRow(call[r].from, call[r].to)
            IN  row # 0 /\ chat_ids[row].chat_id = local[r].chat

\* A message sent into a chat that existed and answered with SUCCESS is in the
\* conversation that both users read from then on, whatever other requests,
\* errors and crashes do (server.js 107-114 and 77-85 read the same document).
SuccessIsVisible ==
    \A r \in Requests :
        Succeeded(r) /\ ~local[r].fresh =>
            EntryOf(r) \in ToSet(Conversation(call[r].from, call[r].to))

\* What getUserChatMessages answered is the beginning of the conversation as
\* it is now: a client that refreshes never loses or reorders what it showed.
ReadIsPrefix ==
    \A r \in Requests :
        call[r].op = "getUserChatMessages" /\ reply[r].status = "SUCCESS" =>
            IsPrefix(reply[r].body, Conversation(call[r].from, call[r].to))

\* A user's chat list has one item per contact, the key MessagesAll.js:126
\* gives its FlatList, although whole lists are overwritten from old copies.
OneItemPerContact ==
    \A i \in DOMAIN user_messages :
        LET rows == user_messages[i].messages
        IN  \A j, k \in DOMAIN rows :
               rows[j].toUsername = rows[k].toUsername => j = k

\* A chat list only previews messages that are stored in a chat of its two
\* users, sent by one of them (the message is pushed before the lists change).
PreviewIsStored ==
    \A row \in ToSet(user_messages) : \A p \in ToSet(row.messages) :
        \E d \in ToSet(chat_messages) :
            /\ \E c \in ToSet(chat_ids) :
                  /\ c.chat_id = d.chat_id
                  /\ UsersOf(c) = {row.username, p.toUsername}
            /\ \E e \in ToSet(d.messages) :
                  /\ e.message = p.lastMessage /\ e.time = p.lastMessageTime
                  /\ e.sentBy \in {row.username, p.toUsername}

\* Every stored message was sent by a user of a chat with that chat_id: the
\* chat's row is inserted before its first message.
SenderIsInChat ==
    \A d \in ToSet(chat_messages) : \A e \in ToSet(d.messages) :
        \E c \in ToSet(chat_ids) :
            c.chat_id = d.chat_id /\ e.sentBy \in UsersOf(c)

\* Nobody has a chat list before being listed in 'users', even when a sign-up
\* stops between its two inserts (server.js 382-385).
ChatListHasUser ==
    \A row \in ToSet(user_messages) : row.username \in ToSet(users)

\* No message is stored more often than it was sent: a handler that fails
\* half way has not repeated its push.
Copies(e) ==
    Cardinality(UNION {{<<i, j>> : j \in {k \in DOMAIN chat_messages[i].messages :
                                            chat_messages[i].messages[k] = e}} :
                          i \in DOMAIN chat_messages})
StoredAtMostOnce ==
    \A e \in UNION {ToSet(d.messages) : d \in ToSet(chat_messages)} :
        Copies(e) <= Cardinality({r \in Requests :
                        call[r] # NoCall /\ call[r].op \in SendOps /\ EntryOf(r) = e})

\* A conversation only grows at its end, for whoever reads it.  (It is computed
\* from chat_ids and chat_messages.)
ConversationsOnlyGrow ==
    [][\/ UNCHANGED <<chat_ids, chat_messages>>
       \/ \A a, b \in Names : IsPrefix(Conversation(a, b), Conversation(a, b)')]_vars

\* Every request is answered unless the server crashes under it: no path
\* through the callbacks ends without res.send.
EveryRequestAnswered ==
    \A r \in Requests : []<>(pc[r] \notin Running)
----------------------------------------------------------------------------
(* First contacts one after the other: no two requests are at once between *)
(* finding that a chat does not exist and inserting its chat_id            *)
(* (server.js 264-272).  Everything else still interleaves.                *)

Allocating(r) == pc[r] \in {"lastChatId", "insertChatId"}

FirstContactsSerial ==
    \A r, s \in Requests : Allocating(r) /\ Allocating(s) => r = s

SerialSpec == Init /\ [][Next /\ FirstContactsSerial']_vars

\* A chat_id belongs to one pair of users: what chat_ids.findOne returns is the
\* id of the chat that these two have together (server.js 76) and of no other.
ChatIdNamesPair ==
    \A c, d \in ToSet(chat_ids) :
        c.chat_id = d.chat_id => UsersOf(c) = UsersOf(d)

\* Two users have one chat, so that both branches of a send and every read find
\* the same chat_id for them.
PairHasOneChat ==
    \A i, j \in DOMAIN chat_ids :
        UsersOf(chat_ids[i]) = UsersOf(chat_ids[j]) => i = j

\* All messages associated with a chat_id are in the one document that
\* chat_messages.findOne returns for it (server.js 82-83).
OneLogPerChat ==
    \A i, j \in DOMAIN chat_messages :
        chat_messages[i].chat_id = chat_messages[j].chat_id => i = j

\* Every message answered with SUCCESS is in the conversation that both users
\* read, also the one that opened the chat.
EverySuccessIsVisible ==
    \A r \in Requests :
        Succeeded(r) => EntryOf(r) \in ToSet(Conversation(call[r].from, call[r].to))

\* The abstract conversations, as a read of the collections shows them now.
View == [q \in Names \X Names |-> Conversation(q[1], q[2])]

Acked == {[from |-> call[r].from, to |-> call[r].to, entry |-> EntryOf(r)] :
             r \in {s \in Requests : Succeeded(s)}}

Abstract == INSTANCE Conversations
                WITH log <- View, acked <- Acked, Times <- 0..MaxTime

\* With serial first contacts the four collections implement one growing
\* conversation per pair of users, in spite of errors and crashes.
ImplementsConversations == Abstract!Spec

----------------------------------------------------------------------------
(* Requests one at a time: what the comments of server.js say of the       *)
(* collections once nothing is in progress.                                *)

OneAtATime ==
    \A r, s \in Requests : pc[r] \in Running /\ pc[s] \in Running => r = s

SequentialSpec == Init /\ [][Next /\ OneAtATime']_vars

\* A chat list shows the most recent message of each chat (server.js 117).
PreviewIsLatest ==
    Quiet =>
        \A i \in DOMAIN user_messages : \A p \in ToSet(user_messages[i].messages) :
            LET chat == Conversation(user_messages[i].username, p.toUsername)
            IN  /\ chat # <<>>
                /\ p.lastMessage = Last(chat).message
                /\ p.lastMessageTime = Last(chat).time

\* A user's chat list has all chats that the user has (server.js 51).
ChatsAreListed ==
    Quiet =>
        \A c \in ToSet(chat_ids) :
            \A q \in {<<c.user1, c.user2>>, <<c.user2, c.user1>>} :
                UserRow(q[1]) # 0 =>
                    PeerIdx(user_messages[UserRow(q[1])].messages, q[2]) # 0

\* The request s sends the same text in the same millisecond.
SameText(r, s) ==
    /\ pc[s] # "idle"
    /\ call[s].message = call[r].message
    /\ local[s].time = local[r].time

\* A message answered with an error has not reached the conversation, unless
\* the same text was also sent in the same millisecond: by the other user, or
\* before by the same one, so that an item of a chat list stays as it is and the
\* update is taken for a failure (server.js 136-140).  Only for two different
\* users with accounts: a message to oneself is stored and then refused, since
\* the second update of the same list modifies nothing.
ErrorMeansNotStored ==
    \A r \in Requests :
        /\ reply[r].status = "DB_ERR"
        /\ call[r].op \in SendOps
        /\ call[r].from # call[r].to
        /\ {call[r].from, call[r].to} \subseteq ToSet(users)
        /\ \A s \in Requests \ {r} : ~SameText(r, s)
        => EntryOf(r) \notin ToSet(Conversation(call[r].from, call[r].to))

\* A new message only gets past the check that the recipient exists when the
\* recipient does: the handler goes on to its search for the chat (server.js 188).
RecipientExists ==
    \A r \in Requests :
        call[r].op = "sendNewMessage" /\ pc[r] \in Running \ {"listUsers"} =>
            call[r].to \in ToSet(users)
=============================================================================
