--------------------------- MODULE MessageServer ---------------------------
(***************************************************************************)
(* The Express server of node/server.js and the four MongoDB collections   *)
(* it keeps.                                                               *)
(*                                                                         *)
(* A request is a chain of promises: every database call is one atomic     *)
(* step of the database, and between two calls of one request any number   *)
(* of steps of other requests may happen.  An action below is one such     *)
(* call together with the callback that runs on its result, up to the next *)
(* call or to res.send.  pc[r] names the call that request r waits for.    *)
(***************************************************************************)
EXTENDS Integers, Sequences, FiniteSets, SequencesExt

CONSTANTS
    Names,       \* the usernames that occur in URLs
    Lower,       \* String.prototype.toLowerCase on Names
    Messages,    \* message texts
    Calls,       \* the calls clients may make: a subset of Call
    Requests,    \* identities of requests, each used once
    Registered,  \* the users that have signed up before, in insertion order
    MaxTime,     \* bound on the clock
    MaxFaults    \* bound on database errors and server crashes

Handlers == {"getExistingUsernames", "getUserChats", "getUserChatMessages",
             "sendMessage", "sendNewMessage", "addNewUser"}

\* What a URL and a request body carry; a handler ignores what it does not use.
Call == [op : Handlers, from : Names, to : Names, message : Messages]

Entry    == [sentBy : Names, message : Messages, time : Nat]
Preview  == [toUsername : Names, lastMessage : Messages, lastMessageTime : Nat]
ChatId   == [chat_id : Nat, user1 : Names, user2 : Names]
ChatLog  == [chat_id : Nat, messages : Seq(Entry)]
ChatList == [username : Names, messages : Seq(Preview)]

ASSUME CallsAssumption      == Calls \subseteq Call
ASSUME LowerAssumption      == Lower \in [Names -> Names]
ASSUME RegisteredAssumption == Registered \in Seq(Names)
ASSUME BoundsAssumption     == MaxTime \in Nat /\ MaxFaults \in Nat

VARIABLES
    users,          \* collection 'users': the usernames, in insertion order
    chat_ids,       \* collection 'chat_ids'
    chat_messages,  \* collection 'chat_messages'
    user_messages,  \* collection 'user_messages'
    now,            \* Date.now()
    faults,         \* database errors and crashes so far
    pc,             \* the database call a request waits for
    call,           \* what the request asked for
    local,          \* the variables its callbacks have assigned
    reply           \* what res.send sent

database == <<users, chat_ids, chat_messages, user_messages>>
vars == <<users, chat_ids, chat_messages, user_messages,
          now, faults, pc, call, local, reply>>

NoCall  == [op |-> "none"]
NoReply == [status |-> "none", body |-> <<>>]

\* timeNow, chat_id, "the chat did not exist", toUpdate
Local == [time : Nat, chat : Nat, fresh : BOOLEAN, rows : Seq(Preview)]

ReadCalls  == {"listUsers", "findRow", "findChat", "findMessages",
               "lastChatId", "readSender", "readRecipient"}
WriteCalls == {"pushMessage", "insertChatId", "insertMessages", "writeSender",
               "writeRecipient", "insertUser", "insertRow"}
Running    == ReadCalls \cup WriteCalls

\* No request has arrived.
Idle ==
    /\ pc = [r \in Requests |-> "idle"]
    /\ call = [r \in Requests |-> NoCall]
    /\ local = [r \in Requests |->
                   [time |-> 0, chat |-> 0, fresh |-> FALSE, rows |-> <<>>]]
    /\ reply = [r \in Requests |-> NoReply]

Init ==
    /\ users = Registered
    /\ chat_ids = <<>>
    /\ chat_messages = <<>>
    /\ user_messages = [i \in DOMAIN Registered |->
                           [username |-> Registered[i], messages |-> <<>>]]
    /\ now = 0
    /\ faults = 0
    /\ Idle

----------------------------------------------------------------------------
(* Queries.  findOne and updateOne take the first document that matches in *)
(* natural order; 0 stands for null.  No collection has a unique index.    *)

\* Mutant: the query without the second alternative of its $or
SamePair_OneWay(c, a, b) == c.user1 = a /\ c.user2 = b

SamePair(c, a, b) ==
    \/ c.user1 = a /\ c.user2 = b
    \/ c.user1 = b /\ c.user2 = a

\* Mutant: the last row that matches instead of the first
ChatRow_Latest(a, b) == SelectLastInSeq(chat_ids, LAMBDA c : SamePair(c, a, b))

ChatRow(a, b) == SelectInSeq(chat_ids, LAMBDA c : SamePair(c, a, b))

\* Mutant: the last document that matches instead of the first
Log_Latest(id) == SelectLastInSeq(chat_messages, LAMBDA d : d.chat_id = id)

\* Mutant: the query names no user
UserRow_Any(u) == IF user_messages = <<>> THEN 0 ELSE 1

Log(id)    == SelectInSeq(chat_messages, LAMBDA d : d.chat_id = id)
UserRow(u) == SelectInSeq(user_messages, LAMBDA d : d.username = u)
PeerIdx(rows, peer) == SelectInSeq(rows, LAMBDA p : p.toUsername = peer)

\* Mutants: the first id is the sentinel -1; the new id is always 0; the new id is
\* the last one, not one more
NextChatId_Sentinel ==
    IF chat_ids = <<>> THEN -1 ELSE Max({c.chat_id : c \in ToSet(chat_ids)}) + 1
NextChatId_Zero == 0
NextChatId_Last ==
    IF chat_ids = <<>> THEN 0 ELSE Max({c.chat_id : c \in ToSet(chat_ids)})

\* find().sort({ chat_id: -1 }).limit(1), plus one
NextChatId ==
    IF chat_ids = <<>> THEN 0 ELSE Max({c.chat_id : c \in ToSet(chat_ids)}) + 1

\* What chats.sort with the comparator of getUserChats may return: the latest
\* chat first, chats of the same time in either order.
LatestFirst(chats) ==
    {s \in [DOMAIN chats -> ToSet(chats)] :
        /\ ToBag(s) = ToBag(chats)
        /\ IsSorted(s, LAMBDA a, b : a.lastMessageTime >= b.lastMessageTime)}

EntryOf(r) == [sentBy  |-> call[r].from,
               message |-> call[r].message,
               time    |-> local[r].time]

\* Mutant: the time is taken again when the list is changed
PreviewOf_Now(r, peer) == [toUsername      |-> peer,
                           lastMessage     |-> call[r].message,
                           lastMessageTime |-> now]

PreviewOf(r, peer) == [toUsername      |-> peer,
                       lastMessage     |-> call[r].message,
                       lastMessageTime |-> local[r].time]

\* Mutant: the item is pushed without looking for the peer's index
Updated_Append(rows, r, peer) == Append(rows, PreviewOf(r, peer))

\* toUpdate after the callback has put the new message at the peer's index
Updated(rows, r, peer) ==
    LET idx == PeerIdx(rows, peer)
    IN  IF idx # 0 THEN ReplaceAt(rows, idx, PreviewOf(r, peer))
                   ELSE Append(rows, PreviewOf(r, peer))

----------------------------------------------------------------------------
(* Control: wait for the next database call, or send the reply.            *)

Await(r, step) ==
    /\ pc' = [pc EXCEPT ![r] = step]
    /\ UNCHANGED reply

Send(r, status, body) ==
    /\ pc' = [pc EXCEPT ![r] = "done"]
    /\ reply' = [reply EXCEPT ![r] = [status |-> status, body |-> body]]

SendError(r) == Send(r, "DB_ERR", <<>>)

FirstCall(op) ==
    CASE op \in {"getExistingUsernames", "sendNewMessage"} -> "listUsers"
      [] op = "getUserChats" -> "findRow"
      [] op \in {"getUserChatMessages", "sendMessage"} -> "findChat"
      [] op = "addNewUser" -> "insertUser"

\* Express routes a request to its handler, which notes the time.
Receive(r) ==
    /\ pc[r] = "idle"
    /\ \E c \in Calls :
          /\ call' = [call EXCEPT ![r] = c]
          /\ Await(r, FirstCall(c.op))
    /\ local' = [local EXCEPT ![r].time = now]
    /\ UNCHANGED <<database, now, faults>>

----------------------------------------------------------------------------
(* Reads                                                                   *)

ListUsernames(r) ==
    /\ pc[r] = "listUsers"
    /\ call[r].op = "getExistingUsernames"
    /\ Send(r, "SUCCESS", users)
    /\ UNCHANGED <<database, now, faults, call, local>>

FindChats(r) ==
    /\ pc[r] = "findRow"
    /\ LET row == UserRow(call[r].from)
       IN  \/ /\ row # 0
              /\ \E chats \in LatestFirst(user_messages[row].messages) :
                    Send(r, "SUCCESS", chats)
           \/ /\ row = 0
              /\ Send(r, "SUCCESS", <<>>)
    /\ UNCHANGED <<database, now, faults, call, local>>

\* users.find() in sendNewMessage: the recipient is looked up ignoring case
CheckRecipient(r) ==
    /\ pc[r] = "listUsers"
    /\ call[r].op = "sendNewMessage"
    /\ IF \E u \in ToSet(users) : Lower[u] = Lower[call[r].to]
         THEN Await(r, "findChat")
         ELSE Send(r, "USER DOES NOT EXIST", <<>>)
    /\ UNCHANGED <<database, now, faults, call, local>>

\* chat_ids.findOne, the same query in three handlers
FindChat(r) ==
    /\ pc[r] = "findChat"
    /\ LET row == ChatRow(call[r].from, call[r].to)
       IN  \/ /\ row # 0
              /\ local' = [local EXCEPT ![r].chat = chat_ids[row].chat_id]
              /\ Await(r, IF call[r].op = "getUserChatMessages"
                            THEN "findMessages" ELSE "pushMessage")
           \/ /\ row = 0
              /\ call[r].op = "sendNewMessage"
              /\ local' = [local EXCEPT ![r].fresh = TRUE]
              /\ Await(r, "lastChatId")
           \/ /\ row = 0
              /\ call[r].op # "sendNewMessage"
              /\ SendError(r)
              /\ UNCHANGED local
    /\ UNCHANGED <<database, now, faults, call>>

\* result.messages throws when there is no document: the catch answers DB_ERR
FindMessages(r) ==
    /\ pc[r] = "findMessages"
    /\ LET doc == Log(local[r].chat)
       IN  IF doc # 0 THEN Send(r, "SUCCESS", chat_messages[doc].messages)
                      ELSE SendError(r)
    /\ UNCHANGED <<database, now, faults, call, local>>

----------------------------------------------------------------------------
(* Writes.  The effect of a write is apart from the callback on its result *)
(* since the acknowledgement of a write that took effect can be lost.      *)

\* Mutants: $set in place of $push; $push at position 0
AppendEntry_Set(r) ==
    LET doc == Log(local[r].chat)
    IN  /\ chat_messages' =
              IF doc = 0 THEN chat_messages
              ELSE [chat_messages EXCEPT ![doc].messages = <<EntryOf(r)>>]
        /\ UNCHANGED <<users, chat_ids, user_messages>>
AppendEntry_Front(r) ==
    LET doc == Log(local[r].chat)
    IN  /\ chat_messages' =
              IF doc = 0 THEN chat_messages
              ELSE [chat_messages EXCEPT ![doc].messages = <<EntryOf(r)>> \o @]
        /\ UNCHANGED <<users, chat_ids, user_messages>>

AppendEntry(r) ==
    LET doc == Log(local[r].chat)
    IN  /\ chat_messages' =
              IF doc = 0 THEN chat_messages
              ELSE [chat_messages EXCEPT ![doc].messages = Append(@, EntryOf(r))]
        /\ UNCHANGED <<users, chat_ids, user_messages>>

AddChatId(r) ==
    /\ chat_ids' = Append(chat_ids, [chat_id |-> local[r].chat,
                                     user1   |-> call[r].from,
                                     user2   |-> call[r].to])
    /\ UNCHANGED <<users, chat_messages, user_messages>>

AddLog(r) ==
    /\ chat_messages' = Append(chat_messages, [chat_id  |-> local[r].chat,
                                               messages |-> <<EntryOf(r)>>])
    /\ UNCHANGED <<users, chat_ids, user_messages>>

SetRow(r, owner) ==
    LET row == UserRow(owner)
    IN  /\ user_messages' =
              IF row = 0 THEN user_messages
              ELSE [user_messages EXCEPT ![row].messages = local[r].rows]
        /\ UNCHANGED <<users, chat_ids, chat_messages>>

AddUser(r) ==
    /\ users' = Append(users, call[r].from)
    /\ UNCHANGED <<chat_ids, chat_messages, user_messages>>

AddRow(r) ==
    /\ user_messages' = Append(user_messages, [username |-> call[r].from,
                                               messages |-> <<>>])
    /\ UNCHANGED <<users, chat_ids, chat_messages>>

\* modifiedCount = 1: a document matched and $set or $push changed it
PushModifies(r)       == Log(local[r].chat) # 0
SetModifies(r, owner) ==
    /\ UserRow(owner) # 0
    /\ user_messages[UserRow(owner)].messages # local[r].rows

\* Mutant: nothing is sent when the $push matched no document
PushMessage_Silent(r) ==
    /\ pc[r] = "pushMessage"
    /\ AppendEntry(r)
    /\ IF PushModifies(r) THEN Await(r, "readSender") ELSE UNCHANGED <<pc, reply>>
    /\ UNCHANGED <<now, faults, call, local>>

PushMessage(r) ==
    /\ pc[r] = "pushMessage"
    /\ AppendEntry(r)
    /\ IF PushModifies(r) THEN Await(r, "readSender") ELSE SendError(r)
    /\ UNCHANGED <<now, faults, call, local>>

\* Mutant: the message of a new chat is inserted, the chat_id is not
AllocateChatId_LogFirst(r) ==
    /\ pc[r] = "lastChatId"
    /\ local' = [local EXCEPT ![r].chat = NextChatId]
    /\ Await(r, "insertMessages")
    /\ UNCHANGED <<database, now, faults, call>>

AllocateChatId(r) ==
    /\ pc[r] = "lastChatId"
    /\ local' = [local EXCEPT ![r].chat = NextChatId]
    /\ Await(r, "insertChatId")
    /\ UNCHANGED <<database, now, faults, call>>

InsertChatId(r) ==
    /\ pc[r] = "insertChatId"
    /\ AddChatId(r)
    /\ Await(r, "insertMessages")
    /\ UNCHANGED <<now, faults, call, local>>

\* Mutants: the new chat falls through to the $push of an existing one; the chat
\* lists are not updated
InsertMessages_PushAgain(r) ==
    /\ pc[r] = "insertMessages"
    /\ AddLog(r)
    /\ Await(r, "pushMessage")
    /\ UNCHANGED <<now, faults, call, local>>
InsertMessages_NoLists(r) ==
    /\ pc[r] = "insertMessages"
    /\ AddLog(r)
    /\ Send(r, "SUCCESS", <<>>)
    /\ UNCHANGED <<now, faults, call, local>>

InsertMessages(r) ==
    /\ pc[r] = "insertMessages"
    /\ AddLog(r)
    /\ Await(r, "readSender")
    /\ UNCHANGED <<now, faults, call, local>>

\* user_messages.findOne and the change to the array it returned.  For a chat
\* that existed, a null document or an index of -1 throws; for a fresh one, a
\* null document is answered with an error and an index of -1 appends.
ReadRow(r, owner, peer, next) ==
    LET row == UserRow(owner)
    IN  /\ \/ /\ row # 0
              /\ local[r].fresh \/ PeerIdx(user_messages[row].messages, peer) # 0
              /\ local' = [local EXCEPT ![r].rows =
                              Updated(user_messages[row].messages, r, peer)]
              /\ Await(r, next)
           \/ /\ row # 0 =>
                    /\ ~local[r].fresh
                    /\ PeerIdx(user_messages[row].messages, peer) = 0
              /\ SendError(r)
              /\ UNCHANGED local
        /\ UNCHANGED <<database, now, faults, call>>

ReadSender(r) ==
    /\ pc[r] = "readSender"
    /\ ReadRow(r, call[r].from, call[r].to, "writeSender")

\* Mutant: the recipient's list is not updated
WriteSender_Only(r) ==
    /\ pc[r] = "writeSender"
    /\ SetRow(r, call[r].from)
    /\ IF SetModifies(r, call[r].from) THEN Send(r, "SUCCESS", <<>>)
                                       ELSE SendError(r)
    /\ UNCHANGED <<now, faults, call, local>>

WriteSender(r) ==
    /\ pc[r] = "writeSender"
    /\ SetRow(r, call[r].from)
    /\ IF SetModifies(r, call[r].from) THEN Await(r, "readRecipient")
                                       ELSE SendError(r)
    /\ UNCHANGED <<now, faults, call, local>>

\* Mutant: the recipient is looked for in the recipient's own list
ReadRecipient_SamePeer(r) ==
    /\ pc[r] = "readRecipient"
    /\ ReadRow(r, call[r].to, call[r].to, "writeRecipient")

ReadRecipient(r) ==
    /\ pc[r] = "readRecipient"
    /\ ReadRow(r, call[r].to, call[r].from, "writeRecipient")

WriteRecipient(r) ==
    /\ pc[r] = "writeRecipient"
    /\ SetRow(r, call[r].to)
    /\ IF SetModifies(r, call[r].to) THEN Send(r, "SUCCESS", <<>>)
                                     ELSE SendError(r)
    /\ UNCHANGED <<now, faults, call, local>>

\* Mutant: the chat list is inserted in place of the user
InsertUser_RowFirst(r) ==
    /\ pc[r] = "insertUser"
    /\ AddRow(r)
    /\ Await(r, "insertRow")
    /\ UNCHANGED <<now, faults, call, local>>

InsertUser(r) ==
    /\ pc[r] = "insertUser"
    /\ AddUser(r)
    /\ Await(r, "insertRow")
    /\ UNCHANGED <<now, faults, call, local>>

InsertRow(r) ==
    /\ pc[r] = "insertRow"
    /\ AddRow(r)
    /\ Send(r, "SUCCESS", <<>>)
    /\ UNCHANGED <<now, faults, call, local>>

----------------------------------------------------------------------------
(* The handlers                                                            *)

getExistingUsernames(r) == ListUsernames(r)

getUserChats(r) == FindChats(r)

getUserChatMessages(r) ==
    /\ call[r].op = "getUserChatMessages"
    /\ FindChat(r) \/ FindMessages(r)

UpdatePreviews(r) ==
    ReadSender(r) \/ WriteSender(r) \/ ReadRecipient(r) \/ WriteRecipient(r)

sendMessage(r) ==
    /\ call[r].op = "sendMessage"
    /\ FindChat(r) \/ PushMessage(r) \/ UpdatePreviews(r)

sendNewMessage(r) ==
    /\ call[r].op = "sendNewMessage"
    /\ \/ CheckRecipient(r) \/ FindChat(r) \/ PushMessage(r)
       \/ AllocateChatId(r) \/ InsertChatId(r) \/ InsertMessages(r)
       \/ UpdatePreviews(r)

addNewUser(r) == InsertUser(r) \/ InsertRow(r)

Step(r) ==
    \/ getExistingUsernames(r) \/ getUserChats(r) \/ getUserChatMessages(r)
    \/ sendMessage(r) \/ sendNewMessage(r) \/ addNewUser(r)

----------------------------------------------------------------------------
(* Faults.  A rejected promise reaches a catch that answers DB_ERR.        *)

Fault == faults < MaxFaults /\ faults' = faults + 1

\* The call is rejected and has had no effect.
CallFails(r) ==
    /\ Fault
    /\ pc[r] \in Running
    /\ SendError(r)
    /\ UNCHANGED <<database, now, call, local>>

\* A write took effect but the driver reports an error (its one retry, which
\* carries the same transaction number, does not apply it twice).
AckLost(r) ==
    /\ Fault
    /\ \/ pc[r] = "pushMessage"    /\ AppendEntry(r)
       \/ pc[r] = "insertChatId"   /\ AddChatId(r)
       \/ pc[r] = "insertMessages" /\ AddLog(r)
       \/ pc[r] = "writeSender"    /\ SetRow(r, call[r].from)
       \/ pc[r] = "writeRecipient" /\ SetRow(r, call[r].to)
       \/ pc[r] = "insertUser"     /\ AddUser(r)
       \/ pc[r] = "insertRow"      /\ AddRow(r)
    /\ SendError(r)
    /\ UNCHANGED <<now, call, local>>

\* The node process dies and is started again: requests in progress are lost.
Crash ==
    /\ Fault
    /\ \E r \in Requests : pc[r] \in Running
    /\ pc' = [r \in Requests |-> IF pc[r] \in Running THEN "lost" ELSE pc[r]]
    /\ UNCHANGED <<database, now, call, local, reply>>

Tick ==
    /\ now < MaxTime
    /\ now' = now + 1
    /\ UNCHANGED <<database, faults, pc, call, local, reply>>

Next ==
    \/ \E r \in Requests : Receive(r) \/ Step(r) \/ CallFails(r) \/ AckLost(r)
    \/ Crash
    \/ Tick

Spec == Init /\ [][Next]_vars

\* MongoDB answers or rejects every call, and node runs the callback.
FairSpec == Spec /\ \A r \in Requests : WF_vars(Step(r))
=============================================================================
