------------------------------ MODULE MC_Chats -------------------------------
(***************************************************************************)
(* Instances of the chat screens for TLC: two users, and a name that is    *)
(* one of theirs followed by a space.                                      *)
(***************************************************************************)
EXTENDS ChatProperties

CONSTANTS ann, bob, bob_, m1, m2, d1, d2

MCNames      == {ann, bob, bob_}
MCLower      == [n \in MCNames |-> n]
MCTrim       == [n \in MCNames |-> IF n = bob_ THEN bob ELSE n]
MCRegistered == <<ann, bob>>
MCDevices    == {d1, d2}

MCCalls ==
    [op : {"getUserChats", "getUserChatMessages", "sendMessage", "sendNewMessage",
           "addNewUser"},
     from : {ann, bob}, to : MCNames, message : Messages]

\* ann and bob; ann, and somebody who has an empty name
MCLogins == {[d \in MCDevices |-> IF d = d1 THEN ann ELSE n] : n \in {bob, Empty}}
AnnBob   == {[d \in MCDevices |-> IF d = d1 THEN ann ELSE bob]}

\* ann has opened a chat with bob by one message.
First == [sentBy |-> ann, message |-> m1, time |-> 0]
Item(u) == [toUsername |-> u, lastMessage |-> m1, lastMessageTime |-> 0]
ChatStored ==
    /\ users = Registered
    /\ chat_ids = <<[chat_id |-> 0, user1 |-> ann, user2 |-> bob]>>
    /\ chat_messages = <<[chat_id |-> 0, messages |-> <<First>>]>>
    /\ user_messages = <<[username |-> ann, messages |-> <<Item(bob)>>],
                         [username |-> bob, messages |-> <<Item(ann)>>]>>
    /\ now = 0 /\ faults = 0
    /\ Idle

Peer(d) == IF username[d] = ann THEN bob ELSE ann

\* Both devices have loaded their lists; the requests of that time are left out.
Loaded ==
    /\ username \in Logins
    /\ list = [d \in Devices |->
                 IF username[d] = Empty THEN NewList
                 ELSE [chats |-> <<Item(Peer(d))>>, refreshing |-> FALSE]]
    /\ task = [r \in Requests |-> NoTask]
    /\ lost = 0

\* Both are on their lists.
ListsLoaded ==
    /\ ChatStored /\ Loaded
    /\ top = [d \in Devices |-> "MessageList"]
    /\ chat = [d \in Devices |-> NewChat(Empty)]

\* Both have opened the chat they have with each other.
ChatLoaded ==
    /\ ChatStored /\ Loaded
    /\ \A d \in Devices : username[d] # Empty
    /\ top = [d \in Devices |-> "Message"]
    /\ chat = [d \in Devices |-> [NewChat(Peer(d)) EXCEPT !.messages = <<First>>]]

\* Nothing is stored, and both are about to write to a new contact.
NothingStored ==
    /\ Init
    /\ username \in Logins
    /\ \A d \in Devices : username[d] # Empty
    /\ list = [d \in Devices |-> NewList]
    /\ task = [r \in Requests |-> NoTask]
    /\ lost = 0
    /\ top = [d \in Devices |-> "MessageNew"]
    /\ chat = [d \in Devices |-> NewChat(Empty)]

\* Any user at any time: from nothing, and from an open chat
OpenedSpec ==
    /\ ChatsInit \/ ChatLoaded
    /\ [][ChatsNext]_chatVars
    /\ \A r \in Requests : WF_chatVars(Settles(r))

\* Patient users: also from the lists, and from two new chats.  One thing goes
\* wrong, on the server or on the way back.
OpenedPatientSpec ==
    /\ ChatsInit \/ ListsLoaded \/ ChatLoaded \/ NothingStored
    /\ [][PatientNext /\ FirstContactsSerial' /\ faults' + lost' <= 1]_chatVars

RequestSymmetry == Permutations(Requests)
=============================================================================
