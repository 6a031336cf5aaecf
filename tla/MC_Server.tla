----------------------------- MODULE MC_Server -----------------------------
(***************************************************************************)
(* Instances of the server for TLC: three usernames, of which BOB differs  *)
(* from bob only in case.                                                  *)
(***************************************************************************)
EXTENDS ServerProperties

CONSTANTS ann, bob, BOB, m1, m2

MCNames      == {ann, bob, BOB}
MCLower      == [n \in MCNames |-> IF n = BOB THEN bob ELSE n]
MCRegistered == <<ann, bob>>
MCMessages   == {m1, m2}

Make(op, a, b, m) == [op |-> op, from |-> a, to |-> b, message |-> m]

\* Every handler, on both sides of a chat, to a misspelt name and to oneself.
AllCalls ==
    {Make("sendNewMessage", ann, bob, m1), Make("sendNewMessage", bob, ann, m2),
     Make("sendNewMessage", ann, BOB, m1), Make("sendNewMessage", ann, ann, m1),
     Make("sendMessage", ann, bob, m1), Make("sendMessage", bob, ann, m2),
     Make("getUserChatMessages", bob, ann, m1), Make("getUserChats", ann, ann, m1),
     Make("getExistingUsernames", ann, ann, m1), Make("addNewUser", BOB, ann, m1)}

\* The calls that share a chat: its opening from both sides, two more messages
\* and a refresh.
ChatCalls ==
    {Make("sendNewMessage", ann, bob, m1), Make("sendNewMessage", bob, ann, m2),
     Make("sendMessage", ann, bob, m1), Make("sendMessage", bob, ann, m2),
     Make("getUserChatMessages", bob, ann, m1)}

\* Two users write to ann, who has a chat with neither (BOB is a third user).
ThreeRegistered == <<ann, bob, BOB>>
OpeningCalls ==
    {Make("sendNewMessage", bob, ann, m1), Make("sendNewMessage", BOB, ann, m2)}

\* Two chats are opened, one of them from both sides, next to a send and a read.
SerialCalls ==
    OpeningCalls \cup
    {Make("sendNewMessage", ann, bob, m2), Make("sendMessage", ann, bob, m1),
     Make("getUserChatMessages", bob, ann, m1)}

\* The calls of a chat, with what must not confuse a handler that runs alone: the
\* same text from the other user, a chat with oneself, and sign-ups of a user who
\* has signed up before and of one who has not.
SequentialCalls ==
    ChatCalls \cup
    {Make("sendMessage", bob, ann, m1), Make("sendNewMessage", ann, ann, m1),
     Make("sendMessage", ann, ann, m2), Make("addNewUser", bob, ann, m1),
     Make("addNewUser", BOB, ann, m1)}

ReplyCalls ==
    {Make("sendMessage", ann, bob, m1), Make("sendMessage", bob, ann, m2)}

\* The collections after ann has opened a chat with bob by one message
OpenChat ==
    LET first == [sentBy |-> ann, message |-> m1, time |-> 0]
        item(u) == [toUsername |-> u, lastMessage |-> m1, lastMessageTime |-> 0]
    IN  /\ users = Registered
        /\ chat_ids = <<[chat_id |-> 0, user1 |-> ann, user2 |-> bob]>>
        /\ chat_messages = <<[chat_id |-> 0, messages |-> <<first>>]>>
        /\ user_messages = <<[username |-> ann, messages |-> <<item(bob)>>],
                             [username |-> bob, messages |-> <<item(ann)>>]>>
        /\ now = 0
        /\ faults = 0

OpenChatInit == OpenChat /\ Idle

\* The request r, which makes the call c, is late: it has found no chat, and has
\* perhaps also read the largest chat_id, before ann opened hers (by a third request,
\* which has ended).  So it will add a row for the same pair, with another chat_id or
\* with the same one, or a row with the same chat_id for another pair.
LateInit(r, c) ==
    /\ OpenChat
    /\ \/ pc = [s \in Requests |-> IF s = r THEN "insertChatId" ELSE "idle"]
       \/ /\ {c.from, c.to} = {ann, bob}
          /\ pc = [s \in Requests |-> IF s = r THEN "lastChatId" ELSE "idle"]
    /\ call = [s \in Requests |-> IF s = r THEN c ELSE NoCall]
    /\ local = [s \in Requests |->
                   [time |-> 0, chat |-> 0, fresh |-> s = r, rows |-> <<>>]]
    /\ reply = [s \in Requests |-> NoReply]

\* From empty collections, from an open chat, and from one with a late opening
BothSpec ==
    /\ \/ Init
       \/ OpenChatInit
       \/ LateInit(CHOOSE r \in Requests : TRUE, Make("sendNewMessage", bob, ann, m2))
       \/ LateInit(CHOOSE r \in Requests : TRUE, Make("sendNewMessage", ann, BOB, m1))
    /\ [][Next]_vars
    /\ \A r \in Requests : WF_vars(Step(r))

RequestSymmetry == Permutations(Requests)
=============================================================================
