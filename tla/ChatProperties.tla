--------------------------- MODULE ChatProperties ----------------------------
(***************************************************************************)
(* What the screens of the chat show, under any interleaving of presses,   *)
(* typing, answers and faults, and for users who wait for an answer before *)
(* they go on.                                                             *)
(***************************************************************************)
EXTENDS ChatScreens, ServerProperties

\* Every variable of the devices keeps its type.
ChatsTypeOK ==
    /\ username \in [Devices -> Typeable]
    /\ top \in [Devices -> Tops]
    /\ list \in [Devices -> ListState]
    /\ chat \in [Devices -> ChatState]
    /\ task \in [Requests -> [kind : TaskKinds, device : Devices \cup {Undefined}]]
    /\ lost \in Nat

\* The answer a callback takes for chats, for messages or for that of a send is
\* one: a fetch reaches the handler that the screen means or none, whatever the
\* names are (server.js 28-34 tries the message route before the sign-up route).
AnswersAreOfTheirKind ==
    \A r \in Requests :
        pc[r] # "idle" =>
            /\ task[r].kind = "chats" => call[r].op = "getUserChats"
            /\ task[r].kind = "messages" => call[r].op = "getUserChatMessages"
            /\ task[r].kind = "send" => call[r].op \in SendOps

\* Whom the messages on a chat screen go to (MessageNew.js:21 trims the contact)
Partner(d) ==
    IF top[d] = "Message" THEN chat[d].contact ELSE Trimmed(chat[d].contact)

Talked(d) == Conversation(username[d], Partner(d))

\* An open chat shows a beginning of the stored conversation without a gap, and
\* after it only messages in the user's own name: whatever is typed and pressed
\* meanwhile, and in whatever order the answers arrive.
ShownIsReadPlusOwn ==
    \A d \in Devices :
        top[d] = "Message" /\ chat[d].messages # Undefined =>
            \E k \in 0..Len(chat[d].messages) :
                /\ IsPrefix(SubSeq(chat[d].messages, 1, k), Talked(d))
                /\ \A i \in (k + 1)..Len(chat[d].messages) :
                      chat[d].messages[i].sentBy = username[d]

\* A chat list on a screen, however old, only previews messages that are stored in
\* a chat of the user and the contact.
ListedIsStored ==
    \A d \in Devices : list[d].chats # Undefined =>
        \A item \in ToSet(list[d].chats) : \E doc \in ToSet(chat_messages) :
            /\ \E c \in ToSet(chat_ids) :
                  /\ c.chat_id = doc.chat_id
                  /\ UsersOf(c) = {username[d], item.toUsername}
            /\ \E e \in ToSet(doc.messages) :
                  e.message = item.lastMessage /\ e.time = item.lastMessageTime

\* The spinner of a refresh stops, also when the server dies, answers with an
\* error or never answers (the catch of makeRequest, Message.js 61-64).
RefreshEnds ==
    \A d \in Devices : []<>~list[d].refreshing /\ []<>~chat[d].refreshing

Settles(r) ==
    \/ Step(r) /\ UNCHANGED <<username, top, list, chat, task, lost>>
    \/ Answer(r)

\* MongoDB settles every call and fetch settles every promise, by an answer or
\* by its timeout.  Nothing is assumed of the users.
FairChatsSpec ==
    ChatsSpec /\ \A r \in Requests : WF_chatVars(Settles(r))

----------------------------------------------------------------------------
(* Patient users: on a chat screen they wait for the answer before they    *)
(* type or press again, and they leave "Send to..." before they press.     *)
(* They may leave the screen at any time.  First contacts do not overlap   *)
(* on the server.                                                          *)

Waiting(d) == \E r \in Requests : Waits(r, d)

PatientStep(d) ==
    /\ Room(1)
    /\ \/ OpenApp(d) \/ RefreshList(d) \/ OpenChat(d) \/ OpenNewChat(d) \/ Back(d)
       \/ CloseApp(d)
       \/ /\ ~Waiting(d)
          /\ \/ TypeMessage(d) \/ FocusContact(d) \/ TypeContact(d)
             \/ ~chat[d].editing /\ (handleRefresh(d) \/ handleSendMessage(d))

PatientNext ==
    \/ \E d \in Devices : PatientStep(d)
    \/ \E r \in Requests : Answer(r)
    \/ ServerStep

PatientSpec == ChatsInit /\ [][PatientNext /\ FirstContactsSerial']_chatVars

\* What a message box shows of an entry (SingleMessage.js)
Boxes(entries) ==
    [i \in DOMAIN entries |-> [sentBy |-> entries[i].sentBy, message |-> entries[i].message]]

\* Every element of s is in t, in the same order.
Embedded(s, t) ==
    \E f \in [DOMAIN s -> DOMAIN t] :
        \A i, j \in DOMAIN s : s[i] = t[f[i]] /\ (i < j => f[i] < f[j])

\* What a chat screen shows was stored, in this order, in the chat with the
\* contact it names: also what it appended itself when a send was acknowledged.
ShownIsStored ==
    \A d \in Devices :
        top[d] \in ChatTops /\ chat[d].messages # Undefined =>
            Embedded(Boxes(chat[d].messages), Boxes(Talked(d)))

\* A message that is shown stays on the screen when newer lists arrive, until the
\* user changes the contact or an error empties the screen.
NothingDisappears ==
    [][\A d \in Devices :
          /\ top[d] \in ChatTops /\ top'[d] = top[d]
          /\ chat'[d].editing = chat[d].editing
          /\ chat[d].messages # Undefined /\ chat'[d].messages # Undefined
          => ToSet(Boxes(chat[d].messages)) \subseteq ToSet(Boxes(chat'[d].messages))]_chatVars

\* The preview of every chat on a list is found when the chat is opened.
ListedIsFound ==
    \A d \in Devices : list[d].chats # Undefined =>
        \A item \in ToSet(list[d].chats) :
            \E e \in ToSet(Conversation(username[d], item.toUsername)) :
                e.message = item.lastMessage /\ e.time = item.lastMessageTime
=============================================================================
