----------------------------- MODULE ChatScreens -----------------------------
(***************************************************************************)
(* The screens of someone who is signed in, on several devices: the list   *)
(* of chats (MessagesAll.js), an open chat (Message.js) and a new chat     *)
(* (MessageNew.js), composed with the server of MessageServer.             *)
(*                                                                         *)
(* A screen asks the server by fetch() and goes on; the callbacks run when *)
(* the answer is there, on the state that the screen has then.  A request  *)
(* r in Requests is the identity of one fetch; answers arrive in any       *)
(* order.                                                                  *)
(***************************************************************************)
EXTENDS MessageServer, Routes

CONSTANTS
    Devices,
    Undefined,  \* undefined, what an error answer has for messages or chats
    Logins,     \* the names that may be signed in on the devices
    Typed,      \* what users type into "Message..."
    Contacts,   \* what users type into "Send to..."
    Trim,       \* String.prototype.trim on Names
    MaxLost     \* bound on answers that are lost on the way

Typeable == Names \cup {Empty}
Texts    == Messages \cup {Empty}

ASSUME UndefinedAssumption == Undefined \notin Seq(Entry) \cup Seq(Preview)
ASSUME EmptyAssumption     == Empty \notin Names \cup Messages
ASSUME LoginsAssumption    == Logins \subseteq [Devices -> Typeable]
ASSUME TypedAssumption     == Typed \subseteq Texts
ASSUME ContactsAssumption  == Contacts \subseteq Typeable
ASSUME TrimAssumption      == Trim \in [Names -> Typeable]
ASSUME LostAssumption      == MaxLost \in Nat

VARIABLES
    username,  \* the display name of who is signed in on a device
    top,       \* the screen on top of a device's stack
    list,      \* this.state of MessagesAll
    chat,      \* this.state of Message or MessageNew
    task,      \* what a device waits for from a request
    lost       \* answers lost so far

server   == vars
chatVars == <<vars, username, top, list, chat, task, lost>>

Tops      == {"Closed", "MessageList", "Message", "MessageNew"}
ChatTops  == {"Message", "MessageNew"}
ChatTasks == {"messages", "send"}
TaskKinds == ChatTasks \cup {"unused", "chats", "ended"}

\* What the server stores; a text that is empty is only appended by a screen.
ShownEntry == [sentBy : Typeable, message : Texts, time : Nat]
Shown      == Seq(ShownEntry) \cup {Undefined}

ListState == [chats : Seq(Preview) \cup {Undefined}, refreshing : BOOLEAN]
ChatState == [contact : Typeable, messages : Shown, newMessage : Texts,
              refreshing : BOOLEAN, editing : BOOLEAN]

NewList == [chats |-> <<>>, refreshing |-> FALSE]

\* editing: the input "Send to..." has the focus
NewChat(contact) ==
    [contact |-> contact, messages |-> <<>>, newMessage |-> Empty,
     refreshing |-> FALSE, editing |-> FALSE]

NoTask == [kind |-> "unused", device |-> Undefined]

ChatsInit ==
    /\ Init
    /\ username \in Logins
    /\ top = [d \in Devices |-> "Closed"]
    /\ list = [d \in Devices |-> NewList]
    /\ chat = [d \in Devices |-> NewChat(Empty)]
    /\ task = [r \in Requests |-> NoTask]
    /\ lost = 0

----------------------------------------------------------------------------
(* fetch()                                                                 *)

Unused(r)     == task[r].kind = "unused"
Waits(r, d)   == task[r].device = d /\ task[r].kind \in ChatTasks
EndTask(r)    == task' = [task EXCEPT ![r].kind = "ended"]
Begins(r, d, kind) == [task EXCEPT ![r] = [kind |-> kind, device |-> d]]

\* Bound: users stop when the requests are used up; a request is left for the
\* refresh that follows the answer to a send.
Room(n) ==
    Cardinality({r \in Requests : Unused(r)}) >=
        n + Cardinality({r \in Requests :
                task[r].kind = "send" /\ top[task[r].device] = "MessageNew"})

\* The request reaches its handler, or no handler at all.
Request(r, method, path, message) ==
    \/ /\ Dispatch(method, path) \in Handlers
       /\ Receive(r)
       /\ call'[r] = [op |-> Dispatch(method, path), from |-> Head(path),
                      to |-> IF Len(path) = 1 THEN Head(path) ELSE path[2],
                      message |-> message]
    \/ Dispatch(method, path) \notin Handlers /\ UNCHANGED server

\* Only a send has a body.
NoBody == CHOOSE m \in Messages : TRUE

\* The paths of the fetches; an empty name leaves "/" of the first.
ChatsPath(d)             == IF username[d] = Empty THEN <<>> ELSE <<username[d]>>
MessagesPath(d, contact) == <<username[d], contact, "messages">>
SendPath(d, contact)     == <<username[d], contact, "message">>

Trimmed(contact) == IF contact = Empty THEN Empty ELSE Trim[contact]

\* makeRequest of MessagesAll.js
RequestChats(d) ==
    \E r \in Requests :
        /\ Unused(r)
        /\ Request(r, "GET", ChatsPath(d), NoBody)
        /\ task' = Begins(r, d, "chats")

\* makeRequest of Message.js and MessageNew.js
RequestMessages(d, contact) ==
    \E r \in Requests :
        /\ Unused(r)
        /\ Request(r, "GET", MessagesPath(d, contact), NoBody)
        /\ task' = Begins(r, d, "messages")

----------------------------------------------------------------------------
(* The list of chats                                                       *)

\* componentDidMount takes the display name and loads the chats.
OpenApp(d) ==
    /\ top[d] = "Closed"
    /\ top' = [top EXCEPT ![d] = "MessageList"]
    /\ list' = [list EXCEPT ![d] = NewList]
    /\ RequestChats(d)
    /\ UNCHANGED <<username, chat, lost>>

RefreshList(d) ==
    /\ top[d] = "MessageList"
    /\ list' = [list EXCEPT ![d].refreshing = TRUE]
    /\ RequestChats(d)
    /\ UNCHANGED <<username, top, chat, lost>>

\* The status is not looked at: an error answer has no chats.
ChatsArrive(r) ==
    /\ task[r].kind = "chats"
    /\ pc[r] = "done"
    /\ list' = [list EXCEPT ![task[r].device] =
                  [chats |-> IF reply[r].status = "SUCCESS" THEN reply[r].body
                                                            ELSE Undefined,
                   refreshing |-> FALSE]]
    /\ EndTask(r)
    /\ UNCHANGED <<server, username, top, chat, lost>>

\* navigate('Message', ...) from an item of the list, and componentDidMount
OpenChat(d) ==
    /\ top[d] = "MessageList"
    /\ list[d].chats # Undefined
    /\ top' = [top EXCEPT ![d] = "Message"]
    /\ \E item \in ToSet(list[d].chats) :
          /\ chat' = [chat EXCEPT ![d] = NewChat(item.toUsername)]
          /\ RequestMessages(d, item.toUsername)
    /\ UNCHANGED <<username, list, lost>>

OpenNewChat(d) ==
    /\ top[d] = "MessageList"
    /\ top' = [top EXCEPT ![d] = "MessageNew"]
    /\ chat' = [chat EXCEPT ![d] = NewChat(Empty)]
    /\ UNCHANGED <<server, username, list, task, lost>>

\* Callbacks of a screen that was left change nothing.
Back(d) ==
    /\ top[d] \in ChatTops
    /\ top' = [top EXCEPT ![d] = "MessageList"]
    /\ chat' = [chat EXCEPT ![d] = NewChat(Empty)]
    /\ task' = [r \in Requests |->
                   IF Waits(r, d) THEN [task[r] EXCEPT !.kind = "ended"] ELSE task[r]]
    /\ UNCHANGED <<server, username, list, lost>>

\* The app is stopped, at any point.
CloseApp(d) ==
    /\ top[d] # "Closed"
    /\ top' = [top EXCEPT ![d] = "Closed"]
    /\ chat' = [chat EXCEPT ![d] = NewChat(Empty)]
    /\ list' = [list EXCEPT ![d] = NewList]
    /\ task' = [r \in Requests |->
                   IF task[r].device = d THEN [task[r] EXCEPT !.kind = "ended"]
                                         ELSE task[r]]
    /\ UNCHANGED <<server, username, lost>>

----------------------------------------------------------------------------
(* A chat                                                                  *)

TypeMessage(d) ==
    /\ top[d] \in ChatTops
    /\ \E text \in Typed :
          chat' = [chat EXCEPT ![d].newMessage = text, ![d].editing = FALSE]
    /\ UNCHANGED <<server, username, top, list, task, lost>>

\* Mutant: the messages stay when the contact gets the focus
FocusContact_Keep(d) ==
    /\ top[d] = "MessageNew"
    /\ ~chat[d].editing
    /\ chat' = [chat EXCEPT ![d].editing = TRUE]
    /\ UNCHANGED <<server, username, top, list, task, lost>>

\* onFocus of "Send to..." takes the messages away.
FocusContact(d) ==
    /\ top[d] = "MessageNew"
    /\ ~chat[d].editing
    /\ chat' = [chat EXCEPT ![d].messages = <<>>, ![d].editing = TRUE]
    /\ UNCHANGED <<server, username, top, list, task, lost>>

TypeContact(d) ==
    /\ top[d] = "MessageNew"
    /\ chat[d].editing
    /\ \E text \in Contacts : chat' = [chat EXCEPT ![d].contact = text]
    /\ UNCHANGED <<server, username, top, list, task, lost>>

handleRefresh(d) ==
    /\ top[d] \in ChatTops
    /\ chat' = [chat EXCEPT ![d].refreshing = TRUE]
    /\ RequestMessages(d, chat[d].contact)
    /\ UNCHANGED <<username, top, list, lost>>

\* PUT from an open chat, POST from a new one, which trims the contact.  The
\* button is not disabled while a send is in progress.
handleSendMessage(d) ==
    /\ chat[d].newMessage # Empty
    /\ \/ top[d] = "Message"
       \/ top[d] = "MessageNew" /\ chat[d].contact # Empty /\ Room(2)
    /\ \E r \in Requests :
          /\ Unused(r)
          /\ task' = Begins(r, d, "send")
          /\ \/ /\ top[d] = "Message"
                /\ Request(r, "PUT", SendPath(d, chat[d].contact), chat[d].newMessage)
             \/ /\ top[d] = "MessageNew"
                /\ Request(r, "POST", SendPath(d, Trimmed(chat[d].contact)),
                           chat[d].newMessage)
    /\ UNCHANGED <<username, top, list, chat, lost>>

\* Mutant: an error answer is taken as an empty list
MessagesArrive_Empty(r) ==
    /\ task[r].kind = "messages"
    /\ pc[r] = "done"
    /\ chat' = [chat EXCEPT ![task[r].device].messages = reply[r].body]
    /\ EndTask(r)
    /\ UNCHANGED <<server, username, top, list, lost>>

\* The status is not looked at: an error answer has no messages.
MessagesArrive(r) ==
    /\ task[r].kind = "messages"
    /\ pc[r] = "done"
    /\ LET d == task[r].device
       IN  chat' = [chat EXCEPT
              ![d].messages = IF reply[r].status = "SUCCESS" THEN reply[r].body
                                                             ELSE Undefined,
              ![d].refreshing = FALSE]
    /\ EndTask(r)
    /\ UNCHANGED <<server, username, top, list, lost>>

\* Mutant: the item has no time, which the screen does not show
OwnMessage_NoTime(d) ==
    [sentBy |-> username[d], message |-> chat[d].newMessage, time |-> Undefined]

\* The text that is in the input now, not the one that was sent
OwnMessage(d) == [sentBy |-> username[d], message |-> chat[d].newMessage, time |-> now]

\* The callback appends to the messages, clears the input and, on a new chat,
\* asks for the messages again.  Messages that are undefined cannot be spread:
\* the callback throws.
SendSucceeds(r) ==
    /\ task[r].kind = "send"
    /\ pc[r] = "done"
    /\ reply[r].status = "SUCCESS"
    /\ LET d == task[r].device
       IN  /\ chat[d].messages # Undefined
           /\ chat' = [chat EXCEPT ![d].messages = Append(@, OwnMessage(d)),
                                   ![d].newMessage = Empty]
           /\ \/ /\ top[d] = "Message"
                 /\ EndTask(r)
                 /\ UNCHANGED server
              \/ /\ top[d] = "MessageNew"
                 /\ \E s \in Requests :
                       /\ Unused(s)
                       /\ Request(s, "GET", MessagesPath(d, chat[d].contact), NoBody)
                       /\ task' = [Begins(s, d, "messages") EXCEPT ![r].kind = "ended"]
    /\ UNCHANGED <<username, top, list, lost>>

\* An error answer, or messages that are undefined: the input is kept.
SendFails(r) ==
    /\ task[r].kind = "send"
    /\ pc[r] = "done"
    /\ reply[r].status # "SUCCESS" \/ chat[task[r].device].messages = Undefined
    /\ EndTask(r)
    /\ UNCHANGED <<server, username, top, list, chat, lost>>

\* Mutant: the catch of makeRequest does not stop the spinner
StopsRefreshing_Not(r) == UNCHANGED <<list, chat>>

StopsRefreshing(r) ==
    \/ /\ task[r].kind = "chats"
       /\ list' = [list EXCEPT ![task[r].device].refreshing = FALSE]
       /\ UNCHANGED chat
    \/ /\ task[r].kind = "messages"
       /\ chat' = [chat EXCEPT ![task[r].device].refreshing = FALSE]
       /\ UNCHANGED list
    \/ /\ task[r].kind = "send"
       /\ UNCHANGED <<list, chat>>

\* The promise of fetch() is rejected: no handler was reached (404, or GET / that
\* never answers) or the server has died, or the answer is lost on the way.
FetchFails(r) ==
    /\ task[r].kind \in ChatTasks \cup {"chats"}
    /\ \/ pc[r] \in {"idle", "lost"} /\ UNCHANGED lost
       \/ lost < MaxLost /\ lost' = lost + 1
    /\ StopsRefreshing(r)
    /\ EndTask(r)
    /\ UNCHANGED <<server, username, top>>

----------------------------------------------------------------------------

ServerStep ==
    /\ \/ \E r \in Requests : Step(r) \/ CallFails(r) \/ AckLost(r)
       \/ Crash
       \/ Tick
    /\ UNCHANGED <<username, top, list, chat, task, lost>>

Answer(r) ==
    ChatsArrive(r) \/ MessagesArrive(r) \/ SendSucceeds(r) \/ SendFails(r) \/ FetchFails(r)

UserStep(d) ==
    /\ Room(1)
    /\ \/ OpenApp(d) \/ RefreshList(d) \/ OpenChat(d) \/ OpenNewChat(d) \/ Back(d)
       \/ CloseApp(d) \/ TypeMessage(d) \/ FocusContact(d) \/ TypeContact(d)
       \/ handleRefresh(d) \/ handleSendMessage(d)

ChatsNext ==
    \/ \E d \in Devices : UserStep(d)
    \/ \E r \in Requests : Answer(r)
    \/ ServerStep

ChatsSpec == ChatsInit /\ [][ChatsNext]_chatVars
=============================================================================
