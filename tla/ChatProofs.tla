----------------------------- MODULE ChatProofs -----------------------------
(***************************************************************************)
(* Theorems about the chat screens and the server together, for every set  *)
(* of devices, names, messages and requests, and for any number of errors, *)
(* crashes and lost answers: users press and type whatever they want, and  *)
(* answers arrive in any order.                                            *)
(***************************************************************************)
EXTENDS ChatProperties, StorageProofs

----------------------------------------------------------------------------
(* Routes                                                                  *)

\* A request reaches the first route that fits.
LEMMA DispatchFits ==
    ASSUME NEW method, NEW path
    PROVE  \/ Dispatch(method, path) = "none"
           \/ \E i \in 1..Len(Routes) :
                 /\ Fits(Routes[i], method, path)
                 /\ Dispatch(method, path) = Routes[i].op
                 /\ \A j \in 1..Len(Routes) : Fits(Routes[j], method, path) => i <= j
<1> DEFINE I == {i \in 1..Len(Routes) : Fits(Routes[i], method, path)}
           m == SelectInSeq(Routes, LAMBDA route : Fits(route, method, path))
<1>1. m = IF I # {} THEN Min(I) ELSE 0
  BY Zenon DEF SelectInSeq
<1>2. I \subseteq 1..Len(Routes) /\ Len(Routes) \in Nat
  BY DEF Routes
<1>3. /\ m # 0 => m \in I
      /\ \A j \in I : m <= j
  <2> HIDE DEF I, m
  <2> QED
    BY <1>1, <1>2, FirstMatch
<1>4. Dispatch(method, path) = IF m = 0 THEN "none" ELSE Routes[m].op
  BY Zenon DEF Dispatch
<1> QED
  BY <1>3, <1>4

LEMMA Tuples ==
    /\ Len(<<>>) = 0
    /\ \A a : Len(<<a>>) = 1
    /\ \A a, b : Len(<<a, b>>) = 2
    /\ \A a, b, c : /\ Len(<<a, b, c>>) = 3
                    /\ DOMAIN <<a, b, c>> = 1..3
                    /\ <<a, b, c>>[1] = a /\ <<a, b, c>>[2] = b /\ <<a, b, c>>[3] = c
OBVIOUS

LEMMA SevenElements ==
    \A a, b, c, d, e, f, g :
        /\ Len(<<a, b, c, d, e, f, g>>) = 7
        /\ <<a, b, c, d, e, f, g>>[1] = a
        /\ <<a, b, c, d, e, f, g>>[2] = b
        /\ <<a, b, c, d, e, f, g>>[3] = c
        /\ <<a, b, c, d, e, f, g>>[4] = d
        /\ <<a, b, c, d, e, f, g>>[5] = e
        /\ <<a, b, c, d, e, f, g>>[6] = f
        /\ <<a, b, c, d, e, f, g>>[7] = g
OBVIOUS

LEMMA RouteTable ==
    /\ Len(Routes) = 7
    /\ Routes[1] = Route("GET",  <<>>, "never")
    /\ Routes[2] = Route("GET",  <<"users", "existing">>, "getExistingUsernames")
    /\ Routes[3] = Route("GET",  <<Param>>, "getUserChats")
    /\ Routes[4] = Route("GET",  <<Param, Param, "messages">>, "getUserChatMessages")
    /\ Routes[5] = Route("PUT",  <<Param, Param, "message">>, "sendMessage")
    /\ Routes[6] = Route("POST", <<Param, Param, "message">>, "sendNewMessage")
    /\ Routes[7] = Route("POST", <<"add", "user", Param>>, "addNewUser")
<1> DEFINE a == Route("GET",  <<>>, "never")
           b == Route("GET",  <<"users", "existing">>, "getExistingUsernames")
           c == Route("GET",  <<Param>>, "getUserChats")
           d == Route("GET",  <<Param, Param, "messages">>, "getUserChatMessages")
           e == Route("PUT",  <<Param, Param, "message">>, "sendMessage")
           f == Route("POST", <<Param, Param, "message">>, "sendNewMessage")
           g == Route("POST", <<"add", "user", Param>>, "addNewUser")
<1>1. Routes = <<a, b, c, d, e, f, g>>
  BY DEF Routes
<1>2. /\ Len(Routes) = 7 /\ Routes[1] = a /\ Routes[2] = b /\ Routes[3] = c
      /\ Routes[4] = d /\ Routes[5] = e /\ Routes[6] = f /\ Routes[7] = g
  <2> HIDE DEF a, b, c, d, e, f, g
  <2> QED
    BY <1>1, SevenElements
<1> QED
  BY <1>2, Zenon

\* A request fits a route by its method, its length and its segments.
LEMMA FitsFacts ==
    ASSUME NEW m, NEW pattern, NEW op, NEW method, NEW path,
           Fits(Route(m, pattern, op), method, path)
    PROVE  /\ method = m /\ Len(pattern) = Len(path)
           /\ \A i \in DOMAIN path :
                 \/ pattern[i] = path[i]
                 \/ pattern[i] = Param /\ path[i] # Empty
BY DEF Fits, Route

LEMMA FitsRoute ==
    ASSUME NEW i \in 1..7, NEW method, NEW path, Fits(Routes[i], method, path)
    PROVE  /\ i \in {1, 2, 3, 4} => method = "GET"
           /\ i = 5 => method = "PUT"
           /\ i \in {6, 7} => method = "POST"
           /\ Len(path) = IF i = 1 THEN 0 ELSE IF i = 2 THEN 2
                          ELSE IF i = 3 THEN 1 ELSE 3
<1>1. \A m, pattern, op : Routes[i] = Route(m, pattern, op) =>
          method = m /\ Len(pattern) = Len(path)
  BY FitsFacts
<1>2. \/ i = 1 \/ i = 2 \/ i = 3 \/ i = 4 \/ i = 5 \/ i = 6 \/ i = 7
  OBVIOUS
<1>3. CASE i = 1
  BY <1>1, <1>3, RouteTable, Tuples
<1>4. CASE i = 2
  BY <1>1, <1>4, RouteTable, Tuples
<1>5. CASE i = 3
  BY <1>1, <1>5, RouteTable, Tuples
<1>6. CASE i = 4
  BY <1>1, <1>6, RouteTable, Tuples
<1>7. CASE i = 5
  BY <1>1, <1>7, RouteTable, Tuples
<1>8. CASE i = 6
  BY <1>1, <1>8, RouteTable, Tuples
<1>9. CASE i = 7
  BY <1>1, <1>9, RouteTable, Tuples
<1> QED
  BY <1>2, <1>3, <1>4, <1>5, <1>6, <1>7, <1>8, <1>9

\* The handlers that the fetches of the screens reach, whatever the names are
LEMMA PathsDispatch ==
    ASSUME NEW u, NEW c
    PROVE  /\ Dispatch("GET", <<>>) \notin Handlers
           /\ Dispatch("GET", <<u>>) \in {"getUserChats", "none"}
           /\ Dispatch("GET", <<u, c, "messages">>) \in {"getUserChatMessages", "none"}
           /\ Dispatch("PUT", <<u, c, "message">>) \in {"sendMessage", "none"}
           /\ Dispatch("POST", <<u, c, "message">>) \in {"sendNewMessage", "none"}
<1> DEFINE path(last) == <<u, c, last>>
<1>1. Len(<<>>) = 0 /\ Len(<<u>>) = 1 /\ \A last : Len(path(last)) = 3
  BY Tuples
<1>2. \A m, pattern, op : Route(m, pattern, op).op = op
  BY DEF Route
<1>3. Len(Routes) = 7
  BY RouteTable
<1>4. \A i \in 1..7 : Fits(Routes[i], "GET", <<>>) => i = 1
  BY <1>1, FitsRoute
<1>5. \A i \in 1..7 : Fits(Routes[i], "GET", <<u>>) => i = 3
  <2>1. ASSUME NEW p, Len(p) = 1, NEW i \in 1..7, Fits(Routes[i], "GET", p)
        PROVE  i = 3
    <3>1. /\ i = 5 => "GET" = "PUT"
          /\ i \in {6, 7} => "GET" = "POST"
          /\ 1 = IF i = 1 THEN 0 ELSE IF i = 2 THEN 2 ELSE IF i = 3 THEN 1 ELSE 3
      BY <2>1, FitsRoute
    <3> QED
      BY <3>1
  <2> QED
    BY <1>1, <2>1
<1>6. \A i \in 1..7 : Fits(Routes[i], "GET", path("messages")) => i = 4
  <2> HIDE DEF path
  <2> QED
    BY <1>1, FitsRoute
<1>7. \A i \in 1..7 : Fits(Routes[i], "PUT", path("message")) => i = 5
  <2> HIDE DEF path
  <2> QED
    BY <1>1, FitsRoute
<1>8. \A i \in 1..7 : Fits(Routes[i], "POST", path("message")) => i \in {6, 7}
  <2> HIDE DEF path
  <2> QED
    BY <1>1, FitsRoute
<1>9. Fits(Routes[7], "POST", path("message")) => Fits(Routes[6], "POST", path("message"))
  <2> SUFFICES ASSUME Fits(Routes[7], "POST", path("message"))
               PROVE  Fits(Routes[6], "POST", path("message"))
    OBVIOUS
  <2>1. \A j \in DOMAIN path("message") :
           \/ <<"add", "user", Param>>[j] = path("message")[j]
           \/ <<"add", "user", Param>>[j] = Param /\ path("message")[j] # Empty
    <3>1. Fits(Route("POST", <<"add", "user", Param>>, "addNewUser"), "POST", path("message"))
      BY RouteTable
    <3> HIDE DEF path
    <3> QED
      BY <3>1, FitsFacts
  <2>2. ("add" = u \/ "add" = Param) /\ ("user" = c \/ "user" = Param)
    BY <2>1, Tuples
  <2>3. u # Empty /\ c # Empty
    BY <2>2, SegmentsAssumption DEF Param
  <2> QED
    BY <2>3, RouteTable, Tuples DEF Fits, Route
<1> HIDE DEF path
<1>10. Dispatch("GET", <<>>) \notin Handlers
  BY <1>2, <1>3, <1>4, RouteTable, DispatchFits DEF Handlers
<1>11. Dispatch("GET", <<u>>) \in {"getUserChats", "none"}
  BY <1>2, <1>3, <1>5, RouteTable, DispatchFits
<1>12. Dispatch("GET", path("messages")) \in {"getUserChatMessages", "none"}
  BY <1>2, <1>3, <1>6, RouteTable, DispatchFits
<1>13. Dispatch("PUT", path("message")) \in {"sendMessage", "none"}
  BY <1>2, <1>3, <1>7, RouteTable, DispatchFits
<1>14. Dispatch("POST", path("message")) \in {"sendNewMessage", "none"}
  <2>1. \A i \in 1..7 :
           /\ Fits(Routes[i], "POST", path("message"))
           /\ \A j \in 1..7 : Fits(Routes[j], "POST", path("message")) => i <= j
           => i = 6
    BY <1>8, <1>9
  <2> QED
    BY <1>2, <1>3, <2>1, RouteTable, DispatchFits
<1> QED
  BY <1>10, <1>11, <1>12, <1>13, <1>14 DEF path

----------------------------------------------------------------------------
(* The screens use the server                                              *)

\* A fetch that reaches a handler is received; otherwise the server does nothing.
LEMMA RequestEffect ==
    ASSUME TypeOK, NEW r \in Requests, NEW method, NEW path, NEW message,
           Request(r, method, path, message)
    PROVE  /\ [Next]_vars
           /\ \A s \in Requests : s # r => UNCHANGED <<pc[s], call[s]>>
           /\ \/ UNCHANGED <<pc[r], call[r]>>
              \/ /\ Dispatch(method, path) \in Handlers
                 /\ call'[r].op = Dispatch(method, path)
                 /\ call'[r].from = Head(path)
                 /\ Len(path) # 1 => call'[r].to = path[2]
<1>1. CASE UNCHANGED server
  BY <1>1 DEF server, vars
<1>2. CASE /\ Receive(r)
           /\ Dispatch(method, path) \in Handlers
           /\ call'[r] = [op |-> Dispatch(method, path), from |-> Head(path),
                          to |-> IF Len(path) = 1 THEN Head(path) ELSE path[2],
                          message |-> message]
  <2>1. \A s \in Requests : s # r => UNCHANGED <<pc[s], call[s]>>
    BY <1>2 DEF Receive, Await, TypeOK, RequestsOK
  <2>2. Next
    BY <1>2 DEF Next
  <2> QED
    BY <1>2, <2>1, <2>2
<1> QED
  BY <1>1, <1>2 DEF Request

LEMMA ServerStepEffect ==
    ASSUME TypeOK, ServerStep
    PROVE  /\ [Next]_vars
           /\ UNCHANGED call
           /\ \A r \in Requests : pc[r] = "idle" => pc'[r] = "idle"
<1>1. Next
  BY DEF ServerStep, Next
<1>2. ASSUME NEW s \in Requests, Step(s)
      PROVE  UNCHANGED call /\ pc[s] # "idle"
  BY <1>2 DEF Step, getExistingUsernames, getUserChats, getUserChatMessages,
              sendMessage, sendNewMessage, addNewUser, UpdatePreviews, ListUsernames,
              FindChats, CheckRecipient, FindChat, FindMessages, PushMessage,
              AllocateChatId, InsertChatId, InsertMessages, ReadSender, WriteSender,
              ReadRecipient, WriteRecipient, ReadRow, InsertUser, InsertRow
<1>3. ASSUME NEW s \in Requests, CallFails(s) \/ AckLost(s)
      PROVE  UNCHANGED call /\ pc[s] # "idle"
  BY <1>3 DEF CallFails, AckLost, Running, ReadCalls, WriteCalls
<1>4. ASSUME NEW s \in Requests, Step(s) \/ CallFails(s) \/ AckLost(s),
             NEW r \in Requests, pc[r] = "idle"
      PROVE  pc'[r] = "idle"
  <2>1. s # r
    BY <1>2, <1>3, <1>4
  <2>2. CASE Step(s)
    BY <1>4, <2>1, <2>2, StepIsLocal
  <2>3. CASE CallFails(s) \/ AckLost(s)
    BY <1>4, <2>1, <2>3 DEF CallFails, AckLost, SendError, Send, TypeOK, RequestsOK
  <2> QED
    BY <1>4, <2>2, <2>3
<1>5. CASE Crash \/ Tick
  BY <1>1, <1>5 DEF Crash, Tick, Running, ReadCalls, WriteCalls
<1> QED
  BY <1>1, <1>2, <1>3, <1>4, <1>5 DEF ServerStep

LEMMA ScreensTakeServerSteps ==
    ASSUME TypeOK, [ChatsNext]_chatVars
    PROVE  [Next]_vars
<1>1. ASSUME NEW d \in Devices, UserStep(d)
      PROVE  [Next]_vars
  <2>1. CASE OpenNewChat(d) \/ Back(d) \/ CloseApp(d) \/ TypeMessage(d)
             \/ FocusContact(d) \/ TypeContact(d)
    BY <2>1 DEF OpenNewChat, Back, CloseApp, TypeMessage, FocusContact, TypeContact,
                server
  <2>2. ASSUME RequestChats(d) \/ \E contact : RequestMessages(d, contact)
        PROVE  [Next]_vars
    BY <2>2, RequestEffect DEF RequestChats, RequestMessages
  <2>3. CASE OpenApp(d) \/ RefreshList(d) \/ OpenChat(d) \/ handleRefresh(d)
    BY <2>2, <2>3 DEF OpenApp, RefreshList, OpenChat, handleRefresh
  <2>4. CASE handleSendMessage(d)
    BY <2>4, RequestEffect DEF handleSendMessage
  <2> QED
    BY <1>1, <2>1, <2>3, <2>4, Zenon DEF UserStep
<1>2. ASSUME NEW r \in Requests, Answer(r)
      PROVE  [Next]_vars
  <2>1. CASE ChatsArrive(r) \/ MessagesArrive(r) \/ SendFails(r) \/ FetchFails(r)
    BY <2>1 DEF ChatsArrive, MessagesArrive, SendFails, FetchFails, server
  <2>2. CASE SendSucceeds(r)
    <3>1. \/ UNCHANGED server
          \/ \E s \in Requests : \E path : Request(s, "GET", path, NoBody)
      BY <2>2, Zenon DEF SendSucceeds
    <3> QED
      BY <3>1, RequestEffect DEF server
  <2> QED
    BY <1>2, <2>1, <2>2 DEF Answer
<1>3. CASE ServerStep
  BY <1>3, ServerStepEffect
<1>4. CASE UNCHANGED chatVars
  BY <1>4 DEF chatVars
<1> QED
  BY <1>1, <1>2, <1>3, <1>4 DEF ChatsNext

\* Whatever users do on the screens, the server behaves as MessageServer says, so
\* that every theorem about the server holds of it under the screens.
THEOREM ChatsUseServer == ChatsSpec => Spec
<1>1. ChatsInit => Init
  BY DEF ChatsInit
<1>2. TypeOK /\ [ChatsNext]_chatVars => [Next]_vars
  BY ScreensTakeServerSteps
<1>3. TypeOK /\ [Next]_vars => TypeOK'
  BY TypeStep
<1> QED
  BY <1>1, <1>2, <1>3, TypeInit, PTL DEF ChatsSpec, Spec

----------------------------------------------------------------------------
(* The invariant                                                           *)

\* A fetch that was received is answered with what the screen expects, and asks
\* for the user who is signed in and the contact of the chat that is open.
FetchOf(r) ==
    LET d == task[r].device
    IN  /\ Unused(r) => pc[r] = "idle"
        /\ ~Unused(r) => d \in Devices
        /\ task[r].kind \in ChatTasks => top[d] \in ChatTops
        /\ pc[r] # "idle" =>
              /\ task[r].kind = "chats" =>
                    call[r].op = "getUserChats" /\ call[r].from = username[d]
              /\ task[r].kind = "messages" =>
                    /\ call[r].op = "getUserChatMessages"
                    /\ top[d] = "Message" =>
                          call[r].from = username[d] /\ call[r].to = chat[d].contact
              /\ task[r].kind = "send" => call[r].op \in SendOps

\* Messages that begin with a beginning of the talk, and go on in u's name
ReadPlusOwn(messages, talk, u) ==
    \E k \in 0..Len(messages) :
        /\ IsPrefix(SubSeq(messages, 1, k), talk)
        /\ \A i \in (k + 1)..Len(messages) : messages[i].sentBy = u

ChatOn(d) ==
    top[d] = "Message" /\ chat[d].messages # Undefined =>
        ReadPlusOwn(chat[d].messages, Talked(d), username[d])

ListOn(d) ==
    list[d].chats # Undefined =>
        \A p \in ToSet(list[d].chats) : Previewed(username[d], p)

ChatsInv ==
    /\ StorageInv
    /\ ChatsTypeOK
    /\ \A r \in Requests : FetchOf(r)
    /\ \A d \in Devices : ChatOn(d) /\ ListOn(d)

LEMMA ChatsInitially == ChatsInit => ChatsInv
<1> SUFFICES ASSUME ChatsInit PROVE ChatsInv
  OBVIOUS
<1>1. StorageInv
  BY StorageInit DEF ChatsInit
<1>2. ChatsTypeOK
  <2>1. NewList \in ListState /\ NewChat(Empty) \in ChatState
    BY DEF NewList, ListState, NewChat, ChatState, Typeable, Texts, Shown
  <2>2. username \in [Devices -> Typeable]
    BY LoginsAssumption DEF ChatsInit
  <2>3. /\ list \in [Devices -> ListState] /\ chat \in [Devices -> ChatState]
        /\ top \in [Devices -> Tops]
    BY <2>1 DEF ChatsInit, Tops
  <2>4. task \in [Requests -> [kind : TaskKinds, device : Devices \cup {Undefined}]]
    BY DEF ChatsInit, NoTask, TaskKinds
  <2> QED
    BY <2>2, <2>3, <2>4 DEF ChatsTypeOK, ChatsInit
<1>3. \A r \in Requests : FetchOf(r)
  BY DEF ChatsInit, Init, Idle, NoTask, FetchOf, Unused, ChatTasks
<1>4. \A d \in Devices : ChatOn(d) /\ ListOn(d)
  BY DEF ChatsInit, ChatOn, ListOn, NewList, ToSet
<1> QED
  BY <1>1, <1>2, <1>3, <1>4 DEF ChatsInv

----------------------------------------------------------------------------
(* Fetches                                                                 *)

\* A step that neither starts the fetch nor changes what it is for
LEMMA FetchStays ==
    ASSUME ChatsInv, NEW r \in Requests, UNCHANGED username,
           pc[r] = "idle" => pc'[r] = "idle", UNCHANGED call[r],
           \/ task'[r] = task[r]
           \/ /\ ~Unused(r)
              /\ task'[r].kind = "ended" /\ task'[r].device = task[r].device,
           LET d == task[r].device
           IN  task'[r].kind \in ChatTasks =>
                  top'[d] = top[d] /\ (top[d] = "Message" => chat'[d].contact = chat[d].contact)
    PROVE  FetchOf(r)'
BY DEF ChatsInv, FetchOf, Unused, ChatTasks

\* The fetch of a list of chats
LEMMA ChatsFetched ==
    ASSUME ChatsInv, NEW r \in Requests, NEW d \in Devices, UNCHANGED username,
           Unused(r), Request(r, "GET", ChatsPath(d), NoBody),
           task' = Begins(r, d, "chats")
    PROVE  FetchOf(r)'
<1>1. /\ TypeOK /\ pc[r] = "idle"
      /\ task'[r] = [kind |-> "chats", device |-> d]
  BY DEF ChatsInv, StorageInv, VisibleInv, FetchOf, ChatsTypeOK, Begins
<1>2. \/ pc'[r] = "idle"
      \/ /\ Dispatch("GET", ChatsPath(d)) \in Handlers
         /\ call'[r].op = Dispatch("GET", ChatsPath(d))
         /\ call'[r].from = Head(ChatsPath(d))
  BY <1>1, RequestEffect
<1>3. Dispatch("GET", ChatsPath(d)) \in Handlers =>
          /\ Dispatch("GET", ChatsPath(d)) = "getUserChats"
          /\ Head(ChatsPath(d)) = username[d]
  <2>1. CASE username[d] = Empty
    BY <2>1, PathsDispatch DEF ChatsPath
  <2>2. CASE username[d] # Empty
    <3>1. Head(<<username[d]>>) = username[d]
      OBVIOUS
    <3> QED
      BY <2>2, <3>1, PathsDispatch DEF ChatsPath, Handlers
  <2> QED
    BY <2>1, <2>2
<1> QED
  BY <1>1, <1>2, <1>3 DEF FetchOf, Unused, ChatTasks

\* The fetch of the messages of a chat
LEMMA MessagesFetched ==
    ASSUME ChatsInv, NEW r \in Requests, NEW d \in Devices, UNCHANGED username,
           NEW contact, Unused(r), Request(r, "GET", MessagesPath(d, contact), NoBody),
           task'[r] = [kind |-> "messages", device |-> d],
           top'[d] \in ChatTops,
           top'[d] = "Message" => chat'[d].contact = contact
    PROVE  FetchOf(r)'
<1>1. TypeOK /\ pc[r] = "idle"
  BY DEF ChatsInv, StorageInv, VisibleInv, FetchOf
<1>2. /\ Head(MessagesPath(d, contact)) = username[d]
      /\ Len(MessagesPath(d, contact)) = 3
      /\ MessagesPath(d, contact)[2] = contact
  BY DEF MessagesPath
<1>3. \/ pc'[r] = "idle"
      \/ /\ Dispatch("GET", MessagesPath(d, contact)) \in Handlers
         /\ call'[r].op = Dispatch("GET", MessagesPath(d, contact))
         /\ call'[r].from = username[d]
         /\ call'[r].to = contact
  BY <1>1, <1>2, RequestEffect
<1>4. Dispatch("GET", MessagesPath(d, contact)) \in {"getUserChatMessages", "none"}
  BY PathsDispatch DEF MessagesPath
<1>5. "none" \notin Handlers
  BY DEF Handlers
<1> QED
  BY <1>3, <1>4, <1>5 DEF FetchOf, Unused, ChatTasks

\* The fetch that sends a message
LEMMA SendFetched ==
    ASSUME ChatsInv, NEW r \in Requests, NEW d \in Devices, UNCHANGED username,
           NEW method \in {"PUT", "POST"}, NEW contact, NEW message, Unused(r),
           Request(r, method, SendPath(d, contact), message),
           task' = Begins(r, d, "send"), top'[d] \in ChatTops
    PROVE  FetchOf(r)'
<1>1. /\ TypeOK /\ pc[r] = "idle"
      /\ task'[r] = [kind |-> "send", device |-> d]
  BY DEF ChatsInv, StorageInv, VisibleInv, FetchOf, ChatsTypeOK, Begins
<1>2. \/ pc'[r] = "idle"
      \/ /\ Dispatch(method, SendPath(d, contact)) \in Handlers
         /\ call'[r].op = Dispatch(method, SendPath(d, contact))
  BY <1>1, RequestEffect
<1>3. Dispatch(method, SendPath(d, contact)) \in {"sendMessage", "sendNewMessage", "none"}
  <2>1. SendPath(d, contact) = <<username[d], contact, "message">>
    BY DEF SendPath
  <2>2. CASE method = "PUT"
    <3>1. Dispatch("PUT", <<username[d], contact, "message">>) \in {"sendMessage", "none"}
      BY PathsDispatch
    <3> QED
      BY <2>1, <2>2, <3>1
  <2>3. CASE method = "POST"
    <3>1. Dispatch("POST", <<username[d], contact, "message">>) \in {"sendNewMessage", "none"}
      BY PathsDispatch
    <3> QED
      BY <2>1, <2>3, <3>1
  <2> QED
    BY <2>2, <2>3
<1>4. "none" \notin Handlers
  BY DEF Handlers
<1> QED
  BY <1>1, <1>2, <1>3, <1>4 DEF FetchOf, Unused, ChatTasks, SendOps

----------------------------------------------------------------------------
(* Screens                                                                 *)

LEMMA InvFacts ==
    ASSUME ChatsInv
    PROVE  /\ TypeOK /\ ChatsTypeOK /\ StorageInv
           /\ \A d \in Devices : /\ list[d] \in ListState /\ chat[d] \in ChatState
                                 /\ username[d] \in Typeable /\ top[d] \in Tops
           /\ \A r \in Requests :
                 task[r] \in [kind : TaskKinds, device : Devices \cup {Undefined}]
BY DEF ChatsInv, StorageInv, VisibleInv, ChatsTypeOK

\* Messages go on being a beginning of the talk while it grows.
LEMMA ReadStays ==
    ASSUME NEW s \in Seq(ShownEntry), NEW talk \in Seq(Entry), NEW talk2 \in Seq(Entry),
           IsPrefix(talk, talk2), NEW u, ReadPlusOwn(s, talk, u)
    PROVE  ReadPlusOwn(s, talk2, u)
<1>1. PICK k \in 0..Len(s) :
         /\ IsPrefix(SubSeq(s, 1, k), talk)
         /\ \A i \in (k + 1)..Len(s) : s[i].sentBy = u
  BY DEF ReadPlusOwn
<1>2. Entry \subseteq ShownEntry
  BY DEF Entry, ShownEntry, Typeable, Texts
<1>3. /\ SubSeq(s, 1, k) \in Seq(ShownEntry)
      /\ talk \in Seq(ShownEntry) /\ talk2 \in Seq(ShownEntry)
  BY <1>2
<1>4. IsPrefix(SubSeq(s, 1, k), talk2)
  BY <1>1, <1>3, PrefixFacts
<1> QED
  BY <1>1, <1>4 DEF ReadPlusOwn

\* So they do when the user's own message is appended.
LEMMA OwnAppended ==
    ASSUME NEW s \in Seq(ShownEntry), NEW talk, NEW u, ReadPlusOwn(s, talk, u),
           NEW e \in ShownEntry, e.sentBy = u
    PROVE  ReadPlusOwn(Append(s, e), talk, u)
<1>1. PICK k \in 0..Len(s) :
         /\ IsPrefix(SubSeq(s, 1, k), talk)
         /\ \A i \in (k + 1)..Len(s) : s[i].sentBy = u
  BY DEF ReadPlusOwn
<1>2. /\ Len(Append(s, e)) = Len(s) + 1 /\ Len(s) \in Nat
      /\ \A i \in 1..Len(s) : Append(s, e)[i] = s[i]
      /\ Append(s, e)[Len(s) + 1] = e
  BY LenProperties
<1>3. SubSeq(Append(s, e), 1, k) = SubSeq(s, 1, k)
  BY <1>1, <1>2
<1>4. \A i \in (k + 1)..(Len(s) + 1) : Append(s, e)[i].sentBy = u
  BY <1>1, <1>2
<1>5. k \in 0..Len(Append(s, e))
  BY <1>1, <1>2
<1> QED
  BY <1>1, <1>2, <1>3, <1>4, <1>5 DEF ReadPlusOwn

\* A list that was read is a beginning without anything after it.
LEMMA JustRead ==
    ASSUME NEW s \in Seq(Entry), NEW talk, IsPrefix(s, talk), NEW u
    PROVE  ReadPlusOwn(s, talk, u)
<1>1. Len(s) \in Nat /\ SubSeq(s, 1, Len(s)) = s
  BY LenProperties
<1>2. Len(s) \in 0..Len(s) /\ (Len(s) + 1)..Len(s) = {}
  BY <1>1
<1> QED
  BY <1>1, <1>2 DEF ReadPlusOwn

\* Of an open chat, the talk is with the contact it was opened for.
LEMMA TalkedInChat ==
    ASSUME NEW d \in Devices
    PROVE  /\ top[d] = "Message" =>
                 Talked(d) = Talk(chat_ids, chat_messages, username[d], chat[d].contact)
           /\ top'[d] = "Message" =>
                 Talked(d)' = Talk(chat_ids', chat_messages', username'[d], chat'[d].contact)
<1>1. top[d] = "Message" =>
          Talked(d) = Talk(chat_ids, chat_messages, username[d], chat[d].contact)
  BY LookupsNow DEF Talked, Partner
<1>2. top'[d] = "Message" =>
          Talked(d)' = Talk(chat_ids', chat_messages', username'[d], chat'[d].contact)
  BY Zenon DEF Talked, Partner, Conversation, Talk, ChatRow, Log, FirstChat, FirstLog,
               SelectInSeq
<1> QED
  BY <1>1, <1>2

\* What a device shows stays true when it changes nothing of it.
LEMMA ShownStays ==
    ASSUME ChatsInv, TypeOK', [Next]_vars, UNCHANGED username, NEW d \in Devices
    PROVE  /\ list'[d].chats = list[d].chats => ListOn(d)'
           /\ /\ top'[d] = "Message" => top[d] = "Message"
              /\ chat'[d].contact = chat[d].contact
              /\ chat'[d].messages = chat[d].messages
              => ChatOn(d)'
<1>1. TypeOK /\ ChatOn(d) /\ ListOn(d) /\ chat[d] \in ChatState
  BY InvFacts DEF ChatsInv
<1>2. list'[d].chats = list[d].chats => ListOn(d)'
  BY <1>1, StorageGrows DEF ListOn
<1>3. ASSUME top'[d] = "Message", top[d] = "Message",
             chat'[d].contact = chat[d].contact,
             chat'[d].messages = chat[d].messages, chat[d].messages # Undefined
      PROVE  ReadPlusOwn(chat[d].messages, Talked(d)', username[d])
  <2>1. /\ Talked(d) = Talk(chat_ids, chat_messages, username[d], chat[d].contact)
        /\ Talked(d)' = Talk(chat_ids', chat_messages', username[d], chat[d].contact)
    BY <1>3, TalkedInChat
  <2>2. IsPrefix(Talked(d), Talked(d)')
    BY <1>1, <2>1, StepKeeps, TalkGrows DEF TypeOK, DatabaseOK
  <2>3. Talked(d) \in Seq(Entry) /\ Talked(d)' \in Seq(Entry)
    BY <1>1, <2>1, TalkType DEF TypeOK, DatabaseOK
  <2>4. chat[d].messages \in Seq(ShownEntry)
    BY <1>1, <1>3 DEF ChatState, Shown
  <2>5. ReadPlusOwn(chat[d].messages, Talked(d), username[d])
    BY <1>1, <1>3 DEF ChatOn
  <2> QED
    BY <2>2, <2>3, <2>4, <2>5, ReadStays
<1> QED
  BY <1>2, <1>3 DEF ChatOn

----------------------------------------------------------------------------
(* Users                                                                   *)

\* A step on one device keeps the invariant if it does so there.
LEMMA DeviceStep ==
    ASSUME ChatsInv, StorageInv', ChatsTypeOK', [Next]_vars, UNCHANGED username,
           NEW d \in Devices, ChatOn(d)', ListOn(d)',
           \A e \in Devices : e # d => UNCHANGED <<top[e], list[e], chat[e]>>,
           \A r \in Requests : FetchOf(r)'
    PROVE  ChatsInv'
<1>1. TypeOK'
  BY DEF StorageInv, VisibleInv
<1>2. \A e \in Devices : ChatOn(e)' /\ ListOn(e)'
  BY <1>1, ShownStays
<1> QED
  BY <1>2 DEF ChatsInv

\* Typing, opening a new chat and leaving a screen do not reach the server.
LEMMA LocalSteps ==
    ASSUME ChatsInv, StorageInv', [Next]_vars, NEW d \in Devices,
           OpenNewChat(d) \/ TypeMessage(d) \/ FocusContact(d) \/ TypeContact(d)
    PROVE  ChatsInv'
<1>1. /\ TypeOK' /\ ChatsTypeOK /\ chat[d] \in ChatState
      /\ UNCHANGED <<server, username, list, task, lost>>
  BY InvFacts DEF OpenNewChat, TypeMessage, FocusContact, TypeContact, StorageInv, VisibleInv
<1>2. ASSUME NEW s \in ChatState, NEW t \in Tops,
             chat' = [chat EXCEPT ![d] = s], top' = [top EXCEPT ![d] = t]
      PROVE  /\ ChatsTypeOK'
             /\ \A e \in Devices : e # d => UNCHANGED <<top[e], list[e], chat[e]>>
             /\ chat'[d] = s /\ top'[d] = t
  BY <1>1, <1>2 DEF ChatsTypeOK
<1> DEFINE Kept == /\ top[d] = "Message" =>
                        /\ top'[d] = top[d] /\ chat'[d].contact = chat[d].contact
                        /\ chat'[d].messages = chat[d].messages
                   /\ top[d] = "MessageNew" => top'[d] = top[d]
                   /\ top'[d] = "Message" => top[d] = "Message"
<1>3. UNCHANGED top => top[d] \in Tops /\ top' = [top EXCEPT ![d] = top[d]]
  BY <1>1 DEF ChatsTypeOK
<1>4. /\ ChatsTypeOK' /\ Kept
      /\ \A e \in Devices : e # d => UNCHANGED <<top[e], list[e], chat[e]>>
  <2>1. CASE OpenNewChat(d)
    <3>1. NewChat(Empty) \in ChatState /\ "MessageNew" \in Tops
      BY DEF NewChat, ChatState, Texts, Typeable, Shown, Tops
    <3> QED
      BY <1>2, <2>1, <3>1 DEF OpenNewChat
  <2>2. CASE TypeMessage(d)
    <3>1. PICK text \in Typed :
             chat' = [chat EXCEPT ![d].newMessage = text, ![d].editing = FALSE]
      BY <2>2 DEF TypeMessage
    <3> DEFINE new == [chat[d] EXCEPT !.newMessage = text, !.editing = FALSE]
    <3>2. /\ new \in ChatState /\ new.contact = chat[d].contact
          /\ new.messages = chat[d].messages
      BY <1>1, TypedAssumption DEF ChatState
    <3>3. chat' = [chat EXCEPT ![d] = new]
      BY <1>1, <3>1 DEF ChatsTypeOK
    <3> HIDE DEF new
    <3> QED
      BY <1>2, <1>3, <2>2, <3>2, <3>3 DEF TypeMessage
  <2>3. CASE FocusContact(d)
    <3> DEFINE new == [chat[d] EXCEPT !.messages = <<>>, !.editing = TRUE]
    <3>1. new \in ChatState
      <4>1. <<>> \in Shown
        BY DEF Shown
      <4> QED
        BY <1>1, <4>1 DEF ChatState
    <3>2. chat' = [chat EXCEPT ![d] = new]
      BY <1>1, <2>3 DEF FocusContact, ChatsTypeOK
    <3> HIDE DEF new
    <3> QED
      BY <1>2, <1>3, <2>3, <3>1, <3>2 DEF FocusContact
  <2>4. CASE TypeContact(d)
    <3>1. PICK text \in Contacts : chat' = [chat EXCEPT ![d].contact = text]
      BY <2>4 DEF TypeContact
    <3> DEFINE new == [chat[d] EXCEPT !.contact = text]
    <3>2. new \in ChatState
      BY <1>1, ContactsAssumption DEF ChatState
    <3>3. chat' = [chat EXCEPT ![d] = new]
      BY <1>1, <3>1 DEF ChatsTypeOK
    <3> HIDE DEF new
    <3> QED
      BY <1>2, <1>3, <2>4, <3>2, <3>3 DEF TypeContact
  <2> QED
    BY <2>1, <2>2, <2>3, <2>4
<1>7. ASSUME NEW r \in Requests
      PROVE  FetchOf(r)'
  <2>1. UNCHANGED <<pc[r], call[r], task[r]>>
    BY <1>1 DEF server, vars
  <2>2. task[r].kind \in ChatTasks =>
            task[r].device \in Devices /\ top[task[r].device] \in ChatTops
    BY DEF ChatsInv, FetchOf, Unused, ChatTasks
  <2> QED
    BY <1>1, <1>4, <2>1, <2>2, FetchStays DEF ChatTops
<1>8. ListOn(d)'
  BY <1>1, ShownStays
<1>9. ChatOn(d)'
  <2>1. CASE top'[d] = "Message"
    BY <1>1, <1>4, <2>1, ShownStays
  <2>2. CASE top'[d] # "Message"
    BY <2>2 DEF ChatOn
  <2> QED
    BY <2>1, <2>2
<1> QED
  BY <1>1, <1>4, <1>7, <1>8, <1>9, DeviceStep

LEMMA LeavingSteps ==
    ASSUME ChatsInv, StorageInv', [Next]_vars, NEW d \in Devices, Back(d) \/ CloseApp(d)
    PROVE  ChatsInv'
<1>1. /\ TypeOK' /\ ChatsTypeOK /\ UNCHANGED <<server, username, lost>>
      /\ NewChat(Empty) \in ChatState /\ NewList \in ListState
  BY InvFacts DEF Back, CloseApp, StorageInv, VisibleInv, NewChat, ChatState, Texts,
                  Typeable, Shown, NewList, ListState
<1>2. /\ chat' = [chat EXCEPT ![d] = NewChat(Empty)]
      /\ \E t \in {"MessageList", "Closed"} : top' = [top EXCEPT ![d] = t]
      /\ UNCHANGED list \/ list' = [list EXCEPT ![d] = NewList]
  BY DEF Back, CloseApp
<1>3. \A r \in Requests :
         \/ /\ task'[r] = task[r]
            /\ task[r].kind \notin ChatTasks \/ task[r].device # d
         \/ /\ task[r].device = d
            /\ task'[r] = [task[r] EXCEPT !.kind = "ended"]
  BY DEF Back, CloseApp, Waits
<1>4. \A r \in Requests :
         task[r] \in [kind : TaskKinds, device : Devices \cup {Undefined}]
  BY InvFacts
<1>5. ChatsTypeOK'
  <2>1. DOMAIN task' = Requests /\ task' = [r \in Requests |-> task'[r]]
    BY DEF Back, CloseApp
  <2>2. \A r \in Requests :
           task'[r] \in [kind : TaskKinds, device : Devices \cup {Undefined}]
    BY <1>3, <1>4 DEF TaskKinds
  <2>3. task' \in [Requests -> [kind : TaskKinds, device : Devices \cup {Undefined}]]
    BY <2>1, <2>2
  <2> QED
    BY <1>1, <1>2, <2>3 DEF ChatsTypeOK, Tops
<1>6. \A e \in Devices : e # d => UNCHANGED <<top[e], list[e], chat[e]>>
  BY <1>1, <1>2 DEF ChatsTypeOK
<1>7. ASSUME NEW r \in Requests
      PROVE  FetchOf(r)'
  <2>1. UNCHANGED <<pc[r], call[r]>>
    BY <1>1 DEF server, vars
  <2>2. CASE Unused(r)
    <3>1. task'[r].kind \in {"unused", "ended"} /\ pc'[r] = "idle"
      BY <1>3, <1>4, <2>1, <2>2 DEF Unused, ChatsInv, FetchOf
    <3>2. task'[r].kind = "ended" => task'[r].device = d
      BY <1>3, <1>4, <2>2 DEF Unused
    <3> QED
      BY <3>1, <3>2 DEF FetchOf, Unused, ChatTasks
  <2>3. CASE ~Unused(r)
    <3>1. task[r].device \in Devices
      BY <2>3 DEF ChatsInv, FetchOf
    <3>2. \/ task'[r] = task[r]
          \/ task'[r].kind = "ended" /\ task'[r].device = task[r].device
      BY <1>3, <1>4
    <3>3. task'[r].kind \in ChatTasks => task[r].device # d
      BY <1>3, <1>4 DEF ChatTasks
    <3> QED
      BY <1>1, <1>6, <2>1, <2>3, <3>1, <3>2, <3>3, FetchStays
  <2> QED
    BY <2>2, <2>3
<1>8. ListOn(d)'
  <2>1. CASE UNCHANGED list
    BY <1>1, <2>1, ShownStays
  <2>2. CASE list' = [list EXCEPT ![d] = NewList]
    BY <1>1, <2>2 DEF ListOn, NewList, ToSet, ChatsTypeOK
  <2> QED
    BY <1>2, <2>1, <2>2
<1>9. ChatOn(d)'
  BY <1>1, <1>2 DEF ChatOn, ChatsTypeOK
<1> QED
  BY <1>1, <1>5, <1>6, <1>7, <1>8, <1>9, DeviceStep

\* Loading a list or a chat starts one fetch.
LEMMA LoadingSteps ==
    ASSUME ChatsInv, StorageInv', [Next]_vars, NEW d \in Devices,
           OpenApp(d) \/ RefreshList(d) \/ OpenChat(d) \/ handleRefresh(d)
    PROVE  ChatsInv'
<1>1. /\ TypeOK /\ TypeOK' /\ ChatsTypeOK /\ UNCHANGED <<username, lost>>
      /\ chat[d] \in ChatState /\ list[d] \in ListState /\ top[d] \in Tops
      /\ list = [list EXCEPT ![d] = list[d]] /\ chat = [chat EXCEPT ![d] = chat[d]]
      /\ top = [top EXCEPT ![d] = top[d]]
  BY InvFacts DEF OpenApp, RefreshList, OpenChat, handleRefresh, StorageInv, VisibleInv,
                  ChatsTypeOK
<1>2. ASSUME NEW s \in ChatState, NEW t \in Tops, NEW l \in ListState,
             chat' = [chat EXCEPT ![d] = s], top' = [top EXCEPT ![d] = t],
             list' = [list EXCEPT ![d] = l], ListOn(d)', ChatOn(d)',
             t \in ChatTops => \/ top[d] = t /\ s.contact = chat[d].contact
                               \/ top[d] = "MessageList",
             top[d] \in ChatTops => t = top[d],
             \/ RequestChats(d)
             \/ t \in ChatTops /\ RequestMessages(d, s.contact)
      PROVE  ChatsInv'
  <2>1. /\ \A e \in Devices : e # d => UNCHANGED <<top[e], list[e], chat[e]>>
        /\ chat'[d] = s /\ top'[d] = t
    BY <1>1, <1>2 DEF ChatsTypeOK
  <2>2. PICK r \in Requests, kind \in {"chats", "messages"} :
           /\ Unused(r) /\ task' = Begins(r, d, kind)
           /\ \/ kind = "chats" /\ Request(r, "GET", ChatsPath(d), NoBody)
              \/ /\ kind = "messages" /\ t \in ChatTops
                 /\ Request(r, "GET", MessagesPath(d, s.contact), NoBody)
    BY <1>2 DEF RequestChats, RequestMessages
  <2>3. /\ task'[r] = [kind |-> kind, device |-> d]
        /\ \A x \in Requests : x # r => UNCHANGED <<task[x], pc[x], call[x]>>
    BY <1>1, <2>2, RequestEffect DEF Begins, ChatsTypeOK
  <2>4. ChatsTypeOK'
    BY <1>1, <1>2, <2>2 DEF ChatsTypeOK, Begins, TaskKinds, ChatTasks
  <2>5. FetchOf(r)'
    BY <1>1, <2>1, <2>2, <2>3, ChatsFetched, MessagesFetched
  <2>6. ASSUME NEW x \in Requests, x # r
        PROVE  FetchOf(x)'
    <3>1. UNCHANGED <<task[x], pc[x], call[x]>>
      BY <2>3, <2>6
    <3>2. task[x].kind \in ChatTasks =>
             task[x].device \in Devices /\ top[task[x].device] \in ChatTops
      BY DEF ChatsInv, FetchOf, Unused, ChatTasks
    <3> QED
      BY <1>1, <1>2, <2>1, <3>1, <3>2, FetchStays DEF ChatTops
  <2> QED
    BY <1>1, <1>2, <2>1, <2>4, <2>5, <2>6, DeviceStep
<1>3. CASE OpenApp(d)
  <2>1. NewList \in ListState /\ "MessageList" \in Tops
    BY DEF NewList, ListState, Tops
  <2>2. ListOn(d)' /\ ChatOn(d)'
    BY <1>1, <1>3 DEF OpenApp, ListOn, ChatOn, NewList, ToSet, ChatsTypeOK
  <2> QED
    BY <1>1, <1>2, <1>3, <2>1, <2>2 DEF OpenApp, ChatTops
<1>4. CASE RefreshList(d)
  <2> DEFINE new == [list[d] EXCEPT !.refreshing = TRUE]
  <2>1. new \in ListState /\ new.chats = list[d].chats
    BY <1>1 DEF ListState
  <2>2. list' = [list EXCEPT ![d] = new]
    BY <1>1, <1>4 DEF RefreshList, ChatsTypeOK
  <2> HIDE DEF new
  <2>3. ListOn(d)' /\ ChatOn(d)'
    BY <1>1, <1>4, <2>1, <2>2, ShownStays DEF RefreshList, ChatsTypeOK
  <2> QED
    BY <1>1, <1>2, <1>4, <2>1, <2>2, <2>3 DEF RefreshList, ChatTops
<1>5. CASE OpenChat(d)
  <2>1. PICK item \in ToSet(list[d].chats) :
           /\ chat' = [chat EXCEPT ![d] = NewChat(item.toUsername)]
           /\ RequestMessages(d, item.toUsername)
    BY <1>5 DEF OpenChat
  <2>2. item.toUsername \in Names
    <3>1. list[d].chats \in Seq(Preview)
      BY <1>1, <1>5 DEF OpenChat, ListState
    <3>2. item \in Preview
      BY <2>1, <3>1, LenProperties, ElementOfSeq DEF ToSet
    <3> QED
      BY <3>2 DEF Preview
  <2> DEFINE new == NewChat(item.toUsername)
  <2>3. new \in ChatState /\ new.contact = item.toUsername /\ new.messages = <<>>
    BY <2>2 DEF NewChat, ChatState, Texts, Typeable, Shown
  <2>4. chat' = [chat EXCEPT ![d] = new] /\ top' = [top EXCEPT ![d] = "Message"]
    BY <1>5, <2>1 DEF OpenChat
  <2> HIDE DEF new
  <2>5. ListOn(d)'
    BY <1>1, <1>5, ShownStays DEF OpenChat
  <2>6. ChatOn(d)'
    <3>1. /\ chat'[d] = new /\ top'[d] = "Message"
          /\ chat_ids' \in Seq(ChatId) /\ chat_messages' \in Seq(ChatLog)
      BY <1>1, <2>4 DEF ChatsTypeOK, TypeOK, DatabaseOK
    <3>2. Talked(d)' \in Seq(Entry)
      BY <3>1, TalkedInChat, TalkType
    <3>3. <<>> \in Seq(Entry) /\ IsPrefix(<<>>, Talked(d)')
      BY <3>2, PrefixFacts
    <3>4. ReadPlusOwn(<<>>, Talked(d)', username'[d])
      BY <3>2, <3>3, JustRead
    <3> QED
      BY <2>3, <3>1, <3>4 DEF ChatOn
  <2> QED
    BY <1>1, <1>2, <1>5, <2>1, <2>3, <2>4, <2>5, <2>6 DEF OpenChat, Tops, ChatTops
<1>6. CASE handleRefresh(d)
  <2> DEFINE new == [chat[d] EXCEPT !.refreshing = TRUE]
  <2>1. /\ new \in ChatState /\ new.messages = chat[d].messages
        /\ new.contact = chat[d].contact
    BY <1>1 DEF ChatState
  <2>2. chat' = [chat EXCEPT ![d] = new]
    BY <1>1, <1>6 DEF handleRefresh, ChatsTypeOK
  <2> HIDE DEF new
  <2>3. ListOn(d)' /\ ChatOn(d)'
    BY <1>1, <1>6, <2>1, <2>2, ShownStays DEF handleRefresh, ChatsTypeOK
  <2> QED
    BY <1>1, <1>2, <1>6, <2>1, <2>2, <2>3 DEF handleRefresh
<1> QED
  BY <1>3, <1>4, <1>5, <1>6

LEMMA SendStep ==
    ASSUME ChatsInv, StorageInv', [Next]_vars, NEW d \in Devices, handleSendMessage(d)
    PROVE  ChatsInv'
<1>1. /\ TypeOK /\ TypeOK' /\ ChatsTypeOK /\ top[d] \in ChatTops
      /\ UNCHANGED <<username, top, list, chat, lost>>
  BY InvFacts DEF handleSendMessage, StorageInv, VisibleInv, ChatTops
<1>2. PICK r \in Requests, method \in {"PUT", "POST"},
           contact \in {chat[d].contact, Trimmed(chat[d].contact)} :
         /\ Unused(r) /\ task' = Begins(r, d, "send")
         /\ Request(r, method, SendPath(d, contact), chat[d].newMessage)
  BY DEF handleSendMessage
<1>3. \A x \in Requests : x # r => UNCHANGED <<task[x], pc[x], call[x]>>
  BY <1>1, <1>2, RequestEffect DEF Begins, ChatsTypeOK
<1>4. ChatsTypeOK'
  BY <1>1, <1>2 DEF ChatsTypeOK, Begins, TaskKinds, ChatTasks
<1>5. FetchOf(r)'
  BY <1>1, <1>2, SendFetched
<1>6. ASSUME NEW x \in Requests, x # r
      PROVE  FetchOf(x)'
  BY <1>1, <1>3, <1>6, FetchStays
<1>7. ListOn(d)' /\ ChatOn(d)'
  BY <1>1, ShownStays
<1> QED
  BY <1>1, <1>4, <1>5, <1>6, <1>7, DeviceStep

----------------------------------------------------------------------------
(* Answers                                                                 *)

\* The fetches while the answer to one of them is taken
LEMMA FetchAnswered ==
    ASSUME ChatsInv, NEW r \in Requests, ~Unused(r), UNCHANGED <<server, username, top>>,
           EndTask(r), \A d \in Devices : chat'[d].contact = chat[d].contact,
           NEW x \in Requests
    PROVE  FetchOf(x)'
<1>1. UNCHANGED <<pc[x], call[x]>>
  BY DEF server, vars
<1>2. \/ task'[x] = task[x]
      \/ /\ ~Unused(x)
         /\ task'[x].kind = "ended" /\ task'[x].device = task[x].device
  BY InvFacts DEF EndTask, ChatsTypeOK
<1>3. task[x].kind \in ChatTasks => task[x].device \in Devices
  BY DEF ChatsInv, FetchOf, Unused, ChatTasks
<1>4. task'[x].kind \in ChatTasks => task[x].kind \in ChatTasks
  BY <1>2 DEF ChatTasks
<1> QED
  BY <1>1, <1>2, <1>3, <1>4, FetchStays

LEMMA AnswerTypes ==
    ASSUME ChatsInv, NEW r \in Requests, ~Unused(r)
    PROVE  /\ task[r].device \in Devices
           /\ EndTask(r) => task' \in [Requests -> [kind : TaskKinds,
                                                    device : Devices \cup {Undefined}]]
<1>1. EndTask(r) => task' \in [Requests -> [kind : TaskKinds,
                                            device : Devices \cup {Undefined}]]
  BY InvFacts DEF EndTask, ChatsTypeOK, TaskKinds
<1> QED
  BY <1>1 DEF ChatsInv, FetchOf

\* A list of chats that arrives
LEMMA ChatsAnswer ==
    ASSUME ChatsInv, StorageInv', [Next]_vars, NEW r \in Requests, ChatsArrive(r)
    PROVE  ChatsInv'
<1>2. PICK d \in Devices : d = task[r].device
  BY AnswerTypes DEF ChatsArrive, Unused
<1> DEFINE new == [chats |-> IF reply[r].status = "SUCCESS" THEN reply[r].body
                                                        ELSE Undefined,
                   refreshing |-> FALSE]
<1>1. /\ ChatsTypeOK /\ TypeOK' /\ ~Unused(r) /\ pc[r] = "done"
      /\ UNCHANGED <<server, username, top, chat, lost>> /\ EndTask(r)
      /\ list' = [list EXCEPT ![d] = new]
  BY <1>2, InvFacts DEF ChatsArrive, Unused, StorageInv, VisibleInv
<1>3. reply[r].status = "SUCCESS" =>
         /\ reply[r].body \in Seq(Preview)
         /\ \A p \in ToSet(reply[r].body) : Previewed(username[d], p)
  <2>1. call[r].op = "getUserChats" /\ call[r].from = username[d]
    BY <1>1, <1>2 DEF ChatsArrive, ChatsInv, FetchOf
  <2>2. ListOf(r)
    BY DEF ChatsInv, StorageInv, HoldsInv
  <2> QED
    BY <2>1, <2>2 DEF ListOf
<1>4. new \in ListState
  BY <1>3 DEF ListState
<1>5. new.chats # Undefined => \A p \in ToSet(new.chats) : Previewed(username[d], p)
  BY <1>3
<1> HIDE DEF new
<1>6. /\ list'[d] = new /\ ChatsTypeOK'
      /\ \A e \in Devices : e # d => UNCHANGED <<top[e], list[e], chat[e]>>
  BY <1>1, <1>2, <1>4, AnswerTypes DEF ChatsTypeOK
<1>7. \A p : Previewed(username[d], p) => Previewed(username[d], p)'
  BY <1>1 DEF Previewed, server, vars, database
<1>8. ListOn(d)'
  BY <1>1, <1>5, <1>6, <1>7 DEF ListOn
<1>9. ChatOn(d)'
  BY <1>1, <1>2, ShownStays
<1>10. \A x \in Requests : FetchOf(x)'
  BY <1>1, FetchAnswered
<1> QED
  BY <1>1, <1>2, <1>6, <1>8, <1>9, <1>10, DeviceStep

\* An answer that changes one screen and asks for nothing
LEMMA ScreenAnswered ==
    ASSUME ChatsInv, StorageInv', [Next]_vars, NEW r \in Requests, ~Unused(r), EndTask(r),
           UNCHANGED <<server, username, top>>, lost' \in Nat, NEW d \in Devices,
           NEW s \in ChatState, chat' = [chat EXCEPT ![d] = s],
           NEW l \in ListState, list' = [list EXCEPT ![d] = l],
           s.contact = chat[d].contact, l.chats = list[d].chats,
           s.messages = chat[d].messages \/ ChatOn(d)'
    PROVE  ChatsInv'
<1>1. ChatsTypeOK /\ TypeOK'
  BY InvFacts DEF StorageInv, VisibleInv
<1>2. /\ ChatsTypeOK' /\ chat'[d] = s /\ list'[d] = l
      /\ \A e \in Devices : e # d => UNCHANGED <<top[e], list[e], chat[e]>>
  BY <1>1, AnswerTypes DEF ChatsTypeOK
<1>3. \A e \in Devices : chat'[e].contact = chat[e].contact
  BY <1>2
<1>4. ListOn(d)' /\ ChatOn(d)'
  BY <1>1, <1>2, ShownStays
<1>5. \A x \in Requests : FetchOf(x)'
  BY <1>3, FetchAnswered
<1> QED
  BY <1>2, <1>4, <1>5, DeviceStep

\* The messages of a chat that arrive
LEMMA MessagesAnswer ==
    ASSUME ChatsInv, StorageInv', [Next]_vars, NEW r \in Requests, MessagesArrive(r)
    PROVE  ChatsInv'
<1>1. PICK d \in Devices : d = task[r].device
  BY AnswerTypes DEF MessagesArrive, Unused
<1> DEFINE read == IF reply[r].status = "SUCCESS" THEN reply[r].body ELSE Undefined
           new  == [chat[d] EXCEPT !.messages = read, !.refreshing = FALSE]
<1>2. /\ chat[d] \in ChatState /\ list[d] \in ListState /\ TypeOK'
      /\ ~Unused(r) /\ pc[r] = "done" /\ EndTask(r)
      /\ UNCHANGED <<server, username, top, list, lost>> /\ ChatsTypeOK
  BY InvFacts DEF MessagesArrive, Unused, StorageInv, VisibleInv
<1>3. chat' = [chat EXCEPT ![d] = new]
  BY <1>1, <1>2 DEF MessagesArrive, ChatsTypeOK
<1>4. call[r].op = "getUserChatMessages" /\ ReadOf(r)
  BY <1>2 DEF MessagesArrive, ChatsInv, FetchOf, StorageInv, VisibleInv, RequestInv
<1>5. reply[r].status = "SUCCESS" =>
          reply[r].body \in Seq(Entry) /\ IsPrefix(reply[r].body, Own(r))
  BY <1>4 DEF ReadOf
<1>6. Seq(Entry) \subseteq Seq(ShownEntry)
  <2>1. Entry \subseteq ShownEntry
    BY DEF Entry, ShownEntry, Typeable, Texts
  <2> QED
    BY <2>1
<1>7. read \in Shown
  BY <1>5, <1>6 DEF Shown
<1> HIDE DEF read
<1>8. /\ new \in ChatState /\ new.contact = chat[d].contact /\ new.messages = read
  BY <1>2, <1>7 DEF ChatState
<1> HIDE DEF new
<1>9. ChatOn(d)'
  <2> SUFFICES ASSUME top'[d] = "Message", read # Undefined
               PROVE  ReadPlusOwn(read, Talked(d)', username[d])
    BY <1>2, <1>3, <1>8 DEF ChatOn, ChatsTypeOK
  <2>1. reply[r].status = "SUCCESS" /\ read = reply[r].body
    BY DEF read
  <2>2. call[r].from = username[d] /\ call[r].to = chat[d].contact
    BY <1>1, <1>2 DEF MessagesArrive, ChatsInv, FetchOf
  <2>3. Talked(d)' = Own(r)
    <3>1. Talked(d)' = Talk(chat_ids', chat_messages', username'[d], chat'[d].contact)
      BY TalkedInChat
    <3>2. chat'[d].contact = chat[d].contact
      BY <1>2, <1>3, <1>8 DEF ChatsTypeOK
    <3> QED
      BY <1>2, <2>2, <3>1, <3>2 DEF Own, server, vars
  <2> QED
    BY <1>5, <2>1, <2>3, JustRead
<1>10. list' = [list EXCEPT ![d] = list[d]] /\ lost' \in Nat
  BY <1>2 DEF ChatsTypeOK
<1> QED
  BY <1>2, <1>3, <1>8, <1>9, <1>10, ScreenAnswered

\* Errors and lost answers only stop the spinner.
LEMMA FailedAnswer ==
    ASSUME ChatsInv, StorageInv', [Next]_vars, NEW r \in Requests,
           SendFails(r) \/ FetchFails(r)
    PROVE  ChatsInv'
<1>1. ~Unused(r)
  BY DEF SendFails, FetchFails, Unused, ChatTasks
<1>2. PICK d \in Devices : d = task[r].device
  BY <1>1, AnswerTypes
<1>3. /\ chat[d] \in ChatState /\ list[d] \in ListState /\ ChatsTypeOK
      /\ UNCHANGED <<server, username, top>> /\ EndTask(r) /\ lost' \in Nat
  BY InvFacts DEF SendFails, FetchFails, ChatsTypeOK
<1> DEFINE idle == [chat[d] EXCEPT !.refreshing = FALSE]
           rest == [list[d] EXCEPT !.refreshing = FALSE]
<1>4. /\ idle \in ChatState /\ idle.contact = chat[d].contact
      /\ idle.messages = chat[d].messages
  BY <1>3 DEF ChatState
<1>5. rest \in ListState /\ rest.chats = list[d].chats
  BY <1>3 DEF ListState
<1>6. /\ chat = [chat EXCEPT ![d] = chat[d]]
      /\ list = [list EXCEPT ![d] = list[d]]
  BY <1>3 DEF ChatsTypeOK
<1>7. \/ chat' = chat /\ list' = list
      \/ chat' = chat /\ list' = [list EXCEPT ![d] = rest]
      \/ chat' = [chat EXCEPT ![d] = idle] /\ list' = list
  BY <1>2, <1>3 DEF SendFails, FetchFails, StopsRefreshing, ChatsTypeOK
<1> HIDE DEF idle, rest
<1>8. PICK s \in {chat[d], idle}, l \in {list[d], rest} :
          chat' = [chat EXCEPT ![d] = s] /\ list' = [list EXCEPT ![d] = l]
  BY <1>6, <1>7
<1>9. /\ s \in ChatState /\ s.contact = chat[d].contact /\ s.messages = chat[d].messages
      /\ l \in ListState /\ l.chats = list[d].chats
  BY <1>3, <1>4, <1>5, <1>8
<1> QED
  BY <1>1, <1>3, <1>8, <1>9, ScreenAnswered

\* An acknowledged send: the screen appends a message of its own, and a new chat
\* asks for the messages.
LEMMA SendAnswer ==
    ASSUME ChatsInv, StorageInv', [Next]_vars, NEW r \in Requests, SendSucceeds(r)
    PROVE  ChatsInv'
<1>1. PICK d \in Devices : d = task[r].device
  BY AnswerTypes DEF SendSucceeds, Unused
<1> DEFINE shown == Append(chat[d].messages, OwnMessage(d))
           new   == [chat[d] EXCEPT !.messages = shown, !.newMessage = Empty]
<1>2. /\ chat[d] \in ChatState /\ list[d] \in ListState /\ username[d] \in Typeable
      /\ TypeOK /\ TypeOK' /\ ChatsTypeOK /\ ~Unused(r)
      /\ UNCHANGED <<username, top, list, lost>>
      /\ chat[d].messages # Undefined
  BY <1>1, InvFacts DEF SendSucceeds, Unused, StorageInv, VisibleInv
<1>3. chat' = [chat EXCEPT ![d] = new]
  BY <1>1, <1>2 DEF SendSucceeds, ChatsTypeOK
<1>4. /\ chat[d].messages \in Seq(ShownEntry)
      /\ OwnMessage(d) \in ShownEntry /\ OwnMessage(d).sentBy = username[d]
  BY <1>2 DEF ChatState, Shown, OwnMessage, ShownEntry, TypeOK
<1>5. shown \in Seq(ShownEntry)
  BY <1>4
<1>6. /\ new \in ChatState /\ new.contact = chat[d].contact /\ new.messages = shown
  BY <1>2, <1>5 DEF ChatState, Shown, Texts
<1>7. CASE top[d] = "Message"
  <2>1. EndTask(r) /\ UNCHANGED server
    BY <1>1, <1>7 DEF SendSucceeds
  <2>2. ChatOn(d)'
    <3> SUFFICES ReadPlusOwn(shown, Talked(d)', username[d])
      BY <1>2, <1>3, <1>6 DEF ChatOn, ChatsTypeOK
    <3>1. ReadPlusOwn(chat[d].messages, Talked(d), username[d])
      BY <1>2, <1>7 DEF ChatsInv, ChatOn
    <3>2. Talked(d)' = Talked(d)
      <4>1. chat'[d].contact = chat[d].contact
        BY <1>2, <1>3, <1>6 DEF ChatsTypeOK
      <4> QED
        BY <1>2, <1>7, <2>1, <4>1, TalkedInChat DEF server, vars
    <3> QED
      BY <1>4, <3>1, <3>2, OwnAppended
  <2>3. list' = [list EXCEPT ![d] = list[d]] /\ lost' \in Nat
    BY <1>2 DEF ChatsTypeOK
  <2> HIDE DEF new
  <2> QED
    BY <1>2, <1>3, <1>6, <2>1, <2>2, <2>3, ScreenAnswered
<1>8. CASE top[d] = "MessageNew"
  <2>1. PICK s \in Requests :
           /\ Unused(s) /\ Request(s, "GET", MessagesPath(d, chat[d].contact), NoBody)
           /\ task' = [Begins(s, d, "messages") EXCEPT ![r].kind = "ended"]
    BY <1>1, <1>8 DEF SendSucceeds
  <2>2. /\ s # r /\ task'[s] = [kind |-> "messages", device |-> d]
        /\ task'[r].kind = "ended" /\ task'[r].device = task[r].device
        /\ \A x \in Requests : x # r /\ x # s => task'[x] = task[x]
    BY <1>2, <2>1 DEF Begins, ChatsTypeOK
  <2>3. /\ \A x \in Requests : x # s => UNCHANGED <<pc[x], call[x]>>
    BY <1>2, <2>1, RequestEffect
  <2>4. task' \in [Requests -> [kind : TaskKinds, device : Devices \cup {Undefined}]]
    <3>1. Begins(s, d, "messages") \in
              [Requests -> [kind : TaskKinds, device : Devices \cup {Undefined}]]
      BY <1>2 DEF Begins, ChatsTypeOK, TaskKinds, ChatTasks
    <3> QED
      BY <2>1, <3>1 DEF TaskKinds
  <2> HIDE DEF new
  <2>5. /\ ChatsTypeOK' /\ chat'[d] = new
        /\ \A e \in Devices : e # d => UNCHANGED <<top[e], list[e], chat[e]>>
    BY <1>2, <1>3, <1>6, <2>4 DEF ChatsTypeOK
  <2>6. ListOn(d)' /\ ChatOn(d)'
    BY <1>2, <1>8, ShownStays DEF ChatOn
  <2>7. FetchOf(s)'
    BY <1>2, <1>8, <2>1, <2>2, MessagesFetched DEF ChatTops
  <2>8. ASSUME NEW x \in Requests, x # s
        PROVE  FetchOf(x)'
    <3>1. /\ UNCHANGED <<pc[x], call[x]>>
          /\ \/ task'[x] = task[x]
             \/ ~Unused(x) /\ task'[x].kind = "ended" /\ task'[x].device = task[x].device
      BY <1>2, <2>2, <2>3, <2>8
    <3>2. task[x].kind \in ChatTasks => task[x].device \in Devices
      BY DEF ChatsInv, FetchOf, Unused, ChatTasks
    <3>3. task'[x].kind \in ChatTasks => task[x].kind \in ChatTasks
      BY <3>1 DEF ChatTasks
    <3>4. \A e \in Devices : chat'[e].contact = chat[e].contact
      BY <1>6, <2>5
    <3> QED
      BY <1>2, <3>1, <3>2, <3>3, <3>4, FetchStays
  <2> QED
    BY <1>2, <2>5, <2>6, <2>7, <2>8, DeviceStep
<1> QED
  BY <1>1, <1>7, <1>8 DEF SendSucceeds

----------------------------------------------------------------------------
(* The theorems                                                            *)

\* The server's own steps, and steps that change nothing
LEMMA ServerSteps ==
    ASSUME ChatsInv, StorageInv', [Next]_vars, ServerStep \/ UNCHANGED chatVars
    PROVE  ChatsInv'
<1>1. /\ TypeOK /\ TypeOK' /\ ChatsTypeOK
      /\ UNCHANGED <<username, top, list, chat, task, lost, call>>
      /\ \A r \in Requests : pc[r] = "idle" => pc'[r] = "idle"
  BY InvFacts, ServerStepEffect DEF ServerStep, chatVars, vars, StorageInv, VisibleInv
<1>2. ChatsTypeOK'
  BY <1>1 DEF ChatsTypeOK
<1>3. \A r \in Requests : FetchOf(r)'
  BY <1>1, FetchStays
<1>4. \A d \in Devices : ChatOn(d)' /\ ListOn(d)'
  BY <1>1, ShownStays
<1> QED
  BY <1>2, <1>3, <1>4 DEF ChatsInv

LEMMA ChatsStep == ChatsInv /\ StorageInv' /\ [ChatsNext]_chatVars => ChatsInv'
<1> SUFFICES ASSUME ChatsInv, StorageInv', [ChatsNext]_chatVars
             PROVE  ChatsInv'
  OBVIOUS
<1>1. [Next]_vars
  BY InvFacts, ScreensTakeServerSteps
<1>2. ASSUME NEW d \in Devices, UserStep(d)
      PROVE  ChatsInv'
  <2>1. CASE OpenApp(d) \/ RefreshList(d) \/ OpenChat(d) \/ handleRefresh(d)
    BY <1>1, <2>1, LoadingSteps
  <2>2. CASE OpenNewChat(d) \/ TypeMessage(d) \/ FocusContact(d) \/ TypeContact(d)
    BY <1>1, <2>2, LocalSteps
  <2>3. CASE Back(d) \/ CloseApp(d)
    BY <1>1, <2>3, LeavingSteps
  <2>4. CASE handleSendMessage(d)
    BY <1>1, <2>4, SendStep
  <2> QED
    BY <1>2, <2>1, <2>2, <2>3, <2>4, Zenon DEF UserStep
<1>3. ASSUME NEW r \in Requests, Answer(r)
      PROVE  ChatsInv'
  BY <1>1, <1>3, ChatsAnswer, MessagesAnswer, SendAnswer, FailedAnswer DEF Answer
<1>4. CASE ServerStep \/ UNCHANGED chatVars
  BY <1>1, <1>4, ServerSteps
<1> QED
  BY <1>2, <1>3, <1>4 DEF ChatsNext

\* Every fetch of a screen is for the call that its callback expects, and what a
\* screen shows stands in the collections.
THEOREM ChatsInvariant == ChatsSpec => []ChatsInv
<1>1. ChatsInit => ChatsInv
  BY ChatsInitially
<1>2. ChatsInv /\ StorageInv' /\ [ChatsNext]_chatVars => ChatsInv'
  BY ChatsStep
<1> QED
  BY <1>1, <1>2, ChatsUseServer, StorageInvariant, PTL DEF ChatsSpec

\* Every variable of the devices keeps its type.
THEOREM ChatsTypeCorrect == ChatsSpec => []ChatsTypeOK
<1>1. ChatsInv => ChatsTypeOK
  BY DEF ChatsInv
<1> QED
  BY <1>1, ChatsInvariant, PTL

\* The route table never hands a screen the answer of another handler.
THEOREM AnswersFitScreens == ChatsSpec => []AnswersAreOfTheirKind
<1>1. ChatsInv => AnswersAreOfTheirKind
  BY DEF ChatsInv, FetchOf, AnswersAreOfTheirKind
<1> QED
  BY <1>1, ChatsInvariant, PTL

\* An open chat shows a beginning of the stored conversation and then only the
\* user's own messages.
THEOREM OpenChatsShowReads == ChatsSpec => []ShownIsReadPlusOwn
<1>1. ChatsInv => ShownIsReadPlusOwn
  BY Zenon DEF ChatsInv, ChatOn, ReadPlusOwn, ShownIsReadPlusOwn
<1> QED
  BY <1>1, ChatsInvariant, PTL

\* What a chat list on a screen previews is stored, however old the list is.
THEOREM ListsPreviewStored == ChatsSpec => []ListedIsStored
<1>1. ChatsInv => ListedIsStored
  BY DEF ChatsInv, ListOn, Previewed, PreviewIn, EntryIn, RowIn, ListedIsStored
<1> QED
  BY <1>1, ChatsInvariant, PTL
=============================================================================
