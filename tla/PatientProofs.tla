---------------------------- MODULE PatientProofs ----------------------------
(***************************************************************************)
(* Theorems about the chat screens for users who wait for an answer before *)
(* they go on, for every set of devices, names, messages and requests, and *)
(* for any number of errors, crashes and lost answers: what a screen shows *)
(* is stored, in its order, and does not disappear.                        *)
(***************************************************************************)
EXTENDS ChatProofs, SerialProofs

----------------------------------------------------------------------------
(* Patient users are users, and their server is the serial one             *)

LEMMA PatientSteps ==
    ASSUME TypeOK, [PatientNext /\ FirstContactsSerial']_chatVars
    PROVE  /\ [ChatsNext]_chatVars
           /\ [Next /\ FirstContactsSerial']_vars
<1>1. ASSUME NEW d \in Devices, PatientStep(d)
      PROVE  UserStep(d)
  BY <1>1, Zenon DEF PatientStep, UserStep
<1>2. PatientNext => ChatsNext
  BY <1>1, Zenon DEF PatientNext, ChatsNext
<1>3. [ChatsNext]_chatVars
  BY <1>2
<1>4. [Next]_vars
  BY <1>3, ScreensTakeServerSteps
<1>5. UNCHANGED chatVars => UNCHANGED vars
  BY DEF chatVars
<1> QED
  BY <1>3, <1>4, <1>5

LEMMA PatientIsSerial ==
    /\ PatientSpec => ChatsSpec
    /\ PatientSpec => SerialSpec
<1>1. TypeOK /\ [PatientNext /\ FirstContactsSerial']_chatVars =>
          [ChatsNext]_chatVars /\ [Next /\ FirstContactsSerial']_vars
  BY PatientSteps
<1>2. TypeOK /\ [Next /\ FirstContactsSerial']_vars => TypeOK'
  <2>1. [Next /\ FirstContactsSerial']_vars => [Next]_vars
    OBVIOUS
  <2> QED
    BY <2>1, TypeStep
<1>3. ChatsInit => Init
  BY DEF ChatsInit
<1> QED
  BY <1>1, <1>2, <1>3, TypeInit, PTL DEF PatientSpec, ChatsSpec, SerialSpec

\* The preview of every chat on a list is found when the chat is opened, however
\* old the list is (MessagesAll.js, Message.js).
THEOREM ListedChatsAreFound == PatientSpec => []ListedIsFound
<1>1. ChatsInv /\ SerialInv => ListedIsFound
  <2> SUFFICES ASSUME ChatsInv, SerialInv, NEW d \in Devices, list[d].chats # Undefined,
                      NEW item \in ToSet(list[d].chats)
               PROVE  \E e \in ToSet(Conversation(username[d], item.toUsername)) :
                         e.message = item.lastMessage /\ e.time = item.lastMessageTime
    BY DEF ListedIsFound
  <2>1. Previewed(username[d], item)
    BY DEF ChatsInv, ListOn
  <2>2. PICK doc \in ToSet(chat_messages) :
           /\ RowIn(chat_ids, doc.chat_id, username[d], item.toUsername)
           /\ \E e \in ToSet(doc.messages) :
                 e.message = item.lastMessage /\ e.time = item.lastMessageTime
    BY <2>1 DEF Previewed, PreviewIn
  <2>3. PICK e \in ToSet(doc.messages) :
           e.message = item.lastMessage /\ e.time = item.lastMessageTime
    BY <2>2
  <2>4. EntryIn(chat_ids, chat_messages, username[d], item.toUsername, e)
    BY <2>2 DEF EntryIn
  <2>5. e \in ToSet(Talk(chat_ids, chat_messages, username[d], item.toUsername))
    BY <2>4, StoredIsRead DEF SerialInv, StorageInv, VisibleInv, TypeOK, DatabaseOK,
                              CollectionsUnique
  <2> QED
    BY <2>3, <2>5, LookupsNow
<1> QED
  BY <1>1, PatientIsSerial, ChatsInvariant, SerialInvariant, PTL

----------------------------------------------------------------------------
(* Embedded sequences                                                      *)

LEMMA NothingEmbedded == \A t : Embedded(<<>>, t)
<1> SUFFICES ASSUME NEW t PROVE Embedded(<<>>, t)
  OBVIOUS
<1>1. DOMAIN <<>> = {}
  OBVIOUS
<1>2. [i \in {} |-> i] \in [DOMAIN <<>> -> DOMAIN t]
  BY <1>1
<1> QED
  BY <1>1, <1>2 DEF Embedded

\* A beginning is embedded.
LEMMA PrefixEmbedded ==
    ASSUME NEW S, NEW s \in Seq(S), NEW t \in Seq(S), IsPrefix(s, t)
    PROVE  Embedded(s, t)
<1>1. Len(s) <= Len(t) /\ \A i \in 1..Len(s) : s[i] = t[i]
  BY PrefixElements
<1>2. DOMAIN s = 1..Len(s) /\ DOMAIN t = 1..Len(t) /\ Len(s) \in Nat /\ Len(t) \in Nat
  BY LenProperties
<1>3. PICK f : f = [i \in DOMAIN s |-> i]
  OBVIOUS
<1>4. f \in [DOMAIN s -> DOMAIN t]
  BY <1>1, <1>2, <1>3
<1>5. \A i, j \in DOMAIN s : s[i] = t[f[i]] /\ (i < j => f[i] < f[j])
  BY <1>1, <1>2, <1>3
<1> QED
  BY <1>4, <1>5 DEF Embedded

\* What is embedded stays so when more is stored.
LEMMA EmbeddedStays ==
    ASSUME NEW S, NEW s \in Seq(S), NEW t \in Seq(S), NEW t2 \in Seq(S),
           Embedded(s, t), IsPrefix(t, t2)
    PROVE  Embedded(s, t2)
<1>1. Len(t) <= Len(t2) /\ \A i \in 1..Len(t) : t[i] = t2[i]
  BY PrefixElements
<1>2. /\ DOMAIN t = 1..Len(t) /\ DOMAIN t2 = 1..Len(t2)
      /\ Len(t) \in Nat /\ Len(t2) \in Nat
  BY LenProperties
<1>3. PICK f \in [DOMAIN s -> DOMAIN t] :
         \A i, j \in DOMAIN s : s[i] = t[f[i]] /\ (i < j => f[i] < f[j])
  BY DEF Embedded
<1>4. f \in [DOMAIN s -> DOMAIN t2]
  BY <1>1, <1>2, <1>3
<1>5. \A i, j \in DOMAIN s : s[i] = t2[f[i]] /\ (i < j => f[i] < f[j])
  BY <1>1, <1>2, <1>3
<1> QED
  BY <1>4, <1>5 DEF Embedded

\* The same element at the end of both
LEMMA EmbeddedGrows ==
    ASSUME NEW S, NEW s \in Seq(S), NEW t \in Seq(S), NEW b \in S, Embedded(s, t)
    PROVE  Embedded(Append(s, b), Append(t, b))
<1>1. PICK f \in [DOMAIN s -> DOMAIN t] :
         \A i, j \in DOMAIN s : s[i] = t[f[i]] /\ (i < j => f[i] < f[j])
  BY DEF Embedded
<1>2. PICK s2, t2 : s2 = Append(s, b) /\ t2 = Append(t, b)
  OBVIOUS
<1>3. PICK m, n : m = Len(s) + 1 /\ n = Len(t) + 1
  OBVIOUS
<1>4. /\ m \in Nat /\ n \in Nat /\ DOMAIN s = 1..(m - 1) /\ DOMAIN t = 1..(n - 1)
      /\ DOMAIN s2 = 1..m /\ DOMAIN t2 = 1..n
      /\ \A i \in 1..(m - 1) : s2[i] = s[i]
      /\ \A i \in 1..(n - 1) : t2[i] = t[i]
      /\ s2[m] = b /\ t2[n] = b
  BY <1>2, <1>3, AppendFacts, LenProperties
<1>5. PICK g : g = [i \in 1..m |-> IF i = m THEN n ELSE f[i]]
  OBVIOUS
<1>6. \A i \in 1..m : g[i] = IF i = m THEN n ELSE f[i]
  BY <1>5
<1>7. \A i \in 1..(m - 1) : f[i] \in 1..(n - 1)
  BY <1>1, <1>4
<1>8. g \in [DOMAIN s2 -> DOMAIN t2]
  <2>1. ASSUME NEW i \in 1..m
        PROVE  g[i] \in 1..n
    <3>1. CASE i = m
      BY <1>3, <1>4, <1>6, <3>1
    <3>2. CASE i # m
      <4>1. g[i] = f[i] /\ f[i] \in 1..(n - 1)
        BY <1>4, <1>6, <1>7, <3>2
      <4> QED
        BY <1>4, <4>1
    <3> QED
      BY <3>1, <3>2
  <2> QED
    BY <1>4, <1>5, <2>1
<1>9. \A i \in 1..m : s2[i] = t2[g[i]]
  <2> TAKE i \in 1..m
  <2>1. CASE i = m
    BY <1>4, <1>6, <2>1
  <2>2. CASE i # m
    <3>1. i \in 1..(m - 1) /\ g[i] = f[i] /\ f[i] \in 1..(n - 1)
      BY <1>4, <1>6, <1>7, <2>2
    <3>2. s[i] = t[f[i]]
      BY <1>1, <1>4, <3>1
    <3> QED
      BY <1>4, <3>1, <3>2
  <2> QED
    BY <2>1, <2>2
<1>10. \A i, j \in 1..m : i < j => g[i] < g[j]
  <2> SUFFICES ASSUME NEW i \in 1..m, NEW j \in 1..m, i < j PROVE g[i] < g[j]
    OBVIOUS
  <2>1. i \in 1..(m - 1) /\ g[i] = f[i] /\ f[i] \in 1..(n - 1)
    BY <1>4, <1>6, <1>7
  <2>2. CASE j = m
    BY <1>4, <1>6, <2>1, <2>2
  <2>3. CASE j # m
    <3>1. j \in 1..(m - 1) /\ g[j] = f[j]
      BY <1>4, <1>6, <2>3
    <3> QED
      BY <1>1, <1>4, <2>1, <3>1
  <2> QED
    BY <2>2, <2>3
<1>11. Embedded(s2, t2)
  BY <1>4, <1>8, <1>9, <1>10 DEF Embedded
<1> QED
  BY <1>2, <1>11

\* All elements of what is embedded are there.
LEMMA EmbeddedElements ==
    ASSUME NEW s, NEW t, Embedded(s, t)
    PROVE  ToSet(s) \subseteq ToSet(t)
BY DEF Embedded, ToSet

----------------------------------------------------------------------------
(* What boxes show                                                         *)

Box == [sentBy : Typeable, message : Texts]

LEMMA BoxesType ==
    ASSUME NEW s \in Seq(ShownEntry)
    PROVE  /\ Boxes(s) \in Seq(Box) /\ Len(Boxes(s)) = Len(s)
           /\ \A i \in 1..Len(s) :
                 Boxes(s)[i] = [sentBy |-> s[i].sentBy, message |-> s[i].message]
<1>1. DOMAIN s = 1..Len(s) /\ Len(s) \in Nat /\ \A i \in 1..Len(s) : s[i] \in ShownEntry
  BY LenProperties, ElementOfSeq
<1>2. Boxes(s) = [i \in 1..Len(s) |-> [sentBy |-> s[i].sentBy, message |-> s[i].message]]
  BY <1>1 DEF Boxes
<1>3. \A i \in 1..Len(s) : [sentBy |-> s[i].sentBy, message |-> s[i].message] \in Box
  BY <1>1 DEF ShownEntry, Box
<1>4. Boxes(s) \in [1..Len(s) -> Box]
  BY <1>2, <1>3
<1>5. Boxes(s) \in Seq(Box) /\ Len(Boxes(s)) = Len(s)
  BY <1>1, <1>4
<1> QED
  BY <1>2, <1>5

LEMMA BoxesPrefix ==
    ASSUME NEW s \in Seq(ShownEntry), NEW t \in Seq(ShownEntry), IsPrefix(s, t)
    PROVE  IsPrefix(Boxes(s), Boxes(t))
<1>1. Len(s) <= Len(t) /\ \A i \in 1..Len(s) : s[i] = t[i]
  BY PrefixElements
<1>2. /\ Boxes(s) \in Seq(Box) /\ Len(Boxes(s)) = Len(s)
      /\ \A i \in 1..Len(s) :
            Boxes(s)[i] = [sentBy |-> s[i].sentBy, message |-> s[i].message]
  BY BoxesType
<1>3. /\ Boxes(t) \in Seq(Box) /\ Len(Boxes(t)) = Len(t)
      /\ \A i \in 1..Len(t) :
            Boxes(t)[i] = [sentBy |-> t[i].sentBy, message |-> t[i].message]
  BY BoxesType
<1>4. Len(s) \in Nat /\ Len(t) \in Nat
  BY LenProperties
<1>5. ASSUME NEW i \in 1..Len(s)
      PROVE  Boxes(s)[i] = Boxes(t)[i]
  <2>1. s[i] = t[i] /\ i \in 1..Len(t)
    BY <1>1, <1>4
  <2>2. Boxes(s)[i] = [sentBy |-> s[i].sentBy, message |-> s[i].message]
    BY <1>2
  <2>3. Boxes(t)[i] = [sentBy |-> t[i].sentBy, message |-> t[i].message]
    BY <1>3, <2>1
  <2> QED
    BY <2>1, <2>2, <2>3
<1>6. PICK bs \in Seq(Box), bt \in Seq(Box) : bs = Boxes(s) /\ bt = Boxes(t)
  BY <1>2, <1>3
<1>7. Len(bs) <= Len(bt) /\ \A i \in 1..Len(bs) : bs[i] = bt[i]
  BY <1>1, <1>2, <1>3, <1>5, <1>6
<1>8. IsPrefix(bs, bt)
  BY <1>7, PrefixElements
<1> QED
  BY <1>6, <1>8

LEMMA BoxesAppend ==
    ASSUME NEW s \in Seq(ShownEntry), NEW e \in ShownEntry
    PROVE  /\ [sentBy |-> e.sentBy, message |-> e.message] \in Box
           /\ Boxes(Append(s, e)) =
                 Append(Boxes(s), [sentBy |-> e.sentBy, message |-> e.message])
<1> DEFINE b == [sentBy |-> e.sentBy, message |-> e.message]
<1>1. b \in Box
  BY DEF ShownEntry, Box
<1>2. /\ Append(s, e) \in Seq(ShownEntry) /\ Len(Append(s, e)) = Len(s) + 1
      /\ Len(s) \in Nat
      /\ \A i \in 1..Len(s) : Append(s, e)[i] = s[i]
      /\ Append(s, e)[Len(s) + 1] = e
  BY AppendFacts, LenProperties
<1>3. /\ Boxes(Append(s, e)) \in Seq(Box) /\ Len(Boxes(Append(s, e))) = Len(s) + 1
      /\ \A i \in 1..(Len(s) + 1) : Boxes(Append(s, e))[i] =
             [sentBy |-> Append(s, e)[i].sentBy, message |-> Append(s, e)[i].message]
  BY <1>2, BoxesType
<1>4. /\ Boxes(s) \in Seq(Box) /\ Len(Boxes(s)) = Len(s)
      /\ \A i \in 1..Len(s) :
            Boxes(s)[i] = [sentBy |-> s[i].sentBy, message |-> s[i].message]
  BY BoxesType
<1>5. /\ Append(Boxes(s), b) \in Seq(Box) /\ Len(Append(Boxes(s), b)) = Len(s) + 1
      /\ \A i \in 1..Len(s) : Append(Boxes(s), b)[i] = Boxes(s)[i]
      /\ Append(Boxes(s), b)[Len(s) + 1] = b
  BY <1>1, <1>4, AppendFacts
<1>6. \A i \in 1..(Len(s) + 1) : Boxes(Append(s, e))[i] = Append(Boxes(s), b)[i]
  <2> SUFFICES ASSUME NEW i \in 1..(Len(s) + 1)
               PROVE  Boxes(Append(s, e))[i] = Append(Boxes(s), b)[i]
    OBVIOUS
  <2>1. CASE i = Len(s) + 1
    BY <1>2, <1>3, <1>5, <2>1
  <2>2. CASE i \in 1..Len(s)
    <3>1. Boxes(Append(s, e))[i] = [sentBy |-> s[i].sentBy, message |-> s[i].message]
      BY <1>2, <1>3, <2>2
    <3>2. Append(Boxes(s), b)[i] = [sentBy |-> s[i].sentBy, message |-> s[i].message]
      BY <1>4, <1>5, <2>2
    <3> QED
      BY <3>1, <3>2
  <2>3. i \in 1..Len(s) \/ i = Len(s) + 1
    BY <1>2
  <2> QED
    BY <2>1, <2>2, <2>3
<1>7. Boxes(Append(s, e)) = Append(Boxes(s), b)
  BY <1>3, <1>5, <1>6, SeqEqual
<1> QED
  BY <1>1, <1>7

----------------------------------------------------------------------------
(* The invariant                                                           *)

\* Names of users have no spaces around them, and trimming leaves none: what the
\* properties of patient users rest on (MessageNew.js trims the contact of a send,
\* but not that of a refresh; sign-up does not trim at all).
NamesAreTrimmed ==
    /\ \A n \in Names : Trim[n] \in Names => Trim[Trim[n]] = Trim[n]
    /\ \A l \in Logins : \A d \in Devices : l[d] # Empty => Trim[l[d]] = l[d]

Proper(n) == n \in Names /\ Trim[n] = n

RowsProper == \A i \in 1..Len(chat_ids) :
    Proper(chat_ids[i].user1) /\ Proper(chat_ids[i].user2)

\* Only sends of a new chat open chats, and both their users are proper.
ProperOf(r) ==
    /\ pc[r] # "idle" /\ call[r].op = "sendNewMessage" =>
          Proper(call[r].from) /\ Proper(call[r].to)
    /\ Allocating(r) => call[r].op = "sendNewMessage"

\* While a chat screen waits, its request is for what the screen still says.
WaitOf(r) ==
    LET d == task[r].device
    IN  task[r].kind \in ChatTasks =>
           /\ ~chat[d].editing
           /\ pc[r] # "idle" =>
                 /\ call[r].from = username[d]
                 /\ task[r].kind = "messages" => call[r].to = chat[d].contact
                 /\ task[r].kind = "send" =>
                       call[r].to = Partner(d) /\ call[r].message = chat[d].newMessage

Answered(r) == pc[r] = "done" /\ reply[r].status = "SUCCESS"

\* The box that the answer to a send will add
OwnBox(d) == [sentBy |-> username[d], message |-> chat[d].newMessage]

\* Once the message of a send is stored, the messages on the screen and then this
\* one are embedded in the conversation.
AckedOf(r) ==
    LET d == task[r].device
    IN  /\ task[r].kind = "send" /\ (pc[r] \in UpdateCalls \/ Answered(r))
        /\ chat[d].messages # Undefined
        => Embedded(Append(Boxes(chat[d].messages), OwnBox(d)), Boxes(Talked(d)))

\* An answer that is on its way has every message that is on the screen.
GotOf(r) ==
    LET d == task[r].device
    IN  task[r].kind = "messages" /\ Answered(r) /\ chat[d].messages # Undefined
        => ToSet(Boxes(chat[d].messages)) \subseteq ToSet(Boxes(reply[r].body))

TaskInv(r) == WaitOf(r) /\ AckedOf(r) /\ GotOf(r)

\* A chat screen waits for one answer at a time.
OneTask ==
    \A r, s \in Requests :
        /\ task[r].kind \in ChatTasks /\ task[s].kind \in ChatTasks
        /\ task[r].device = task[s].device
        => r = s

ScreenOf(d) ==
    /\ chat[d].editing => chat[d].messages = <<>>
    /\ top[d] \in ChatTops /\ chat[d].messages # Undefined =>
          Embedded(Boxes(chat[d].messages), Boxes(Talked(d)))

PatientInv ==
    /\ ChatsInv /\ AnswersInv
    /\ \A d \in Devices : username[d] # Empty => Proper(username[d])
    /\ RowsProper /\ OneTask
    /\ \A r \in Requests : ProperOf(r) /\ TaskInv(r)
    /\ \A d \in Devices : ScreenOf(d)

LEMMA PatientFacts ==
    ASSUME PatientInv
    PROVE  /\ TypeOK /\ ChatsTypeOK /\ SerialInv
           /\ \A d \in Devices : /\ chat[d] \in ChatState /\ username[d] \in Typeable
                                 /\ top[d] \in Tops /\ ScreenOf(d)
                                 /\ chat[d].messages # Undefined =>
                                       chat[d].messages \in Seq(ShownEntry)
           /\ \A r \in Requests : /\ RequestInv(r) /\ AnswerOf(r) /\ FetchOf(r)
                                  /\ ProperOf(r) /\ TaskInv(r)
                                  /\ task[r].kind \in ChatTasks =>
                                        /\ task[r].device \in Devices
                                        /\ top[task[r].device] \in ChatTops
<1>1. TypeOK /\ ChatsTypeOK /\ SerialInv
  BY InvFacts DEF PatientInv, AnswersInv
<1>2. \A r \in Requests : RequestInv(r) /\ AnswerOf(r) /\ FetchOf(r)
  BY DEF PatientInv, AnswersInv, ChatsInv, StorageInv, VisibleInv
<1>3. \A r \in Requests : task[r].kind \in ChatTasks =>
          task[r].device \in Devices /\ top[task[r].device] \in ChatTops
  BY <1>2 DEF FetchOf, Unused, ChatTasks
<1>4. \A d \in Devices :
          /\ chat[d] \in ChatState /\ username[d] \in Typeable /\ top[d] \in Tops
          /\ chat[d].messages # Undefined => chat[d].messages \in Seq(ShownEntry)
  BY InvFacts DEF PatientInv, ChatState, Shown
<1> QED
  BY <1>1, <1>2, <1>3, <1>4 DEF PatientInv

\* The conversation with the contact of a chat screen
LEMMA TalkedIs ==
    ASSUME NEW d \in Devices
    PROVE  /\ Talked(d) = Talk(chat_ids, chat_messages, username[d], Partner(d))
           /\ Talked(d)' = Talk(chat_ids', chat_messages', username'[d], Partner(d)')
<1>1. Talked(d) = Talk(chat_ids, chat_messages, username[d], Partner(d))
  BY LookupsNow DEF Talked
<1>2. Talked(d)' = Talk(chat_ids', chat_messages', username'[d], Partner(d)')
  BY Zenon DEF Talked, Conversation, Talk, ChatRow, Log, FirstChat, FirstLog, SelectInSeq
<1> QED
  BY <1>1, <1>2

LEMMA TalkedType ==
    ASSUME TypeOK, NEW d \in Devices
    PROVE  /\ Talked(d) \in Seq(Entry) /\ Talked(d) \in Seq(ShownEntry)
           /\ Boxes(Talked(d)) \in Seq(Box)
<1>1. Talked(d) \in Seq(Entry)
  BY TalkedIs, TalkType DEF TypeOK, DatabaseOK
<1>2. Entry \subseteq ShownEntry
  BY DEF Entry, ShownEntry, Typeable, Texts
<1>3. Talked(d) \in Seq(ShownEntry)
  BY <1>1, <1>2
<1> QED
  BY <1>1, <1>3, BoxesType

----------------------------------------------------------------------------
(* The server's steps                                                      *)

\* What one step of the server does for a request
LEMMA RequestMoves ==
    ASSUME TypeOK, ServerStep \/ UNCHANGED chatVars, NEW r \in Requests
    PROVE  /\ UNCHANGED call[r]
           /\ \/ UNCHANGED <<pc[r], reply[r]>>
              \/ pc'[r] = "lost"
              \/ pc'[r] = "done" /\ reply'[r].status # "SUCCESS"
              \/ Step(r)
<1>1. UNCHANGED call
  BY ServerStepEffect DEF chatVars, vars
<1>2. ASSUME NEW s \in Requests, s # r, Step(s) \/ CallFails(s) \/ AckLost(s)
      PROVE  UNCHANGED <<pc[r], reply[r]>>
  <2>1. CASE Step(s)
    BY <1>2, <2>1, StepIsLocal
  <2>2. CASE CallFails(s) \/ AckLost(s)
    BY <1>2, <2>2 DEF CallFails, AckLost, SendError, Send, TypeOK, RequestsOK
  <2> QED
    BY <1>2, <2>1, <2>2
<1>3. CallFails(r) \/ AckLost(r) => pc'[r] = "done" /\ reply'[r].status # "SUCCESS"
  BY SendFacts DEF CallFails, AckLost, SendError
<1>4. Crash => pc'[r] = "lost" \/ UNCHANGED <<pc[r], reply[r]>>
  BY DEF Crash
<1>5. Tick \/ UNCHANGED chatVars => UNCHANGED <<pc[r], reply[r]>>
  BY DEF Tick, chatVars, vars
<1> QED
  BY <1>1, <1>2, <1>3, <1>4, <1>5 DEF ServerStep

\* The step of a send from a call that stores its message
LEMMA StoringStep ==
    ASSUME TypeOK, NEW r \in Requests, Step(r), pc[r] \in StoreCalls
    PROVE  StoreStep(r)
<1>1. /\ ~ListUsernames(r) /\ ~FindChats(r) /\ ~CheckRecipient(r) /\ ~FindChat(r)
      /\ ~FindMessages(r) /\ ~AllocateChatId(r) /\ ~InsertChatId(r)
  BY DEF StoreCalls, ListUsernames, FindChats, CheckRecipient, FindChat, FindMessages,
         AllocateChatId, InsertChatId
<1>2. ~UpdatePreviews(r) /\ ~addNewUser(r)
  BY DEF StoreCalls, UpdatePreviews, ReadSender, WriteSender, ReadRecipient,
         WriteRecipient, addNewUser, InsertUser, InsertRow
<1>3. PushMessage(r) \/ InsertMessages(r)
  BY <1>1, <1>2, Zenon DEF Step, getExistingUsernames, getUserChats,
     getUserChatMessages, sendMessage, sendNewMessage
<1>4. /\ \A step : Await(r, step) => pc'[r] = step
      /\ SendError(r) => pc'[r] = "done"
  BY AwaitFacts, SendFacts DEF SendError
<1> QED
  BY <1>3, <1>4 DEF PushMessage, PushModifies, InsertMessages, StoreStep

\* The step that reads messages answers with the whole conversation.
LEMMA MessagesRead ==
    ASSUME TypeOK, NEW r \in Requests, RequestInv(r), Step(r), Answered(r)',
           call[r].op = "getUserChatMessages"
    PROVE  ChatOf(r) # 0 /\ reply'[r].body = Own(r)
<1>1. FindChat(r) \/ FindMessages(r)
  <2>1. /\ ~ListUsernames(r) /\ ~sendMessage(r) /\ ~sendNewMessage(r)
        /\ ~FindChats(r) /\ ~InsertUser(r) /\ ~InsertRow(r)
    BY DEF ListUsernames, sendMessage, sendNewMessage, FindChats, InsertUser, InsertRow,
           RequestInv, ControlOf
  <2> QED
    BY <2>1, Zenon DEF Step, getExistingUsernames, getUserChats, getUserChatMessages,
       addNewUser
<1>2. pc'[r] = "done" /\ reply'[r].status = "SUCCESS"
  BY DEF Answered
<1>3. ~FindChat(r)
  <2>1. SendError(r) => reply'[r].status = "DB_ERR"
    BY SendFacts DEF SendError
  <2>2. \A step : Await(r, step) => pc'[r] = step
    BY AwaitFacts
  <2> QED
    BY <1>2, <2>1, <2>2 DEF FindChat
<1>4. PICK doc : doc = Log(local[r].chat)
  OBVIOUS
<1>5. /\ pc[r] = "findMessages"
      /\ IF doc # 0 THEN Send(r, "SUCCESS", chat_messages[doc].messages)
                    ELSE SendError(r)
  BY <1>1, <1>3, <1>4 DEF FindMessages
<1>6. doc # 0 /\ reply'[r].body = chat_messages[doc].messages
  BY <1>2, <1>5, SendFacts DEF SendError
<1>7. ChatOf(r) # 0 /\ chat_ids[ChatOf(r)].chat_id = local[r].chat
  BY <1>5 DEF RequestInv, IdOf
<1> QED
  BY <1>4, <1>6, <1>7, OwnIsLog

\* What is on a screen stays embedded while the conversation grows.
LEMMA TalkedGrows ==
    ASSUME TypeOK, TypeOK', [Next]_vars, NEW d \in Devices,
           username'[d] = username[d], Partner(d)' = Partner(d)
    PROVE  /\ IsPrefix(Talked(d), Talked(d)')
           /\ \A s \in Seq(Box) :
                 Embedded(s, Boxes(Talked(d))) => Embedded(s, Boxes(Talked(d))')
<1>1. PICK t \in Seq(ShownEntry), t2 \in Seq(ShownEntry) :
         /\ t = Talked(d) /\ t2 = Talked(d)'
         /\ t = Talk(chat_ids, chat_messages, username[d], Partner(d))
         /\ t2 = Talk(chat_ids', chat_messages', username[d], Partner(d))
  <2>1. Talked(d) \in Seq(ShownEntry)
    BY TalkedType
  <2>2. Talked(d)' \in Seq(ShownEntry)
    <3>1. Talked(d)' = Talk(chat_ids', chat_messages', username'[d], Partner(d)')
      BY TalkedIs
    <3>2. Talked(d)' \in Seq(Entry)
      BY <3>1, TalkType DEF TypeOK, DatabaseOK
    <3>3. Entry \subseteq ShownEntry
      BY DEF Entry, ShownEntry, Typeable, Texts
    <3> QED
      BY <3>2, <3>3
  <2> QED
    BY <2>1, <2>2, TalkedIs
<1>2. IsPrefix(t, t2)
  BY <1>1, StepKeeps, TalkGrows DEF TypeOK, DatabaseOK
<1>3. Boxes(t) \in Seq(Box) /\ Boxes(t2) \in Seq(Box) /\ IsPrefix(Boxes(t), Boxes(t2))
  BY <1>2, BoxesType, BoxesPrefix
<1>4. \A s \in Seq(Box) : Embedded(s, Boxes(t)) => Embedded(s, Boxes(t2))
  BY <1>3, EmbeddedStays
<1>5. Boxes(Talked(d))' = Boxes(t2)
  BY <1>1 DEF Boxes
<1> QED
  BY <1>1, <1>2, <1>4, <1>5

LEMMA RowsStep ==
    ASSUME PatientInv, [Next]_vars
    PROVE  RowsProper'
<1>1. TypeOK /\ RowsProper /\ \A r \in Requests : ProperOf(r)
  BY PatientFacts DEF PatientInv
<1>2. CASE UNCHANGED chat_ids
  BY <1>1, <1>2 DEF RowsProper
<1>3. ASSUME NEW s \in Requests, pc[s] = "insertChatId", AddChatId(s)
      PROVE  RowsProper'
  <2>1. Proper(call[s].from) /\ Proper(call[s].to)
    BY <1>1, <1>3 DEF ProperOf, Allocating
  <2> DEFINE row == [chat_id |-> local[s].chat, user1 |-> call[s].from,
                     user2 |-> call[s].to]
  <2>2. chat_ids' = Append(chat_ids, row)
    BY <1>3 DEF AddChatId
  <2>3. row \in ChatId
    BY <1>1, <1>3, RequestTypes DEF TypeOK, ChatId, Local
  <2>4. chat_ids \in Seq(ChatId)
    BY <1>1 DEF TypeOK, DatabaseOK
  <2>5. /\ Len(chat_ids') = Len(chat_ids) + 1 /\ Len(chat_ids) \in Nat
        /\ chat_ids'[Len(chat_ids) + 1] = row
        /\ \A i \in 1..Len(chat_ids) : chat_ids'[i] = chat_ids[i]
    BY <2>2, <2>3, <2>4, AppendFacts, LenProperties
  <2>6. row.user1 = call[s].from /\ row.user2 = call[s].to
    OBVIOUS
  <2> HIDE DEF row
  <2>7. ASSUME NEW i \in 1..Len(chat_ids')
        PROVE  Proper(chat_ids'[i].user1) /\ Proper(chat_ids'[i].user2)
    <3>1. CASE i = Len(chat_ids) + 1
      BY <2>1, <2>5, <2>6, <3>1
    <3>2. CASE i \in 1..Len(chat_ids)
      BY <1>1, <2>5, <3>2 DEF RowsProper
    <3> QED
      BY <2>5, <3>1, <3>2
  <2> QED
    BY <2>7 DEF RowsProper, Proper
<1>4. UNCHANGED chat_ids \/ \E s \in Requests : StoreStep(s)
  BY <1>1, NextStores
<1>5. \A s \in Requests : StoreStep(s) =>
          UNCHANGED chat_ids \/ (pc[s] = "insertChatId" /\ AddChatId(s))
  BY DEF StoreStep, AddLog, AppendEntry
<1> QED
  BY <1>2, <1>3, <1>4, <1>5

\* The conversation of a proper contact is the one that its messages are read from.
LEMMA ProperTalk ==
    ASSUME PatientInv, NEW d \in Devices, top[d] \in ChatTops,
           NEW i \in 1..Len(chat_ids), NEW u, SamePair(chat_ids[i], u, chat[d].contact)
    PROVE  Partner(d) = chat[d].contact
<1>1. Proper(chat[d].contact)
  BY DEF PatientInv, RowsProper, SamePair
<1>2. chat[d].contact # Empty
  BY <1>1, EmptyAssumption DEF Proper
<1> QED
  BY <1>1, <1>2 DEF Partner, Trimmed, Proper

LEMMA ServerProper ==
    ASSUME PatientInv, ServerStep \/ UNCHANGED chatVars, NEW r \in Requests
    PROVE  ProperOf(r)'
<1>1. TypeOK /\ ProperOf(r)
  BY PatientFacts
<1>2. UNCHANGED call[r] /\ (pc'[r] # "idle" => pc[r] # "idle")
  BY <1>1, ServerStepEffect, RequestMoves DEF chatVars, vars
<1>3. Allocating(r)' => Allocating(r) \/ call[r].op = "sendNewMessage"
  <2>1. CASE Step(r)
    <3>1. pc'[r] = "done" \/ Advances(r)
      BY <1>1, <2>1, StepMoves
    <3> QED
      BY <3>1 DEF Allocating, Advances, OpeningMoves, SendMoves
  <2>2. CASE UNCHANGED <<pc[r], reply[r]>> \/ pc'[r] = "lost" \/ pc'[r] = "done"
    BY <2>2 DEF Allocating
  <2> QED
    BY <1>1, <2>1, <2>2, RequestMoves
<1>4. Allocating(r)' => call'[r].op = "sendNewMessage"
  BY <1>1, <1>2, <1>3 DEF ProperOf
<1>5. pc'[r] # "idle" /\ call'[r].op = "sendNewMessage" =>
          Proper(call'[r].from) /\ Proper(call'[r].to)
  BY <1>1, <1>2 DEF ProperOf
<1> QED
  BY <1>4, <1>5 DEF ProperOf, Proper

\* What the server's steps leave alone
LEMMA ServerFrame ==
    ASSUME PatientInv, ServerStep \/ UNCHANGED chatVars
    PROVE  /\ UNCHANGED <<username, top, list, chat, task>>
           /\ [Next]_vars
           /\ \A d \in Devices : Partner(d)' = Partner(d) /\ OwnBox(d)' = OwnBox(d)
<1>1. UNCHANGED <<username, top, list, chat, task>>
  BY DEF ServerStep, chatVars
<1>2. [Next]_vars
  BY PatientFacts, ServerStepEffect DEF chatVars
<1>3. \A d \in Devices : Partner(d)' = Partner(d) /\ OwnBox(d)' = OwnBox(d)
  BY <1>1 DEF Partner, OwnBox, Trimmed
<1> QED
  BY <1>1, <1>2, <1>3

LEMMA ServerScreens ==
    ASSUME PatientInv, AnswersInv', ServerStep \/ UNCHANGED chatVars, NEW d \in Devices
    PROVE  ScreenOf(d)'
<1>1. /\ TypeOK /\ TypeOK' /\ ScreenOf(d)
      /\ chat[d].messages # Undefined => chat[d].messages \in Seq(ShownEntry)
  BY PatientFacts DEF AnswersInv, SerialInv, StorageInv, VisibleInv
<1>2. UNCHANGED <<username, top, chat>> /\ [Next]_vars /\ Partner(d)' = Partner(d)
  BY ServerFrame
<1>3. ASSUME top[d] \in ChatTops, chat[d].messages # Undefined
      PROVE  Embedded(Boxes(chat[d].messages), Boxes(Talked(d))')
  <2>1. Boxes(chat[d].messages) \in Seq(Box)
    BY <1>1, <1>3, BoxesType
  <2>2. Embedded(Boxes(chat[d].messages), Boxes(Talked(d)))
    BY <1>1, <1>3 DEF ScreenOf
  <2> QED
    BY <1>1, <1>2, <2>1, <2>2, TalkedGrows
<1>4. \A t : Embedded(Boxes(chat[d].messages), t) => Embedded(Boxes(chat[d].messages)', t)
  BY <1>2 DEF Boxes
<1>5. top'[d] \in ChatTops /\ chat'[d].messages # Undefined =>
          Embedded(Boxes(chat[d].messages)', Boxes(Talked(d))')
  BY <1>2, <1>3, <1>4
<1>6. chat'[d].editing => chat'[d].messages = <<>>
  BY <1>1, <1>2 DEF ScreenOf
<1> QED
  BY <1>5, <1>6 DEF ScreenOf

\* A send that has just stored its message has put it at the end of the
\* conversation, after what is on the screen.
LEMMA StoredAfterShown ==
    ASSUME PatientInv, AnswersInv', NEW r \in Requests, Step(r),
           pc[r] \in StoreCalls, pc'[r] = "readSender", NEW d \in Devices,
           UNCHANGED <<username, top, chat>>, top[d] \in ChatTops,
           call[r].from = username[d], call[r].to = Partner(d),
           call[r].message = chat[d].newMessage, chat[d].messages # Undefined
    PROVE  Embedded(Append(Boxes(chat[d].messages), OwnBox(d)), Boxes(Talked(d)'))
<1>1. /\ TypeOK /\ TypeOK' /\ SerialInv /\ CollectionsUnique' /\ ScreenOf(d)
      /\ chat[d].messages \in Seq(ShownEntry)
  BY PatientFacts DEF AnswersInv, SerialInv, StorageInv, VisibleInv
<1>2. PairGrows(call[r].from, call[r].to, EntryOf(r))
  BY <1>1, StoringStep, StoreTalks
<1>3. Partner(d)' = Partner(d)
  BY DEF Partner, Trimmed
<1>4. PICK t : t = Talked(d)
  OBVIOUS
<1>5. Talked(d)' = Append(t, EntryOf(r))
  BY <1>2, <1>3, <1>4, TalkedIs DEF PairGrows
<1>6. /\ EntryOf(r) \in ShownEntry
      /\ EntryOf(r).sentBy = username[d] /\ EntryOf(r).message = chat[d].newMessage
  <2>1. EntryOf(r) \in Entry
    BY <1>1, RequestTypes DEF TypeOK, StoreCalls
  <2> QED
    BY <2>1 DEF Entry, ShownEntry, Typeable, Texts, EntryOf
<1>7. t \in Seq(ShownEntry) /\ Boxes(t) \in Seq(Box)
  BY <1>1, <1>4, TalkedType
<1>8. OwnBox(d) \in Box /\ Boxes(Append(t, EntryOf(r))) = Append(Boxes(t), OwnBox(d))
  BY <1>6, <1>7, BoxesAppend DEF OwnBox
<1>9. Embedded(Boxes(chat[d].messages), Boxes(t)) /\ Boxes(chat[d].messages) \in Seq(Box)
  BY <1>1, <1>4, BoxesType DEF ScreenOf
<1>10. Embedded(Append(Boxes(chat[d].messages), OwnBox(d)), Append(Boxes(t), OwnBox(d)))
  BY <1>7, <1>8, <1>9, EmbeddedGrows
<1> QED
  BY <1>5, <1>8, <1>10

\* Only the last write of a send is answered with success.
LEMMA SuccessOfSend ==
    ASSUME PatientInv, NEW r \in Requests, Step(r), Answered(r)', call[r].op \in SendOps
    PROVE  pc[r] = "writeRecipient"
<1>1. TypeOK /\ RequestInv(r) /\ AnswerOf(r)
  BY PatientFacts
<1>2. pc[r] \in Running /\ UNCHANGED call
  BY <1>1, StepMoves
<1>3. reply[r].status # "SUCCESS" /\ pc'[r] = "done" /\ reply'[r].status = "SUCCESS"
  BY <1>1, <1>2 DEF AnswerOf, Answered
<1>4. ~GoesOn(r) /\ ~AnsweredOther(r)
  BY <1>2, <1>3 DEF GoesOn, AnsweredOther
<1> QED
  BY <1>1, <1>4, StepAnswers DEF AnsweredSend

LEMMA ServerTasks ==
    ASSUME PatientInv, AnswersInv', ServerStep \/ UNCHANGED chatVars, NEW r \in Requests
    PROVE  TaskInv(r)'
<1>1. /\ TypeOK /\ TypeOK' /\ SerialInv
      /\ RequestInv(r) /\ AnswerOf(r) /\ FetchOf(r) /\ TaskInv(r)
      /\ task[r].kind \in ChatTasks =>
            task[r].device \in Devices /\ top[task[r].device] \in ChatTops
  BY PatientFacts DEF AnswersInv, SerialInv, StorageInv, VisibleInv
<1>2. /\ UNCHANGED <<username, top, list, chat, task>> /\ [Next]_vars
      /\ \A d \in Devices : Partner(d)' = Partner(d) /\ OwnBox(d)' = OwnBox(d)
  BY ServerFrame
<1>3. UNCHANGED call[r] /\ (pc'[r] # "idle" => pc[r] # "idle")
  BY <1>1, ServerStepEffect, RequestMoves DEF chatVars, vars
<1>4. CASE task[r].kind \notin ChatTasks
  BY <1>2, <1>4 DEF TaskInv, WaitOf, AckedOf, GotOf, ChatTasks
<1>5. CASE task[r].kind \in ChatTasks
  <2>1. PICK d \in Devices : d = task[r].device
    BY <1>1, <1>5
  <2>2. top[d] \in ChatTops /\ ScreenOf(d) /\ task'[r].device = d
    BY <1>1, <1>2, <1>5, <2>1, PatientFacts
  <2>3. WaitOf(r)'
    BY <1>1, <1>2, <1>3, <1>5, <2>1 DEF TaskInv, WaitOf
  <2>4. ASSUME chat[d].messages # Undefined
        PROVE  /\ chat[d].messages \in Seq(ShownEntry) /\ OwnBox(d) \in Box
               /\ Boxes(chat[d].messages) \in Seq(Box)
               /\ Append(Boxes(chat[d].messages), OwnBox(d)) \in Seq(Box)
    <3>1. chat[d].messages \in Seq(ShownEntry) /\ chat[d] \in ChatState
          /\ username[d] \in Typeable
      BY <2>4, PatientFacts
    <3>2. OwnBox(d) \in Box
      BY <3>1 DEF OwnBox, Box, ChatState
    <3>3. Boxes(chat[d].messages) \in Seq(Box)
      BY <3>1, BoxesType
    <3> QED
      BY <3>1, <3>2, <3>3, AppendFacts
  <2>5. AckedOf(r)'
    <3>1. ASSUME task[r].kind = "send", chat[d].messages # Undefined,
                 pc'[r] \in UpdateCalls \/ Answered(r)'
          PROVE  Embedded(Append(Boxes(chat[d].messages), OwnBox(d)), Boxes(Talked(d)'))
      <4>1. CASE pc[r] \in UpdateCalls \/ Answered(r)
        <5>1. Embedded(Append(Boxes(chat[d].messages), OwnBox(d)), Boxes(Talked(d)))
          BY <1>1, <2>1, <3>1, <4>1 DEF TaskInv, AckedOf
        <5>2. Boxes(Talked(d))' = Boxes(Talked(d)')
          BY DEF Boxes
        <5> QED
          BY <1>1, <1>2, <2>4, <3>1, <5>1, <5>2, TalkedGrows
      <4>2. CASE ~(pc[r] \in UpdateCalls \/ Answered(r))
        <5>1. Step(r) /\ pc[r] \in Running
          BY <1>1, <3>1, <4>2, RequestMoves, StepMoves DEF Answered, UpdateCalls
        <5>2. call[r].op \in SendOps /\ pc[r] # "idle"
          BY <1>1, <3>1, <5>1 DEF FetchOf, Running, ReadCalls, WriteCalls
        <5>3. ~Answered(r)'
          BY <4>2, <5>1, <5>2, SuccessOfSend DEF UpdateCalls
        <5>4. pc[r] \in StoreCalls /\ pc'[r] = "readSender"
          <6>1. pc'[r] \in UpdateCalls /\ pc[r] \notin UpdateCalls
            BY <3>1, <4>2, <5>3
          <6>2. Advances(r)
            BY <1>1, <5>1, <6>1, StepMoves DEF UpdateCalls
          <6> QED
            BY <6>1, <6>2 DEF Advances, SendMoves, OpeningMoves, UpdateCalls, StoreCalls
        <5>5. /\ call[r].from = username[d] /\ call[r].to = Partner(d)
              /\ call[r].message = chat[d].newMessage
          BY <1>1, <1>5, <2>1, <3>1, <5>2 DEF TaskInv, WaitOf
        <5> QED
          BY <1>2, <2>2, <3>1, <5>1, <5>4, <5>5, StoredAfterShown
      <4> QED
        BY <4>1, <4>2
    <3>2. /\ OwnBox(d)' = OwnBox(d) /\ Boxes(Talked(d))' = Boxes(Talked(d)')
          /\ Boxes(chat[d].messages)' = Boxes(chat[d].messages)
      BY <1>2 DEF Boxes
    <3> QED
      BY <1>2, <2>1, <3>1, <3>2 DEF AckedOf
  <2>6. GotOf(r)'
    <3>1. ASSUME task[r].kind = "messages", chat[d].messages # Undefined, Answered(r)'
          PROVE  ToSet(Boxes(chat[d].messages)) \subseteq ToSet(Boxes(reply'[r].body))
      <4>1. CASE Answered(r)
        <5>1. ~Step(r)
          BY <1>1, <4>1, StepMoves DEF Answered, Running, ReadCalls, WriteCalls
        <5>2. UNCHANGED reply[r]
          BY <1>1, <3>1, <5>1, RequestMoves DEF Answered
        <5> QED
          BY <1>1, <2>1, <3>1, <4>1, <5>2 DEF TaskInv, GotOf
      <4>2. CASE ~Answered(r)
        <5>1. Step(r) /\ pc[r] \in Running
          BY <1>1, <3>1, <4>2, RequestMoves, StepMoves DEF Answered
        <5>2. /\ call[r].op = "getUserChatMessages" /\ pc[r] # "idle"
              /\ call[r].from = username[d] /\ call[r].to = chat[d].contact
          BY <1>1, <1>5, <2>1, <3>1, <5>1
             DEF TaskInv, WaitOf, FetchOf, Running, ReadCalls, WriteCalls
        <5>3. ChatOf(r) # 0 /\ reply'[r].body = Own(r)
          BY <1>1, <3>1, <5>1, <5>2, MessagesRead
        <5>4. Own(r) = Talked(d)
          <6>1. Len(chat_ids) \in Nat
            BY <1>1, LenProperties DEF TypeOK, DatabaseOK
          <6>2. /\ ChatOf(r) \in 1..Len(chat_ids)
                /\ SamePair(chat_ids[ChatOf(r)], username[d], chat[d].contact)
            BY <5>2, <5>3, <6>1, FirstChatLemma DEF ChatOf
          <6>3. Partner(d) = chat[d].contact
            BY <2>2, <6>2, ProperTalk
          <6> QED
            BY <5>2, <6>3, TalkedIs DEF Own
        <5>5. Embedded(Boxes(chat[d].messages), Boxes(Talked(d)))
          BY <2>2, <3>1 DEF ScreenOf
        <5> QED
          BY <5>3, <5>4, <5>5, EmbeddedElements
      <4> QED
        BY <4>1, <4>2
    <3>2. /\ Boxes(reply[r].body)' = Boxes(reply'[r].body)
          /\ Boxes(chat[d].messages)' = Boxes(chat[d].messages)
      BY <1>2 DEF Boxes
    <3>3. ToSet(Boxes(chat[d].messages))' = ToSet(Boxes(chat[d].messages))
          /\ ToSet(Boxes(reply[r].body))' = ToSet(Boxes(reply'[r].body))
      BY <3>2 DEF ToSet
    <3> QED
      BY <1>2, <2>1, <3>1, <3>3 DEF GotOf
  <2> QED
    BY <2>3, <2>5, <2>6 DEF TaskInv
<1> QED
  BY <1>4, <1>5

LEMMA PatientServerStep ==
    ASSUME PatientInv, ChatsInv', AnswersInv', ServerStep \/ UNCHANGED chatVars
    PROVE  PatientInv'
<1>1. UNCHANGED <<username, task>> /\ [Next]_vars
  BY ServerFrame
<1>2. \A r \in Requests : ProperOf(r)' /\ TaskInv(r)'
  BY ServerProper, ServerTasks
<1>3. \A d \in Devices : ScreenOf(d)'
  BY ServerScreens
<1>4. OneTask' /\ \A d \in Devices : username'[d] # Empty => Proper(username'[d])
  BY <1>1 DEF PatientInv, OneTask
<1> QED
  BY <1>1, <1>2, <1>3, <1>4, RowsStep DEF PatientInv, Proper

----------------------------------------------------------------------------
(* Steps on one device                                                     *)

LEMMA NoBoxes == Boxes(<<>>) = <<>>
<1>1. <<>> \in Seq(ShownEntry) /\ Len(<<>>) = 0
  OBVIOUS
<1>2. Boxes(<<>>) \in Seq(Box) /\ Len(Boxes(<<>>)) = 0
  BY <1>1, BoxesType
<1> QED
  BY <1>2, EmptySeq

\* An empty screen shows nothing that is not stored.
LEMMA ScreenEmpty ==
    ASSUME NEW d \in Devices, chat'[d].messages = <<>>
    PROVE  ScreenOf(d)'
<1>1. Boxes(chat'[d].messages) = <<>>
  BY NoBoxes
<1>2. Boxes(chat[d].messages)' = Boxes(chat'[d].messages)
  BY DEF Boxes
<1>3. Embedded(Boxes(chat[d].messages)', Boxes(Talked(d))')
  BY <1>1, <1>2, NothingEmbedded
<1> QED
  BY <1>3 DEF ScreenOf

\* The conversation of a device that no step has changed
LEMMA SameTalked ==
    ASSUME UNCHANGED <<username, database>>, NEW d \in Devices,
           top'[d] = top[d], chat'[d].contact = chat[d].contact
    PROVE  Partner(d)' = Partner(d) /\ Talked(d)' = Talked(d)
<1>1. Partner(d)' = Partner(d)
  BY DEF Partner, Trimmed
<1>2. chat_ids' = chat_ids /\ chat_messages' = chat_messages
  BY DEF database
<1> QED
  BY <1>1, <1>2, TalkedIs

LEMMA ScreenSame ==
    ASSUME UNCHANGED <<username, database>>, NEW d \in Devices, ScreenOf(d),
           top'[d] = top[d], chat'[d].contact = chat[d].contact,
           chat'[d].messages = chat[d].messages, chat'[d].editing => chat[d].editing
    PROVE  ScreenOf(d)'
<1>1. Boxes(Talked(d))' = Boxes(Talked(d))
  <2>1. Talked(d)' = Talked(d)
    BY SameTalked
  <2> QED
    BY <2>1 DEF Boxes
<1>2. Boxes(chat[d].messages)' = Boxes(chat[d].messages)
  BY DEF Boxes
<1> QED
  BY <1>1, <1>2 DEF ScreenOf

LEMMA TaskSame ==
    ASSUME UNCHANGED <<username, database>>, NEW r \in Requests, TaskInv(r),
           UNCHANGED <<pc[r], call[r], reply[r], task[r]>>,
           task[r].kind \in ChatTasks =>
               /\ task[r].device \in Devices
               /\ UNCHANGED <<top[task[r].device], chat[task[r].device]>>
    PROVE  TaskInv(r)'
<1>1. CASE task[r].kind \notin ChatTasks
  BY <1>1 DEF TaskInv, WaitOf, AckedOf, GotOf, ChatTasks
<1>2. CASE task[r].kind \in ChatTasks
  <2>1. PICK d \in Devices : d = task[r].device
    BY <1>2
  <2>2. /\ task'[r].device = d /\ chat'[d] = chat[d] /\ username'[d] = username[d]
        /\ Partner(d)' = Partner(d) /\ Talked(d)' = Talked(d) /\ OwnBox(d)' = OwnBox(d)
    BY <1>2, <2>1, SameTalked DEF OwnBox
  <2>3. WaitOf(r)'
    BY <1>2, <2>1, <2>2 DEF TaskInv, WaitOf
  <2>4. /\ Boxes(Talked(d))' = Boxes(Talked(d))
        /\ Boxes(chat[d].messages)' = Boxes(chat[d].messages)
        /\ ToSet(Boxes(chat[d].messages))' = ToSet(Boxes(chat[d].messages))
        /\ ToSet(Boxes(reply[r].body))' = ToSet(Boxes(reply[r].body))
    BY <2>2 DEF Boxes, ToSet
  <2>5. AckedOf(r)'
    BY <2>1, <2>2, <2>4 DEF TaskInv, AckedOf, Answered
  <2>6. GotOf(r)'
    BY <2>1, <2>2, <2>4 DEF TaskInv, GotOf, Answered
  <2> QED
    BY <2>3, <2>5, <2>6 DEF TaskInv
<1> QED
  BY <1>1, <1>2

\* A step on one device keeps the invariant if it does so there, and for the
\* requests it starts.
LEMMA OneScreenSteps ==
    ASSUME PatientInv, ChatsInv', AnswersInv', UNCHANGED <<username, database>>,
           NEW d \in Devices,
           \A e \in Devices : e # d => UNCHANGED <<top[e], chat[e]>>,
           ScreenOf(d)', OneTask',
           \A r \in Requests : UNCHANGED <<pc[r], call[r]>> \/ ProperOf(r)',
           \A r \in Requests :
              \/ task'[r].kind \notin ChatTasks \/ TaskInv(r)'
              \/ task[r].device # d /\ UNCHANGED <<pc[r], call[r], reply[r], task[r]>>
    PROVE  PatientInv'
<1>1. ASSUME NEW r \in Requests
      PROVE  ProperOf(r)'
  <2>1. ProperOf(r)
    BY PatientFacts
  <2>2. UNCHANGED <<pc[r], call[r]>> => ProperOf(r)'
    BY <2>1 DEF ProperOf, Allocating, Proper
  <2> QED
    BY <2>2
<1>2. ASSUME NEW r \in Requests
      PROVE  TaskInv(r)'
  <2>1. CASE task'[r].kind \notin ChatTasks
    BY <2>1 DEF TaskInv, WaitOf, AckedOf, GotOf, ChatTasks
  <2>2. CASE /\ task'[r].kind \in ChatTasks /\ task[r].device # d
             /\ UNCHANGED <<pc[r], call[r], reply[r], task[r]>>
    <3>1. task[r].device \in Devices /\ TaskInv(r)
      BY <2>2, PatientFacts
    <3>2. UNCHANGED <<top[task[r].device], chat[task[r].device]>>
      BY <2>2, <3>1
    <3> QED
      BY <2>2, <3>1, <3>2, TaskSame
  <2> QED
    BY <2>1, <2>2
<1>3. ASSUME NEW e \in Devices
      PROVE  ScreenOf(e)'
  <2>1. CASE e = d
    BY <2>1
  <2>2. CASE e # d
    <3>1. ScreenOf(e) /\ UNCHANGED <<top[e], chat[e]>>
      BY <2>2, PatientFacts
    <3> QED
      BY <3>1, ScreenSame
  <2> QED
    BY <2>1, <2>2
<1>4. RowsProper'
  BY DEF PatientInv, RowsProper, Proper, database
<1>5. \A e \in Devices : username'[e] # Empty => Proper(username'[e])
  BY DEF PatientInv
<1> QED
  BY <1>1, <1>2, <1>3, <1>4, <1>5 DEF PatientInv, Proper

\* No screen but that of a chat waits.
LEMMA NotWaiting ==
    ASSUME PatientInv, NEW d \in Devices, top[d] \notin ChatTops \/ ~Waiting(d),
           NEW r \in Requests, task[r].kind \in ChatTasks
    PROVE  task[r].device # d
BY PatientFacts DEF Waiting, Waits

LEMMA OneTaskStays ==
    ASSUME PatientInv,
           \A r \in Requests : task'[r].kind \in ChatTasks => task'[r] = task[r]
    PROVE  OneTask'
BY DEF PatientInv, OneTask

\* A screen that does not wait may start a request.
LEMMA OneTaskStarts ==
    ASSUME PatientInv, NEW d \in Devices, NEW s \in Requests, task'[s].device = d,
           \A r \in Requests \ {s} : task'[r].kind \in ChatTasks =>
               task'[r] = task[r] /\ task[r].device # d
    PROVE  OneTask'
<1> SUFFICES ASSUME NEW x \in Requests, NEW y \in Requests,
                    task'[x].kind \in ChatTasks, task'[y].kind \in ChatTasks,
                    task'[x].device = task'[y].device
             PROVE  x = y
  BY DEF OneTask
<1>1. x # s /\ y # s => task'[x] = task[x] /\ task'[y] = task[y]
  OBVIOUS
<1>2. x # s /\ y # s => x = y
  BY <1>1 DEF PatientInv, OneTask
<1>3. x = s <=> y = s
  OBVIOUS
<1> QED
  BY <1>2, <1>3

----------------------------------------------------------------------------
(* Requests that a screen starts                                           *)

\* What every request does to the server
LEMMA Asked ==
    ASSUME PatientInv, NEW r \in Requests, Unused(r), NEW method, NEW path, NEW message,
           Request(r, method, path, message)
    PROVE  /\ UNCHANGED <<database, reply>>
           /\ \A s \in Requests : s # r => UNCHANGED <<pc[s], call[s]>>
           /\ pc'[r] \notin UpdateCalls \cup {"done"} /\ ~Allocating(r)'
           /\ pc'[r] # "idle" =>
                 /\ call'[r] \in Call
                 /\ Dispatch(method, path) \in Handlers
                 /\ call'[r].op = Dispatch(method, path) /\ call'[r].from = Head(path)
                 /\ Len(path) # 1 => call'[r].to = path[2]
                 /\ call'[r].message = message
<1>1. TypeOK /\ pc[r] = "idle"
  BY PatientFacts DEF FetchOf
<1>2. \A s \in Requests : s # r => UNCHANGED <<pc[s], call[s]>>
  BY <1>1, RequestEffect
<1>3. CASE UNCHANGED server
  BY <1>1, <1>2, <1>3 DEF server, vars, database, UpdateCalls, Allocating
<1>4. CASE Receive(r) /\ Dispatch(method, path) \in Handlers /\ ~UNCHANGED server
  <2>1. UNCHANGED <<database, reply>>
    BY <1>4 DEF Receive, Await
  <2>2. PICK c \in Calls : call' = [call EXCEPT ![r] = c] /\ Await(r, FirstCall(c.op))
    BY <1>4 DEF Receive
  <2>3. call'[r] = c /\ c \in Call /\ pc'[r] = FirstCall(c.op)
    BY <1>1, <2>2, CallsAssumption, AwaitFacts DEF TypeOK, RequestsOK
  <2>4. c.op \in Handlers
    BY <2>3 DEF Call
  <2>5. FirstCall(c.op) \in {"listUsers", "findRow", "findChat", "insertUser"}
    BY <2>4 DEF FirstCall, Handlers
  <2>6. call'[r] = [op |-> Dispatch(method, path), from |-> Head(path),
                    to |-> IF Len(path) = 1 THEN Head(path) ELSE path[2],
                    message |-> message]
    BY <1>3, <1>4 DEF Request
  <2>7. /\ call'[r].op = Dispatch(method, path) /\ call'[r].from = Head(path)
        /\ Len(path) # 1 => call'[r].to = path[2]
        /\ call'[r].message = message
    BY <2>6
  <2> QED
    BY <1>2, <1>4, <2>1, <2>3, <2>5, <2>7 DEF UpdateCalls, Allocating
<1> QED
  BY <1>3, <1>4 DEF Request

LEMMA AskedChats ==
    ASSUME PatientInv, NEW r \in Requests, Unused(r), NEW d \in Devices,
           Request(r, "GET", ChatsPath(d), NoBody)
    PROVE  ProperOf(r)'
<1>1. Dispatch("GET", ChatsPath(d)) # "sendNewMessage" \/
      Dispatch("GET", ChatsPath(d)) \notin Handlers
  <2>1. CASE username[d] = Empty
    BY <2>1, PathsDispatch DEF ChatsPath
  <2>2. CASE username[d] # Empty
    BY <2>2, PathsDispatch DEF ChatsPath
  <2> QED
    BY <2>1, <2>2
<1>2. /\ ~Allocating(r)'
      /\ pc'[r] # "idle" =>
            /\ Dispatch("GET", ChatsPath(d)) \in Handlers
            /\ call'[r].op = Dispatch("GET", ChatsPath(d))
  BY Asked
<1>3. pc'[r] # "idle" => call'[r].op # "sendNewMessage"
  BY <1>1, <1>2
<1> QED
  BY <1>2, <1>3 DEF ProperOf

\* The parts of the path of a fetch
LEMMA PathParts ==
    \A u, c, word : /\ Len(<<u, c, word>>) = 3
                    /\ Head(<<u, c, word>>) = u /\ <<u, c, word>>[2] = c
OBVIOUS

LEMMA AskedMessages ==
    ASSUME PatientInv, NEW r \in Requests, Unused(r), NEW d \in Devices, NEW contact,
           Request(r, "GET", MessagesPath(d, contact), NoBody)
    PROVE  /\ ProperOf(r)'
           /\ pc'[r] # "idle" => call'[r].from = username[d] /\ call'[r].to = contact
<1>1. MessagesPath(d, contact) = <<username[d], contact, "messages">>
  BY DEF MessagesPath
<1>2. Dispatch("GET", MessagesPath(d, contact)) # "sendNewMessage"
  BY <1>1, PathsDispatch
<1>3. Len(MessagesPath(d, contact)) # 1 /\ Head(MessagesPath(d, contact)) = username[d]
      /\ MessagesPath(d, contact)[2] = contact
  BY <1>1, PathParts
<1>4. /\ ~Allocating(r)'
      /\ pc'[r] # "idle" =>
            /\ call'[r].op = Dispatch("GET", MessagesPath(d, contact))
            /\ call'[r].from = username[d] /\ call'[r].to = contact
  BY <1>3, Asked
<1>5. pc'[r] # "idle" => call'[r].op # "sendNewMessage"
  BY <1>2, <1>4
<1> QED
  BY <1>4, <1>5 DEF ProperOf

LEMMA AskedSend ==
    ASSUME PatientInv, NamesAreTrimmed, NEW r \in Requests, Unused(r), NEW d \in Devices,
           NEW method, NEW contact, NEW message,
           Request(r, method, SendPath(d, contact), message),
           \/ method = "PUT"
           \/ method = "POST" /\ contact = Trimmed(chat[d].contact)
    PROVE  /\ ProperOf(r)'
           /\ pc'[r] # "idle" =>
                 /\ call'[r].from = username[d] /\ call'[r].to = contact
                 /\ call'[r].message = message
<1>1. SendPath(d, contact) = <<username[d], contact, "message">>
  BY DEF SendPath
<1>2. pc'[r] # "idle" =>
          /\ call'[r] \in Call
          /\ call'[r].op = Dispatch(method, SendPath(d, contact))
          /\ call'[r].from = username[d] /\ call'[r].to = contact
          /\ call'[r].message = message
  <2>1. Len(SendPath(d, contact)) # 1 /\ Head(SendPath(d, contact)) = username[d]
        /\ SendPath(d, contact)[2] = contact
    BY <1>1, PathParts
  <2> QED
    BY <2>1, Asked
<1>3. method = "PUT" => Dispatch(method, SendPath(d, contact)) # "sendNewMessage"
  BY <1>1, PathsDispatch
<1>4. ASSUME pc'[r] # "idle", method = "POST"
      PROVE  Proper(username[d]) /\ Proper(contact)
  <2>1. username[d] \in Names /\ contact \in Names
    BY <1>2, <1>4 DEF Call
  <2>2. Proper(username[d])
    BY <2>1, EmptyAssumption DEF PatientInv
  <2>3. chat[d].contact \in Typeable
    BY PatientFacts DEF ChatState
  <2>4. chat[d].contact \in Names /\ contact = Trim[chat[d].contact]
    BY <1>3, <1>4, <2>1, <2>3, EmptyAssumption DEF Trimmed, Typeable
  <2> QED
    BY <2>1, <2>2, <2>4 DEF NamesAreTrimmed, Proper
<1>5. ~Allocating(r)'
  BY Asked
<1>6. pc'[r] # "idle" /\ call'[r].op = "sendNewMessage" =>
          Proper(call'[r].from) /\ Proper(call'[r].to)
  BY <1>2, <1>3, <1>4
<1> QED
  BY <1>2, <1>5, <1>6 DEF ProperOf, Proper

\* The wait for a new request
LEMMA TaskStarts ==
    ASSUME PatientInv, UNCHANGED username, NEW r \in Requests, NEW d \in Devices,
           NEW kind, task'[r] = [kind |-> kind, device |-> d],
           pc'[r] \notin UpdateCalls \cup {"done"},
           ~chat'[d].editing,
           pc'[r] # "idle" =>
              /\ call'[r].from = username[d]
              /\ kind = "messages" => call'[r].to = chat'[d].contact
              /\ kind = "send" =>
                    call'[r].to = Partner(d)' /\ call'[r].message = chat'[d].newMessage
    PROVE  TaskInv(r)'
<1>1. task'[r].kind = kind /\ task'[r].device = d
  OBVIOUS
<1>2. WaitOf(r)'
  BY <1>1 DEF WaitOf
<1>3. AckedOf(r)' /\ GotOf(r)'
  BY DEF AckedOf, GotOf, Answered
<1> QED
  BY <1>2, <1>3 DEF TaskInv

----------------------------------------------------------------------------
(* Patient users                                                           *)

\* Typing, opening a new chat and leaving a screen
LEMMA QuietSteps ==
    ASSUME PatientInv, ChatsInv', AnswersInv', NEW d \in Devices,
           \/ OpenNewChat(d)
           \/ ~Waiting(d) /\ (TypeMessage(d) \/ FocusContact(d) \/ TypeContact(d))
    PROVE  PatientInv'
<1>1. /\ UNCHANGED <<username, database>> /\ ScreenOf(d) /\ DOMAIN chat = Devices
      /\ UNCHANGED <<pc, call, reply, task>> /\ chat[d] \in ChatState
      /\ \A e \in Devices : e # d => top'[e] = top[e]
  BY PatientFacts DEF OpenNewChat, TypeMessage, FocusContact, TypeContact, server, vars,
                      database, ChatsTypeOK
<1>2. ASSUME NEW s, chat' = [chat EXCEPT ![d] = s]
      PROVE  chat'[d] = s /\ \A e \in Devices : e # d => chat'[e] = chat[e]
  BY <1>1, <1>2
<1>3. (\A e \in Devices : e # d => chat'[e] = chat[e]) /\ ScreenOf(d)'
  <2>1. CASE OpenNewChat(d)
    <3>1. NewChat(Empty).messages = <<>>
      BY DEF NewChat
    <3> QED
      BY <1>2, <2>1, <3>1, ScreenEmpty DEF OpenNewChat
  <2>2. CASE TypeMessage(d)
    <3>1. PICK text \in Typed :
             chat' = [chat EXCEPT ![d].newMessage = text, ![d].editing = FALSE]
      BY <2>2 DEF TypeMessage
    <3> DEFINE new == [chat[d] EXCEPT !.newMessage = text, !.editing = FALSE]
    <3>2. /\ new.contact = chat[d].contact /\ new.messages = chat[d].messages
          /\ ~new.editing
      BY <1>1 DEF ChatState
    <3>3. chat' = [chat EXCEPT ![d] = new]
      BY <1>1, <3>1
    <3> HIDE DEF new
    <3>4. chat'[d] = new /\ \A e \in Devices : e # d => chat'[e] = chat[e]
      BY <1>2, <3>3
    <3>5. top'[d] = top[d]
      BY <2>2 DEF TypeMessage
    <3> QED
      BY <1>1, <3>2, <3>4, <3>5, ScreenSame
  <2>3. CASE FocusContact(d)
    <3> DEFINE new == [chat[d] EXCEPT !.messages = <<>>, !.editing = TRUE]
    <3>1. new.messages = <<>>
      BY <1>1 DEF ChatState
    <3>2. chat' = [chat EXCEPT ![d] = new]
      BY <1>1, <2>3 DEF FocusContact
    <3> HIDE DEF new
    <3> QED
      BY <1>2, <3>1, <3>2, ScreenEmpty
  <2>4. CASE TypeContact(d)
    <3>1. PICK text \in Contacts : chat' = [chat EXCEPT ![d].contact = text]
      BY <2>4 DEF TypeContact
    <3> DEFINE new == [chat[d] EXCEPT !.contact = text]
    <3>2. new.messages = chat[d].messages
      BY <1>1 DEF ChatState
    <3>3. chat' = [chat EXCEPT ![d] = new]
      BY <1>1, <3>1
    <3> HIDE DEF new
    <3>4. new.messages = <<>>
      BY <1>1, <2>4, <3>2 DEF TypeContact, ScreenOf
    <3> QED
      BY <1>2, <3>3, <3>4, ScreenEmpty
  <2> QED
    BY <2>1, <2>2, <2>3, <2>4
<1>4. OneTask'
  BY <1>1, OneTaskStays
<1>5. top[d] \notin ChatTops \/ ~Waiting(d)
  BY DEF OpenNewChat, ChatTops
<1>6. \A r \in Requests : task[r].kind \in ChatTasks => task[r].device # d
  BY <1>5, NotWaiting
<1> QED
  BY <1>1, <1>3, <1>4, <1>6, OneScreenSteps

LEMMA PatientLeaves ==
    ASSUME PatientInv, ChatsInv', AnswersInv', NEW d \in Devices, Back(d) \/ CloseApp(d)
    PROVE  PatientInv'
<1>1. /\ UNCHANGED <<username, database, pc, call, reply>>
      /\ DOMAIN chat = Devices /\ DOMAIN top = Devices
  BY PatientFacts DEF Back, CloseApp, server, vars, database, ChatsTypeOK
<1>2. /\ chat' = [chat EXCEPT ![d] = NewChat(Empty)]
      /\ \E t \in Tops : top' = [top EXCEPT ![d] = t]
  BY DEF Back, CloseApp, Tops
<1>3. /\ \A e \in Devices : e # d => UNCHANGED <<top[e], chat[e]>>
      /\ chat'[d] = NewChat(Empty)
  BY <1>1, <1>2
<1>4. ScreenOf(d)'
  <2>1. NewChat(Empty).messages = <<>>
    BY DEF NewChat
  <2> QED
    BY <1>3, <2>1, ScreenEmpty
<1>5. ASSUME NEW r \in Requests, task'[r].kind \in ChatTasks
      PROVE  task'[r] = task[r] /\ task[r].device # d
  <2>1. task[r] \in [kind : TaskKinds, device : Devices \cup {Undefined}]
    BY PatientFacts DEF ChatsTypeOK
  <2>2. [task[r] EXCEPT !.kind = "ended"].kind = "ended"
    BY <2>1
  <2>3. CASE Back(d)
    <3>1. task'[r] = IF Waits(r, d) THEN [task[r] EXCEPT !.kind = "ended"] ELSE task[r]
      BY <2>3 DEF Back
    <3> QED
      BY <1>5, <2>2, <3>1 DEF Waits, ChatTasks
  <2>4. CASE CloseApp(d)
    <3>1. task'[r] = IF task[r].device = d THEN [task[r] EXCEPT !.kind = "ended"]
                                           ELSE task[r]
      BY <2>4 DEF CloseApp
    <3> QED
      BY <1>5, <2>2, <3>1 DEF ChatTasks
  <2> QED
    BY <2>3, <2>4
<1>6. OneTask'
  BY <1>5, OneTaskStays
<1> QED
  BY <1>1, <1>3, <1>4, <1>5, <1>6, OneScreenSteps

\* The start of one request on a screen that does not wait
LEMMA AskingSteps ==
    ASSUME PatientInv, ChatsInv', AnswersInv', UNCHANGED <<username, database>>,
           NEW d \in Devices,
           \A e \in Devices : e # d => UNCHANGED <<top[e], chat[e]>>, ScreenOf(d)',
           top[d] \notin ChatTops \/ ~Waiting(d),
           NEW r \in Requests, Unused(r), NEW kind, task' = Begins(r, d, kind),
           UNCHANGED reply,
           \A s \in Requests : s # r => UNCHANGED <<pc[s], call[s]>>,
           ProperOf(r)', kind \notin ChatTasks \/ TaskInv(r)'
    PROVE  PatientInv'
<1>1. DOMAIN task = Requests
  BY PatientFacts DEF ChatsTypeOK
<1>2. task'[r] = [kind |-> kind, device |-> d] /\
      \A s \in Requests : s # r => task'[s] = task[s]
  BY <1>1 DEF Begins
<1>3. task'[r].kind = kind /\ task'[r].device = d
  BY <1>2
<1>4. \A s \in Requests : task[s].kind \in ChatTasks => task[s].device # d
  BY NotWaiting
<1>5. OneTask'
  BY <1>2, <1>3, <1>4, OneTaskStarts
<1>6. ASSUME NEW s \in Requests
      PROVE  \/ task'[s].kind \notin ChatTasks \/ TaskInv(s)'
             \/ task[s].device # d /\ UNCHANGED <<pc[s], call[s], reply[s], task[s]>>
  <2>1. CASE s = r
    BY <1>3, <2>1
  <2>2. CASE s # r
    BY <1>2, <1>4, <2>2
  <2> QED
    BY <2>1, <2>2
<1>7. \A s \in Requests : UNCHANGED <<pc[s], call[s]>> \/ ProperOf(s)'
  OBVIOUS
<1> QED
  BY <1>5, <1>6, <1>7, OneScreenSteps

LEMMA PatientLoads ==
    ASSUME PatientInv, ChatsInv', AnswersInv', NEW d \in Devices,
           \/ OpenApp(d) \/ RefreshList(d) \/ OpenChat(d)
           \/ ~Waiting(d) /\ ~chat[d].editing /\ handleRefresh(d)
    PROVE  PatientInv'
<1>1. /\ UNCHANGED username /\ ScreenOf(d) /\ DOMAIN chat = Devices /\ DOMAIN top = Devices
      /\ chat[d] \in ChatState
  BY PatientFacts DEF OpenApp, RefreshList, OpenChat, handleRefresh, ChatsTypeOK
<1>2. top[d] \notin ChatTops \/ ~Waiting(d)
  BY DEF OpenApp, RefreshList, OpenChat, ChatTops
<1>3. CASE OpenApp(d) \/ RefreshList(d)
  <2>1. /\ UNCHANGED chat /\ \A e \in Devices : e # d => top'[e] = top[e]
        /\ top'[d] \notin ChatTops
    BY <1>1, <1>3 DEF OpenApp, RefreshList, ChatTops
  <2>2. ScreenOf(d)'
    BY <1>1, <2>1 DEF ScreenOf
  <2>3. PICK r \in Requests : /\ Unused(r) /\ Request(r, "GET", ChatsPath(d), NoBody)
                              /\ task' = Begins(r, d, "chats")
    BY <1>3 DEF OpenApp, RefreshList, RequestChats
  <2>4. /\ UNCHANGED <<database, reply>>
        /\ \A s \in Requests : s # r => UNCHANGED <<pc[s], call[s]>>
    BY <2>3, Asked
  <2>5. ProperOf(r)'
    BY <2>3, AskedChats
  <2> QED
    BY <1>1, <1>2, <2>1, <2>2, <2>3, <2>4, <2>5, AskingSteps DEF ChatTasks
<1>4. CASE OpenChat(d) \/ (~Waiting(d) /\ ~chat[d].editing /\ handleRefresh(d))
  <2>1. /\ \A e \in Devices : e # d => UNCHANGED <<top[e], chat[e]>>
        /\ ~chat'[d].editing
        /\ RequestMessages(d, chat'[d].contact)
        /\ \/ chat'[d].messages = <<>>
           \/ /\ top'[d] = top[d] /\ chat'[d].contact = chat[d].contact
              /\ chat'[d].messages = chat[d].messages
    <3>1. CASE OpenChat(d)
      <4>1. PICK item \in ToSet(list[d].chats) :
               /\ chat' = [chat EXCEPT ![d] = NewChat(item.toUsername)]
               /\ RequestMessages(d, item.toUsername)
        BY <3>1 DEF OpenChat
      <4>2. top' = [top EXCEPT ![d] = "Message"]
        BY <3>1 DEF OpenChat
      <4>3. /\ chat'[d] = NewChat(item.toUsername)
            /\ \A e \in Devices : e # d => UNCHANGED <<top[e], chat[e]>>
        BY <1>1, <4>1, <4>2
      <4>4. /\ chat'[d].contact = item.toUsername /\ chat'[d].messages = <<>>
            /\ ~chat'[d].editing
        BY <4>3 DEF NewChat
      <4> QED
        BY <4>1, <4>3, <4>4
    <3>2. CASE ~chat[d].editing /\ handleRefresh(d)
      <4> DEFINE new == [chat[d] EXCEPT !.refreshing = TRUE]
      <4>1. /\ new.messages = chat[d].messages /\ new.contact = chat[d].contact
            /\ ~new.editing
        BY <1>1, <3>2 DEF ChatState
      <4>2. chat' = [chat EXCEPT ![d] = new] /\ UNCHANGED top
        BY <1>1, <3>2 DEF handleRefresh
      <4> HIDE DEF new
      <4>3. chat'[d] = new /\ \A e \in Devices : e # d => UNCHANGED <<top[e], chat[e]>>
        BY <1>1, <4>2
      <4>4. RequestMessages(d, chat[d].contact)
        BY <3>2 DEF handleRefresh
      <4> QED
        BY <4>1, <4>2, <4>3, <4>4
    <3> QED
      BY <1>4, <3>1, <3>2
  <2>2. PICK contact : contact = chat'[d].contact
    OBVIOUS
  <2>3. PICK r \in Requests :
           /\ Unused(r) /\ Request(r, "GET", MessagesPath(d, contact), NoBody)
           /\ task' = Begins(r, d, "messages")
    BY <2>1, <2>2 DEF RequestMessages
  <2>4. /\ UNCHANGED <<database, reply>>
        /\ \A s \in Requests : s # r => UNCHANGED <<pc[s], call[s]>>
        /\ pc'[r] \notin UpdateCalls \cup {"done"}
    BY <2>3, Asked
  <2>5. /\ ProperOf(r)'
        /\ pc'[r] # "idle" => call'[r].from = username[d] /\ call'[r].to = contact
    BY <2>3, AskedMessages
  <2>6. task'[r] = [kind |-> "messages", device |-> d]
    BY <2>3, PatientFacts DEF Begins, ChatsTypeOK
  <2>7. TaskInv(r)'
    BY <1>1, <2>1, <2>2, <2>4, <2>5, <2>6, TaskStarts
  <2>8. ScreenOf(d)'
    BY <1>1, <2>1, <2>4, ScreenEmpty, ScreenSame
  <2> QED
    BY <1>1, <1>2, <2>1, <2>3, <2>4, <2>5, <2>7, <2>8, AskingSteps
<1> QED
  BY <1>3, <1>4

LEMMA PatientSends ==
    ASSUME PatientInv, NamesAreTrimmed, ChatsInv', AnswersInv', NEW d \in Devices,
           ~Waiting(d), ~chat[d].editing, handleSendMessage(d)
    PROVE  PatientInv'
<1>1. UNCHANGED <<username, top, list, chat, lost>> /\ ScreenOf(d)
  BY PatientFacts DEF handleSendMessage
<1>2. PICK r \in Requests :
         /\ Unused(r) /\ task' = Begins(r, d, "send")
         /\ \/ /\ top[d] = "Message"
               /\ Request(r, "PUT", SendPath(d, chat[d].contact), chat[d].newMessage)
            \/ /\ top[d] = "MessageNew"
               /\ Request(r, "POST", SendPath(d, Trimmed(chat[d].contact)),
                          chat[d].newMessage)
  BY DEF handleSendMessage
<1>3. PICK method \in {"PUT", "POST"} :
         /\ Request(r, method, SendPath(d, Partner(d)), chat[d].newMessage)
         /\ method = "POST" => Partner(d) = Trimmed(chat[d].contact)
  BY <1>2 DEF Partner
<1>4. /\ UNCHANGED <<database, reply>>
      /\ \A s \in Requests : s # r => UNCHANGED <<pc[s], call[s]>>
      /\ pc'[r] \notin UpdateCalls \cup {"done"}
  BY <1>2, <1>3, Asked
<1>5. /\ ProperOf(r)'
      /\ pc'[r] # "idle" =>
            /\ call'[r].from = username[d] /\ call'[r].to = Partner(d)
            /\ call'[r].message = chat[d].newMessage
  BY <1>2, <1>3, AskedSend
<1>6. task'[r] = [kind |-> "send", device |-> d]
  BY <1>2, PatientFacts DEF Begins, ChatsTypeOK
<1>7. Partner(d)' = Partner(d)
  BY <1>1 DEF Partner, Trimmed
<1>8. TaskInv(r)'
  BY <1>1, <1>4, <1>5, <1>6, <1>7, TaskStarts
<1>9. ScreenOf(d)'
  BY <1>1, <1>4, ScreenSame
<1> QED
  BY <1>1, <1>2, <1>4, <1>5, <1>8, <1>9, AskingSteps

----------------------------------------------------------------------------
(* Answers                                                                 *)

LEMMA TaskEnds ==
    ASSUME PatientInv, NEW r \in Requests, EndTask(r)
    PROVE  /\ task'[r].kind = "ended" /\ "ended" \notin ChatTasks
           /\ \A s \in Requests : s # r => task'[s] = task[s]
           /\ OneTask'
<1>1. /\ task \in [Requests -> [kind : TaskKinds, device : Devices \cup {Undefined}]]
      /\ task[r] \in [kind : TaskKinds, device : Devices \cup {Undefined}]
  BY PatientFacts DEF ChatsTypeOK
<1>2. task' = [task EXCEPT ![r].kind = "ended"]
  BY DEF EndTask
<1>3. task'[r].kind = "ended" /\ \A s \in Requests : s # r => task'[s] = task[s]
  BY <1>1, <1>2
<1>4. "ended" \notin ChatTasks
  BY DEF ChatTasks
<1>5. OneTask'
  BY <1>3, <1>4, OneTaskStays
<1> QED
  BY <1>3, <1>4, <1>5

\* An answer that leaves what the screen says and shows
LEMMA AnswersWithoutNews ==
    ASSUME PatientInv, ChatsInv', AnswersInv', NEW r \in Requests,
           ChatsArrive(r) \/ SendFails(r) \/ FetchFails(r)
    PROVE  PatientInv'
<1>1. /\ UNCHANGED <<username, top, database, pc, call, reply>> /\ EndTask(r)
      /\ task[r].kind \in ChatTasks \cup {"chats"}
      /\ \/ UNCHANGED chat
         \/ /\ task[r].kind = "messages"
            /\ chat' = [chat EXCEPT ![task[r].device].refreshing = FALSE]
  BY DEF ChatsArrive, SendFails, FetchFails, StopsRefreshing, server, vars, database,
         ChatTasks
<1>2. PICK d \in Devices : d = task[r].device
  BY <1>1, PatientFacts DEF FetchOf, Unused, ChatTasks
<1>3. /\ DOMAIN chat = Devices /\ chat[d] \in ChatState /\ ScreenOf(d)
      /\ \A s \in Requests : TaskInv(s)
      /\ \A s \in Requests : task[s].kind \in ChatTasks => task[s].device \in Devices
  BY PatientFacts DEF ChatsTypeOK
<1>4. /\ task'[r].kind \notin ChatTasks /\ OneTask'
      /\ \A s \in Requests : s # r => task'[s] = task[s]
  BY <1>1, TaskEnds
<1>5. \A e \in Devices : e # d => UNCHANGED <<top[e], chat[e]>>
  BY <1>1, <1>2, <1>3
<1>6. /\ chat'[d].contact = chat[d].contact /\ chat'[d].messages = chat[d].messages
      /\ chat'[d].editing = chat[d].editing
  <2>1. CASE UNCHANGED chat
    BY <2>1
  <2>2. CASE chat' = [chat EXCEPT ![d].refreshing = FALSE]
    BY <1>3, <2>2 DEF ChatState
  <2> QED
    BY <1>1, <1>2, <2>1, <2>2
<1>7. ScreenOf(d)'
  BY <1>1, <1>3, <1>6, ScreenSame
<1>8. ASSUME NEW s \in Requests, s # r, task[s].kind \in ChatTasks, task[s].device = d
      PROVE  TaskInv(s)'
  <2>1. task[r].kind \notin ChatTasks
    BY <1>2, <1>8 DEF PatientInv, OneTask
  <2>2. UNCHANGED chat
    BY <1>1, <2>1 DEF ChatTasks
  <2> QED
    BY <1>1, <1>3, <1>4, <1>8, <2>2, TaskSame
<1>9. ASSUME NEW s \in Requests
      PROVE  \/ task'[s].kind \notin ChatTasks \/ TaskInv(s)'
             \/ task[s].device # d /\ UNCHANGED <<pc[s], call[s], reply[s], task[s]>>
  <2>1. CASE s = r
    BY <1>4, <2>1
  <2>2. CASE s # r
    BY <1>1, <1>4, <1>8, <2>2
  <2> QED
    BY <2>1, <2>2
<1> QED
  BY <1>1, <1>4, <1>5, <1>7, <1>9, OneScreenSteps

\* What was read with a contact is in the conversation of its screen.
LEMMA ReadIsTalked ==
    ASSUME PatientInv, NEW r \in Requests, NEW d \in Devices, top[d] \in ChatTops,
           call[r].op = "getUserChatMessages", reply[r].status = "SUCCESS",
           call[r].from = username[d], call[r].to = chat[d].contact
    PROVE  /\ reply[r].body \in Seq(ShownEntry)
           /\ Embedded(Boxes(reply[r].body), Boxes(Talked(d)))
<1>1. TypeOK /\ ReadOf(r)
  BY PatientFacts DEF RequestInv
<1>2. PICK body \in Seq(Entry), own \in Seq(Entry) :
         body = reply[r].body /\ own = Own(r) /\ IsPrefix(body, own)
  <2>1. Own(r) \in Seq(Entry)
    BY <1>1, TalkType DEF Own, TypeOK, DatabaseOK
  <2> QED
    BY <1>1, <2>1 DEF ReadOf
<1>3. Entry \subseteq ShownEntry
  BY DEF Entry, ShownEntry, Typeable, Texts
<1>4. body \in Seq(ShownEntry) /\ own \in Seq(ShownEntry)
  BY <1>2, <1>3
<1>5. CASE \E i \in 1..Len(chat_ids) : SamePair(chat_ids[i], username[d], chat[d].contact)
  <2>1. own = Talked(d)
    BY <1>2, <1>5, ProperTalk, TalkedIs DEF Own
  <2>2. IsPrefix(Boxes(body), Boxes(own))
    BY <1>2, <1>4, BoxesPrefix
  <2>3. Boxes(body) \in Seq(Box) /\ Boxes(own) \in Seq(Box)
    BY <1>4, BoxesType
  <2>4. Embedded(Boxes(body), Boxes(own))
    BY <2>2, <2>3, PrefixEmbedded
  <2> QED
    BY <1>2, <1>4, <2>1, <2>4
<1>6. CASE \A i \in 1..Len(chat_ids) : ~SamePair(chat_ids[i], username[d], chat[d].contact)
  <2>1. Len(chat_ids) \in Nat
    BY <1>1, LenProperties DEF TypeOK, DatabaseOK
  <2>2. own = <<>>
    BY <1>2, <1>6, <2>1, NoTalk DEF Own
  <2>3. Len(body) <= Len(own) /\ Len(own) = 0
    BY <1>2, <2>2, PrefixElements
  <2>4. body = <<>>
    BY <2>3, EmptySeq, LenProperties
  <2>5. Embedded(Boxes(body), Boxes(Talked(d)))
    BY <2>4, NoBoxes, NothingEmbedded
  <2> QED
    BY <1>2, <1>4, <2>5
<1> QED
  BY <1>5, <1>6

LEMMA MessagesNews ==
    ASSUME PatientInv, ChatsInv', AnswersInv', NEW r \in Requests, MessagesArrive(r)
    PROVE  PatientInv'
<1>1. /\ UNCHANGED <<username, top, database, pc, call, reply>> /\ EndTask(r)
      /\ task[r].kind = "messages" /\ pc[r] = "done"
      /\ task[r].kind \in ChatTasks
  BY DEF MessagesArrive, server, vars, database, ChatTasks
<1>2. PICK d \in Devices : d = task[r].device
  BY <1>1, PatientFacts
<1>3. /\ DOMAIN chat = Devices /\ chat[d] \in ChatState /\ ScreenOf(d)
      /\ top[d] \in ChatTops /\ TaskInv(r) /\ FetchOf(r) /\ AnswerOf(r)
  BY <1>1, <1>2, PatientFacts DEF ChatsTypeOK
<1>4. /\ task'[r].kind \notin ChatTasks /\ OneTask'
      /\ \A s \in Requests : s # r => task'[s] = task[s]
  BY <1>1, TaskEnds
<1>5. PICK m : m = IF reply[r].status = "SUCCESS" THEN reply[r].body ELSE Undefined
  OBVIOUS
<1> DEFINE new == [chat[d] EXCEPT !.messages = m, !.refreshing = FALSE]
<1>6. /\ new.contact = chat[d].contact /\ new.messages = m
      /\ new.editing = chat[d].editing
  BY <1>3 DEF ChatState
<1>7. chat' = [chat EXCEPT ![d] = new]
  BY <1>2, <1>3, <1>5 DEF MessagesArrive
<1> HIDE DEF new
<1>8. chat'[d] = new /\ \A e \in Devices : e # d => UNCHANGED <<top[e], chat[e]>>
  BY <1>1, <1>3, <1>7
<1>9. ~chat[d].editing /\ call[r].from = username[d] /\ call[r].to = chat[d].contact
      /\ call[r].op = "getUserChatMessages"
  BY <1>1, <1>2, <1>3 DEF TaskInv, WaitOf, FetchOf
<1>10. m # Undefined => Embedded(Boxes(m), Boxes(Talked(d)))
  BY <1>3, <1>5, <1>9, ReadIsTalked
<1>11. Boxes(Talked(d))' = Boxes(Talked(d)) /\ Boxes(chat[d].messages)' = Boxes(m)
  <2>1. Talked(d)' = Talked(d)
    BY <1>1, <1>6, <1>8, SameTalked
  <2> QED
    BY <1>6, <1>8, <2>1 DEF Boxes
<1>12. ScreenOf(d)'
  BY <1>6, <1>8, <1>9, <1>10, <1>11 DEF ScreenOf
<1>13. ASSUME NEW s \in Requests
       PROVE  \/ task'[s].kind \notin ChatTasks \/ TaskInv(s)'
              \/ task[s].device # d /\ UNCHANGED <<pc[s], call[s], reply[s], task[s]>>
  <2>1. CASE s = r
    BY <1>4, <2>1
  <2>2. CASE s # r
    BY <1>1, <1>2, <1>4, <2>2 DEF PatientInv, OneTask
  <2> QED
    BY <2>1, <2>2
<1> QED
  BY <1>1, <1>4, <1>8, <1>12, <1>13, OneScreenSteps

\* The boxes of a screen that has appended the user's own message
LEMMA OwnBoxAppended ==
    ASSUME PatientInv, NEW d \in Devices, chat[d].messages # Undefined
    PROVE  /\ OwnMessage(d) \in ShownEntry
           /\ chat[d].messages \in Seq(ShownEntry)
           /\ Boxes(Append(chat[d].messages, OwnMessage(d))) =
                 Append(Boxes(chat[d].messages), OwnBox(d))
<1>1. /\ chat[d].messages \in Seq(ShownEntry) /\ chat[d] \in ChatState
      /\ username[d] \in Typeable /\ now \in Nat
  BY PatientFacts DEF TypeOK
<1>2. /\ OwnMessage(d) \in ShownEntry
      /\ OwnMessage(d).sentBy = username[d] /\ OwnMessage(d).message = chat[d].newMessage
  BY <1>1 DEF OwnMessage, ShownEntry, ChatState
<1> QED
  BY <1>1, <1>2, BoxesAppend DEF OwnBox

\* A send that is acknowledged shows its message where it is stored: at the end.
LEMMA SendNews ==
    ASSUME PatientInv, ChatsInv', AnswersInv', NEW r \in Requests, SendSucceeds(r)
    PROVE  PatientInv'
<1>1. /\ UNCHANGED <<username, top>> /\ task[r].kind = "send"
      /\ pc[r] = "done" /\ reply[r].status = "SUCCESS" /\ task[r].kind \in ChatTasks
  BY DEF SendSucceeds, ChatTasks
<1>2. PICK d \in Devices : d = task[r].device
  BY <1>1, PatientFacts
<1>3. /\ DOMAIN chat = Devices /\ chat[d] \in ChatState /\ ScreenOf(d)
      /\ top[d] \in ChatTops /\ TaskInv(r)
      /\ chat[d].messages # Undefined
  BY <1>1, <1>2, PatientFacts DEF ChatsTypeOK, SendSucceeds
<1> DEFINE new == [chat[d] EXCEPT !.messages = Append(chat[d].messages, OwnMessage(d)),
                                  !.newMessage = Empty]
<1>4. /\ new.contact = chat[d].contact /\ new.editing = chat[d].editing
      /\ new.messages = Append(chat[d].messages, OwnMessage(d))
  BY <1>3 DEF ChatState
<1>5. chat' = [chat EXCEPT ![d] = new]
  BY <1>2, <1>3 DEF SendSucceeds
<1> HIDE DEF new
<1>6. chat'[d] = new /\ \A e \in Devices : e # d => UNCHANGED <<top[e], chat[e]>>
  BY <1>1, <1>3, <1>5
<1>7. ~chat[d].editing
  BY <1>1, <1>2, <1>3 DEF TaskInv, WaitOf
<1>8. Embedded(Append(Boxes(chat[d].messages), OwnBox(d)), Boxes(Talked(d)))
  BY <1>1, <1>2, <1>3 DEF TaskInv, AckedOf, Answered
<1>9. ASSUME UNCHANGED database
      PROVE  ScreenOf(d)'
  <2>1. Talked(d)' = Talked(d)
    BY <1>1, <1>4, <1>6, <1>9, SameTalked
  <2>2. Boxes(Talked(d))' = Boxes(Talked(d))
    BY <2>1 DEF Boxes
  <2>3. Boxes(chat[d].messages)' = Append(Boxes(chat[d].messages), OwnBox(d))
    <3>1. Boxes(chat[d].messages)' = Boxes(chat'[d].messages)
      BY DEF Boxes
    <3> QED
      BY <1>3, <1>4, <1>6, <3>1, OwnBoxAppended
  <2> QED
    BY <1>4, <1>6, <1>7, <1>8, <2>2, <2>3 DEF ScreenOf
<1>10. \A s \in Requests : s # r /\ task[s].kind \in ChatTasks => task[s].device # d
  BY <1>1, <1>2 DEF PatientInv, OneTask
<1>11. CASE EndTask(r) /\ UNCHANGED server
  <2>1. UNCHANGED <<database, pc, call, reply>>
    BY <1>11 DEF server, vars, database
  <2>2. /\ task'[r].kind \notin ChatTasks /\ OneTask'
        /\ \A s \in Requests : s # r => task'[s] = task[s]
    BY <1>11, TaskEnds
  <2>3. ASSUME NEW s \in Requests
        PROVE  \/ task'[s].kind \notin ChatTasks \/ TaskInv(s)'
               \/ task[s].device # d /\ UNCHANGED <<pc[s], call[s], reply[s], task[s]>>
    BY <1>10, <2>1, <2>2
  <2> QED
    BY <1>1, <1>6, <1>9, <2>1, <2>2, <2>3, OneScreenSteps
<1>12. ASSUME NEW q \in Requests, Unused(q),
              Request(q, "GET", MessagesPath(d, chat[d].contact), NoBody),
              task' = [Begins(q, d, "messages") EXCEPT ![r].kind = "ended"]
       PROVE  PatientInv'
  <2>1. /\ UNCHANGED <<database, reply>>
        /\ \A s \in Requests : s # q => UNCHANGED <<pc[s], call[s]>>
        /\ pc'[q] \notin UpdateCalls \cup {"done"}
    BY <1>12, Asked
  <2>2. /\ ProperOf(q)'
        /\ pc'[q] # "idle" => call'[q].from = username[d] /\ call'[q].to = chat[d].contact
    BY <1>12, AskedMessages
  <2>3. q # r
    BY <1>1, <1>12 DEF Unused
  <2>4. /\ task \in [Requests -> [kind : TaskKinds, device : Devices \cup {Undefined}]]
        /\ task[r] \in [kind : TaskKinds, device : Devices \cup {Undefined}]
    BY PatientFacts DEF ChatsTypeOK
  <2>5. /\ task'[q] = [kind |-> "messages", device |-> d]
        /\ task'[r].kind = "ended"
        /\ \A s \in Requests : s # q /\ s # r => task'[s] = task[s]
    BY <1>12, <2>3, <2>4 DEF Begins
  <2>6. task'[q].device = d /\ "ended" \notin ChatTasks
    BY <2>5 DEF ChatTasks
  <2>7. TaskInv(q)'
    BY <1>1, <1>4, <1>6, <1>7, <2>1, <2>2, <2>5, TaskStarts
  <2>8. OneTask'
    BY <1>10, <2>5, <2>6, OneTaskStarts
  <2>9. ASSUME NEW s \in Requests
        PROVE  \/ task'[s].kind \notin ChatTasks \/ TaskInv(s)'
               \/ task[s].device # d /\ UNCHANGED <<pc[s], call[s], reply[s], task[s]>>
    <3>1. CASE s = q
      BY <2>7, <3>1
    <3>2. CASE s = r
      BY <2>5, <2>6, <3>2
    <3>3. CASE s # q /\ s # r
      BY <1>10, <2>1, <2>5, <3>3
    <3> QED
      BY <3>1, <3>2, <3>3
  <2>10. \A s \in Requests : UNCHANGED <<pc[s], call[s]>> \/ ProperOf(s)'
    BY <2>1, <2>2
  <2> QED
    BY <1>1, <1>6, <1>9, <2>1, <2>8, <2>9, <2>10, OneScreenSteps
<1> QED
  BY <1>2, <1>11, <1>12 DEF SendSucceeds

----------------------------------------------------------------------------
(* The theorems                                                            *)

LEMMA PatientInitially ==
    ASSUME NamesAreTrimmed, ChatsInit, ChatsInv, AnswersInv
    PROVE  PatientInv
<1>1. /\ pc = [r \in Requests |-> "idle"] /\ chat_ids = <<>>
      /\ username \in Logins
      /\ chat = [d \in Devices |-> NewChat(Empty)]
      /\ task = [r \in Requests |-> NoTask]
  BY DEF ChatsInit, Init, Idle
<1>2. \A d \in Devices : username[d] # Empty => Proper(username[d])
  BY <1>1, LoginsAssumption DEF NamesAreTrimmed, Proper, Typeable
<1>3. RowsProper
  BY <1>1 DEF RowsProper
<1>4. \A r \in Requests : task[r].kind = "unused" /\ "unused" \notin ChatTasks
  BY <1>1 DEF NoTask, ChatTasks
<1>5. OneTask /\ \A r \in Requests : TaskInv(r)
  BY <1>4 DEF OneTask, TaskInv, WaitOf, AckedOf, GotOf, ChatTasks
<1>6. \A r \in Requests : ProperOf(r)
  BY <1>1 DEF ProperOf, Allocating
<1>7. ASSUME NEW d \in Devices
      PROVE  ScreenOf(d)
  <2>1. chat[d].messages = <<>>
    BY <1>1 DEF NewChat
  <2>2. Embedded(Boxes(chat[d].messages), Boxes(Talked(d)))
    BY <2>1, NoBoxes, NothingEmbedded
  <2> QED
    BY <2>1, <2>2 DEF ScreenOf
<1> QED
  BY <1>2, <1>3, <1>5, <1>6, <1>7 DEF PatientInv

LEMMA PatientInvStep ==
    NamesAreTrimmed /\ PatientInv /\ ChatsInv' /\ AnswersInv'
        /\ [PatientNext /\ FirstContactsSerial']_chatVars => PatientInv'
<1> SUFFICES ASSUME NamesAreTrimmed, PatientInv, ChatsInv', AnswersInv',
                    PatientNext \/ UNCHANGED chatVars
             PROVE  PatientInv'
  OBVIOUS
<1>1. ASSUME NEW d \in Devices, PatientStep(d)
      PROVE  PatientInv'
  <2>1. CASE \/ OpenNewChat(d)
             \/ ~Waiting(d) /\ (TypeMessage(d) \/ FocusContact(d) \/ TypeContact(d))
    BY <2>1, QuietSteps
  <2>2. CASE Back(d) \/ CloseApp(d)
    BY <2>2, PatientLeaves
  <2>3. CASE \/ OpenApp(d) \/ RefreshList(d) \/ OpenChat(d)
             \/ ~Waiting(d) /\ ~chat[d].editing /\ handleRefresh(d)
    BY <2>3, PatientLoads
  <2>4. CASE ~Waiting(d) /\ ~chat[d].editing /\ handleSendMessage(d)
    BY <2>4, PatientSends
  <2> QED
    BY <1>1, <2>1, <2>2, <2>3, <2>4, Zenon DEF PatientStep
<1>2. ASSUME NEW r \in Requests, Answer(r)
      PROVE  PatientInv'
  <2>1. CASE ChatsArrive(r) \/ SendFails(r) \/ FetchFails(r)
    BY <2>1, AnswersWithoutNews
  <2>2. CASE MessagesArrive(r)
    BY <2>2, MessagesNews
  <2>3. CASE SendSucceeds(r)
    BY <2>3, SendNews
  <2> QED
    BY <1>2, <2>1, <2>2, <2>3 DEF Answer
<1>3. ServerStep \/ UNCHANGED chatVars => PatientInv'
  BY PatientServerStep
<1> QED
  BY <1>1, <1>2, <1>3, Zenon DEF PatientNext

LEMMA PatientInvariant == NamesAreTrimmed /\ PatientSpec => []PatientInv
<1>1. NamesAreTrimmed => NamesAreTrimmed'
  BY DEF NamesAreTrimmed
<1> QED
  BY <1>1, PatientInitially, PatientInvStep, PatientIsSerial, ChatsInvariant,
     AnswersInvariant, PTL DEF PatientSpec

\* What a chat screen of a patient user shows was stored, in its order, in the
\* conversation with the contact (Message.js, MessageNew.js, server.js).
THEOREM PatientUsersSeeStored == NamesAreTrimmed /\ PatientSpec => []ShownIsStored
<1>1. PatientInv => ShownIsStored
  BY DEF PatientInv, ScreenOf, ShownIsStored
<1> QED
  BY <1>1, PatientInvariant, PTL

\* How the messages of a screen change
LEMMA ShownChanges ==
    ASSUME PatientInv, PatientNext \/ UNCHANGED chatVars, NEW d \in Devices,
           top[d] \in ChatTops, top'[d] = top[d], chat'[d].editing = chat[d].editing
    PROVE  \/ chat'[d].messages = chat[d].messages
           \/ \E r \in Requests :
                 task[r].device = d /\ (MessagesArrive(r) \/ SendSucceeds(r))
<1>1. /\ DOMAIN chat = Devices /\ DOMAIN top = Devices /\ chat[d] \in ChatState
      /\ \A e \in Devices : chat[e] \in ChatState
  BY PatientFacts DEF ChatsTypeOK
<1>2. ASSUME NEW e \in Devices, PatientStep(e)
      PROVE  chat'[d].messages = chat[d].messages
  <2>1. CASE e # d
    <3>1. CASE \/ OpenApp(e) \/ RefreshList(e) \/ OpenNewChat(e) \/ Back(e) \/ CloseApp(e)
               \/ handleSendMessage(e)
      BY <1>1, <2>1, <3>1 DEF OpenApp, RefreshList, OpenNewChat, Back, CloseApp,
                              handleSendMessage
    <3>2. CASE OpenChat(e) \/ handleRefresh(e)
      <4>1. \E s : chat' = [chat EXCEPT ![e] = s]
        <5>1. CASE OpenChat(e)
          BY <5>1 DEF OpenChat
        <5>2. CASE handleRefresh(e)
          <6>1. chat' = [chat EXCEPT ![e] = [chat[e] EXCEPT !.refreshing = TRUE]]
            BY <1>1, <5>2 DEF handleRefresh
          <6> QED
            BY <6>1
        <5> QED
          BY <3>2, <5>1, <5>2
      <4> QED
        BY <1>1, <2>1, <4>1
    <3>3. CASE TypeMessage(e) \/ FocusContact(e) \/ TypeContact(e)
      BY <1>1, <2>1, <3>3 DEF TypeMessage, FocusContact, TypeContact
    <3> QED
      BY <1>2, <3>1, <3>2, <3>3 DEF PatientStep
  <2>2. CASE e = d
    <3>1. ~OpenChat(d) /\ ~OpenNewChat(d) /\ ~OpenApp(d) /\ ~RefreshList(d)
      BY DEF OpenChat, OpenNewChat, OpenApp, RefreshList, ChatTops
    <3>2. ~Back(d) /\ ~CloseApp(d)
      BY <1>1 DEF Back, CloseApp, ChatTops
    <3>3. ~FocusContact(d)
      BY <1>1 DEF FocusContact, ChatState
    <3>4. CASE TypeMessage(d) \/ TypeContact(d)
      BY <1>1, <3>4 DEF TypeMessage, TypeContact, ChatState
    <3>5. CASE handleRefresh(d) \/ handleSendMessage(d)
      BY <1>1, <3>5 DEF handleRefresh, handleSendMessage, ChatState
    <3> QED
      BY <1>2, <2>2, <3>1, <3>2, <3>3, <3>4, <3>5 DEF PatientStep
  <2> QED
    BY <2>1, <2>2
<1>3. ASSUME NEW r \in Requests, Answer(r)
      PROVE  \/ chat'[d].messages = chat[d].messages
             \/ task[r].device = d /\ (MessagesArrive(r) \/ SendSucceeds(r))
  <2>1. CASE ChatsArrive(r) \/ SendFails(r)
    BY <2>1 DEF ChatsArrive, SendFails
  <2>2. CASE FetchFails(r)
    BY <1>1, <2>2 DEF FetchFails, StopsRefreshing, ChatState
  <2>3. CASE task[r].device # d /\ MessagesArrive(r)
    BY <1>1, <2>3 DEF MessagesArrive
  <2>4. CASE task[r].device # d /\ SendSucceeds(r)
    BY <1>1, <2>4 DEF SendSucceeds
  <2> QED
    BY <1>3, <2>1, <2>2, <2>3, <2>4 DEF Answer
<1>4. ServerStep \/ UNCHANGED chatVars => chat' = chat
  BY DEF ServerStep, chatVars
<1> QED
  BY <1>2, <1>3, <1>4, Zenon DEF PatientNext

\* What a screen of a patient user shows stays there until the contact or the screen
\* changes or an error empties it (Message.js, MessageNew.js).
THEOREM NothingShownDisappears == NamesAreTrimmed /\ PatientSpec => NothingDisappears
<1>1. ASSUME PatientInv, PatientNext \/ UNCHANGED chatVars, NEW d \in Devices,
             top[d] \in ChatTops, top'[d] = top[d], chat'[d].editing = chat[d].editing,
             chat[d].messages # Undefined, chat'[d].messages # Undefined
      PROVE  ToSet(Boxes(chat[d].messages)) \subseteq ToSet(Boxes(chat'[d].messages))
  <2>1. CASE chat'[d].messages = chat[d].messages
    BY <2>1
  <2>2. ASSUME NEW r \in Requests, task[r].device = d, MessagesArrive(r)
        PROVE  ToSet(Boxes(chat[d].messages)) \subseteq ToSet(Boxes(chat'[d].messages))
    <3>1. DOMAIN chat = Devices /\ chat[d] \in ChatState /\ TaskInv(r)
      BY <1>1, PatientFacts DEF ChatsTypeOK
    <3>2. chat'[d].messages =
             IF reply[r].status = "SUCCESS" THEN reply[r].body ELSE Undefined
      <4>1. PICK m : m = IF reply[r].status = "SUCCESS" THEN reply[r].body ELSE Undefined
        OBVIOUS
      <4> DEFINE new == [chat[d] EXCEPT !.messages = m, !.refreshing = FALSE]
      <4>2. new.messages = m
        BY <3>1 DEF ChatState
      <4>3. chat' = [chat EXCEPT ![d] = new]
        BY <2>2, <3>1, <4>1 DEF MessagesArrive
      <4> HIDE DEF new
      <4> QED
        BY <3>1, <4>1, <4>2, <4>3
    <3>3. Answered(r) /\ chat'[d].messages = reply[r].body
      BY <1>1, <2>2, <3>2 DEF MessagesArrive, Answered
    <3> QED
      BY <1>1, <2>2, <3>1, <3>3 DEF TaskInv, GotOf, MessagesArrive
  <2>3. ASSUME NEW r \in Requests, task[r].device = d, SendSucceeds(r)
        PROVE  ToSet(Boxes(chat[d].messages)) \subseteq ToSet(Boxes(chat'[d].messages))
    <3>1. /\ DOMAIN chat = Devices /\ chat[d] \in ChatState
          /\ username[d] \in Typeable
      BY <1>1, PatientFacts DEF ChatsTypeOK
    <3>2. chat'[d].messages = Append(chat[d].messages, OwnMessage(d))
      <4> DEFINE new == [chat[d] EXCEPT
                            !.messages = Append(chat[d].messages, OwnMessage(d)),
                            !.newMessage = Empty]
      <4>1. new.messages = Append(chat[d].messages, OwnMessage(d))
        BY <3>1 DEF ChatState
      <4>2. chat' = [chat EXCEPT ![d] = new]
        BY <2>3, <3>1 DEF SendSucceeds
      <4> HIDE DEF new
      <4> QED
        BY <3>1, <4>1, <4>2
    <3>3. /\ chat[d].messages \in Seq(ShownEntry)
          /\ Boxes(chat'[d].messages) = Append(Boxes(chat[d].messages), OwnBox(d))
      BY <1>1, <3>2, OwnBoxAppended
    <3>4. Boxes(chat[d].messages) \in Seq(Box) /\ OwnBox(d) \in Box
      BY <3>1, <3>3, BoxesType DEF OwnBox, Box, ChatState
    <3> QED
      BY <3>3, <3>4, AppendSet
  <2> QED
    BY <1>1, <2>1, <2>2, <2>3, ShownChanges
<1>2. PatientInv /\ [PatientNext /\ FirstContactsSerial']_chatVars =>
         [\A d \in Devices :
             /\ top[d] \in ChatTops /\ top'[d] = top[d]
             /\ chat'[d].editing = chat[d].editing
             /\ chat[d].messages # Undefined /\ chat'[d].messages # Undefined
             => ToSet(Boxes(chat[d].messages)) \subseteq
                    ToSet(Boxes(chat'[d].messages))]_chatVars
  BY <1>1
<1> QED
  BY <1>2, PatientInvariant, PTL DEF PatientSpec, NothingDisappears

=============================================================================
