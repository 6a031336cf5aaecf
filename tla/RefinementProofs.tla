--------------------------- MODULE RefinementProofs ---------------------------
(***************************************************************************)
(* The server with serial first contacts implements Conversations, for     *)
(* every set of users, messages, calls and requests, and for any number of *)
(* errors and crashes.                                                     *)
(***************************************************************************)
EXTENDS SerialProofs

----------------------------------------------------------------------------
(* Times                                                                   *)

TimesInv ==
    now \in 0..MaxTime /\ \A r \in Requests : local[r].time \in 0..MaxTime

LEMMA TimesInit == Init => TimesInv
BY BoundsAssumption DEF Init, Idle, TimesInv

LEMMA ClockStep ==
    ASSUME [Next]_vars
    PROVE  now' = now \/ (now < MaxTime /\ now' = now + 1)
<1>1. ASSUME NEW r \in Requests, Receive(r) \/ CallFails(r) \/ AckLost(r)
      PROVE  now' = now
  BY <1>1 DEF Receive, CallFails, AckLost
<1>2. ASSUME NEW r \in Requests, Step(r)
      PROVE  now' = now
  <2>1. CASE \/ ListUsernames(r) \/ FindChats(r) \/ CheckRecipient(r)
             \/ FindMessages(r) \/ FindChat(r) \/ AllocateChatId(r)
    BY <2>1, Zenon DEF ListUsernames, FindChats, CheckRecipient, FindMessages, FindChat,
                       AllocateChatId
  <2>2. CASE \/ PushMessage(r) \/ InsertChatId(r) \/ InsertMessages(r)
             \/ InsertUser(r) \/ InsertRow(r)
    BY <2>2, Zenon DEF PushMessage, InsertChatId, InsertMessages, InsertUser, InsertRow
  <2>3. CASE \/ ReadSender(r) \/ ReadRecipient(r) \/ WriteSender(r) \/ WriteRecipient(r)
    BY <2>3, Zenon DEF ReadSender, ReadRecipient, ReadRow, WriteSender, WriteRecipient
  <2> QED
    BY <1>2, <2>1, <2>2, <2>3, Zenon
       DEF Step, getExistingUsernames, getUserChats, getUserChatMessages,
           sendMessage, sendNewMessage, addNewUser, UpdatePreviews
<1>3. CASE Crash \/ Tick \/ UNCHANGED vars
  BY <1>3 DEF Crash, Tick, vars
<1> QED
  BY <1>1, <1>2, <1>3 DEF Next

LEMMA TimesStep ==
    ASSUME VisibleInv, TimesInv, [Next]_vars
    PROVE  TimesInv'
<1>1. now' \in 0..MaxTime
  BY ClockStep, BoundsAssumption DEF TimesInv
<1>2. ASSUME NEW r \in Requests
      PROVE  local'[r].time \in 0..MaxTime
  <2>1. TypeOK /\ RequestInv(r)
    BY DEF VisibleInv
  <2>2. CASE Receive(r)
    BY <2>1, <2>2 DEF Receive, TimesInv, TypeOK, RequestsOK, Local
  <2>3. CASE GoesOn(r) \/ AnsweredOther(r) \/ AnsweredSend(r)
    BY <2>3 DEF GoesOn, AnsweredOther, AnsweredSend, TimesInv
  <2> QED
    BY <2>1, <2>2, <2>3, Answers
<1> QED
  BY <1>1, <1>2 DEF TimesInv

----------------------------------------------------------------------------
(* The conversations                                                       *)

Talks(ids, docs) == [q \in Names \X Names |-> Talk(ids, docs, q[1], q[2])]

LEMMA ViewIsTalks ==
    /\ View = Talks(chat_ids, chat_messages)
    /\ View' = Talks(chat_ids', chat_messages')
BY LookupsNow, LookupsNext, Zenon DEF View, Talks

\* The entry e is added to the conversation of a and b, for both.
Added(a, b, e) ==
    /\ View'[<<a, b>>] # View[<<a, b>>]
    /\ View' = [View EXCEPT ![<<a, b>>] = Append(View[<<a, b>>], e),
                            ![<<b, a>>] = Append(View[<<b, a>>], e)]

LEMMA TalkAdded ==
    ASSUME TypeOK, NEW a \in Names, NEW b \in Names, NEW e, PairGrows(a, b, e)
    PROVE  Added(a, b, e)
<1>1. \A x, y \in Names : /\ View[<<x, y>>] = Talk(chat_ids, chat_messages, x, y)
                          /\ View'[<<x, y>>] = Talk(chat_ids', chat_messages', x, y)
  BY ViewIsTalks DEF Talks
<1>2. \A x, y : Talk(chat_ids', chat_messages', x, y) =
               IF (x = a /\ y = b) \/ (x = b /\ y = a)
                 THEN Append(Talk(chat_ids, chat_messages, x, y), e)
                 ELSE Talk(chat_ids, chat_messages, x, y)
  <2> TAKE x, y
  <2>1. {x, y} = {a, b} <=> (x = a /\ y = b) \/ (x = b /\ y = a)
    OBVIOUS
  <2>2. Talk(chat_ids', chat_messages', x, y) =
            IF {x, y} = {a, b} THEN Append(Talk(chat_ids, chat_messages, x, y), e)
                               ELSE Talk(chat_ids, chat_messages, x, y)
    BY Zenon DEF PairGrows
  <2> QED
    BY <2>1, <2>2
<1>3. /\ DOMAIN View = Names \X Names /\ DOMAIN View' = Names \X Names
      /\ View = [q \in Names \X Names |-> View[q]]
      /\ View' = [q \in Names \X Names |-> View'[q]]
  BY ViewIsTalks DEF Talks
<1>4. View'[<<a, b>>] # View[<<a, b>>]
  <2>3. Talk(chat_ids', chat_messages', a, b) =
            Append(Talk(chat_ids, chat_messages, a, b), e)
    BY <1>2
  <2>1. Talk(chat_ids, chat_messages, a, b) \in Seq(Entry)
    BY TalkType DEF TypeOK, DatabaseOK
  <2>2. \A s \in Seq(Entry) : Append(s, e) # s
    OBVIOUS
  <2> QED
    BY <1>1, <2>1, <2>2, <2>3
<1>5. View' = [View EXCEPT ![<<a, b>>] = Append(View[<<a, b>>], e),
                           ![<<b, a>>] = Append(View[<<b, a>>], e)]
  <2> DEFINE W == [View EXCEPT ![<<a, b>>] = Append(View[<<a, b>>], e),
                               ![<<b, a>>] = Append(View[<<b, a>>], e)]
  <2>1. W = [q \in Names \X Names |-> W[q]]
    BY <1>3
  <2>2. \A x, y \in Names :
            W[<<x, y>>] = IF (x = a /\ y = b) \/ (x = b /\ y = a)
                            THEN Append(View[<<x, y>>], e) ELSE View[<<x, y>>]
    BY <1>3
  <2>3. ASSUME NEW x \in Names, NEW y \in Names
        PROVE  View'[<<x, y>>] = W[<<x, y>>]
    <3>1. W[<<x, y>>] = IF (x = a /\ y = b) \/ (x = b /\ y = a)
                          THEN Append(View[<<x, y>>], e) ELSE View[<<x, y>>]
      BY <2>2
    <3>2. View[<<x, y>>] = Talk(chat_ids, chat_messages, x, y)
      BY <1>1
    <3>3. View'[<<x, y>>] = Talk(chat_ids', chat_messages', x, y)
      BY <1>1
    <3> HIDE DEF W
    <3> QED
      BY <1>2, <3>1, <3>2, <3>3
  <2>4. \A q \in Names \X Names : View'[q] = W[q]
    <3> HIDE DEF W
    <3> QED
      BY <2>3
  <2> HIDE DEF W
  <2>5. View' = W
    BY <1>3, <2>1, <2>4
  <2> QED
    BY <2>5 DEF W
<1> QED
  BY <1>4, <1>5 DEF Added

LEMMA ViewStep ==
    ASSUME SerialInv, CollectionsUnique', [Next]_vars
    PROVE  \/ View' = View
           \/ \E s \in Requests :
                 pc[s] # "idle" /\ Added(call[s].from, call[s].to, EntryOf(s))
<1>1. TypeOK
  BY DEF SerialInv, StorageInv, VisibleInv
<1>2. CASE UNCHANGED <<chat_ids, chat_messages>>
  BY <1>2, ViewIsTalks
<1>3. ASSUME NEW s \in Requests, StoreStep(s)
      PROVE  View' = View \/
                 (pc[s] # "idle" /\ Added(call[s].from, call[s].to, EntryOf(s)))
  <2>1. pc[s] # "idle"
    BY <1>3 DEF StoreStep
  <2>2. call[s].from \in Names /\ call[s].to \in Names
    BY <1>1, <2>1, RequestTypes DEF TypeOK
  <2>3. CASE \A x, y : Talk(chat_ids', chat_messages', x, y) =
                          Talk(chat_ids, chat_messages, x, y)
    <3>1. Talks(chat_ids', chat_messages') = Talks(chat_ids, chat_messages)
      BY <2>3 DEF Talks
    <3> QED
      BY <3>1, ViewIsTalks
  <2>4. CASE PairGrows(call[s].from, call[s].to, EntryOf(s))
    BY <1>1, <2>1, <2>2, <2>4, TalkAdded
  <2> QED
    BY <1>3, <2>3, <2>4, StoreTalks
<1> QED
  BY <1>1, <1>2, <1>3, NextStores

----------------------------------------------------------------------------
(* The acknowledged messages                                               *)

Ack(r) == [from |-> call[r].from, to |-> call[r].to, entry |-> EntryOf(r)]

\* A request that is not answered with the success of a send changes nothing.
LEMMA AckStays ==
    ASSUME TypeOK, NEW r \in Requests, RequestInv(r), AnswerOf(r),
           Receive(r) \/ GoesOn(r) \/ AnsweredOther(r)
    PROVE  /\ Succeeded(r)' <=> Succeeded(r)
           /\ Succeeded(r) => Ack(r)' = Ack(r)
<1>1. CASE Receive(r)
  <2>1. reply'[r] = reply[r] /\ reply[r].status = "none"
    BY <1>1 DEF Receive, Await, RequestInv, ControlOf
  <2> QED
    BY <2>1 DEF Succeeded
<1>2. CASE GoesOn(r)
  BY <1>2 DEF GoesOn, Succeeded, Ack, EntryOf
<1>3. CASE AnsweredOther(r)
  BY <1>3 DEF AnsweredOther, Succeeded, AnswerOf
<1> QED
  BY <1>1, <1>2, <1>3

\* Two requests are not answered in one step.
LEMMA OneAnswer ==
    ASSUME TypeOK, [Next]_vars, NEW r \in Requests, NEW s \in Requests,
           AnsweredSend(r), AnsweredSend(s)
    PROVE  r = s
<1>1. pc'[r] = "done" /\ pc'[s] = "done" /\ pc[r] # "done" /\ pc[s] # "done"
  BY DEF AnsweredSend
<1>2. ASSUME NEW q \in Requests, Receive(q) \/ Step(q) \/ CallFails(q) \/ AckLost(q)
      PROVE  r = s
  <2>1. ASSUME NEW t \in Requests, t # q
        PROVE  pc'[t] = pc[t]
    <3>1. CASE Receive(q)
      BY <2>1, <3>1 DEF Receive, Await, TypeOK, RequestsOK
    <3>2. CASE CallFails(q) \/ AckLost(q)
      BY <2>1, <3>2 DEF CallFails, AckLost, SendError, Send, TypeOK, RequestsOK
    <3>3. CASE Step(q)
      BY <2>1, <3>3, StepIsLocal
    <3> QED
      BY <1>2, <3>1, <3>2, <3>3
  <2> QED
    BY <1>1, <2>1
<1>3. CASE Crash
  BY <1>1, <1>3 DEF Crash
<1>4. CASE Tick \/ UNCHANGED vars
  BY <1>1, <1>4 DEF Tick, vars
<1> QED
  BY <1>2, <1>3, <1>4 DEF Next

LEMMA AckedStep ==
    ASSUME AnswersInv, [Next]_vars
    PROVE  \/ Acked' = Acked
           \/ \E r \in Requests : /\ AnsweredSend(r) /\ Succeeded(r)'
                                  /\ Acked' = Acked \cup {Ack(r)'}
<1>1. TypeOK /\ \A r \in Requests : RequestInv(r) /\ AnswerOf(r)
  BY DEF AnswersInv, SerialInv, StorageInv, VisibleInv
<1>2. /\ Acked = {Ack(r) : r \in {s \in Requests : Succeeded(s)}}
      /\ Acked' = {Ack(r)' : r \in {s \in Requests : Succeeded(s)'}}
  BY Zenon DEF Acked, Ack, Succeeded, EntryOf
<1>3. \A r \in Requests : ~AnsweredSend(r) =>
          /\ Succeeded(r)' <=> Succeeded(r)
          /\ Succeeded(r) => Ack(r)' = Ack(r)
  BY <1>1, Answers, AckStays
<1>4. CASE \A r \in Requests : ~AnsweredSend(r)
  BY <1>2, <1>3, <1>4
<1>5. ASSUME NEW r \in Requests, AnsweredSend(r)
      PROVE  \/ Acked' = Acked
             \/ Succeeded(r)' /\ Acked' = Acked \cup {Ack(r)'}
  <2>1. \A s \in Requests \ {r} : /\ Succeeded(s)' <=> Succeeded(s)
                                  /\ Succeeded(s) => Ack(s)' = Ack(s)
    BY <1>1, <1>3, <1>5, OneAnswer
  <2>2. ~Succeeded(r)
    <3>1. pc[r] \in Running
      BY <1>5 DEF AnsweredSend, Running, WriteCalls
    <3> QED
      BY <1>1, <3>1 DEF AnswerOf, Succeeded
  <2>3. CASE ~Succeeded(r)'
    BY <1>2, <2>1, <2>2, <2>3
  <2>4. CASE Succeeded(r)'
    BY <1>2, <2>1, <2>2, <2>4
  <2> QED
    BY <2>3, <2>4
<1> QED
  BY <1>4, <1>5

----------------------------------------------------------------------------
(* The refinement                                                          *)

LEMMA RefinesInit == Init => Abstract!Init
<1> SUFFICES ASSUME Init PROVE Abstract!Init
  OBVIOUS
<1>1. View = [q \in Names \X Names |-> <<>>]
  <2>1. Len(chat_ids) = 0
    BY DEF Init
  <2>2. \A a, b : Talk(chat_ids, chat_messages, a, b) = <<>>
    BY <2>1, NoTalk
  <2> QED
    BY <2>2, ViewIsTalks DEF Talks
<1>2. Acked = {}
  BY DEF Acked, Succeeded, Init, Idle, NoReply
<1> QED
  BY <1>1, <1>2 DEF Abstract!Init

LEMMA RefinesStep ==
    ASSUME AnswersInv, AnswersInv', TimesInv, [Next]_vars
    PROVE  Abstract!Next \/ UNCHANGED <<View, Acked>>
<1>1. /\ TypeOK /\ RequestsOK /\ SerialInv /\ CollectionsUnique'
  BY DEF AnswersInv, SerialInv, StorageInv, VisibleInv, TypeOK
<1>2. ASSUME NEW r \in Requests, AnsweredSend(r), Succeeded(r)',
             Acked' = Acked \cup {Ack(r)'}
      PROVE  Abstract!Next
  <2>1. View' = View
    BY <1>2, ViewIsTalks DEF AnsweredSend
  <2>2. pc[r] # "idle" /\ UNCHANGED call[r]
    BY <1>2 DEF AnsweredSend
  <2>3. PICK a \in Names : a = call[r].from
    BY <1>1, <2>2, RequestTypes
  <2>4. PICK b \in Names : b = call[r].to
    BY <1>1, <2>2, RequestTypes
  <2>5. EntryOf(r)' \in ToSet(View[<<a, b>>])
    <3>1. EntryOf(r)' \in ToSet(Own(r)')
      BY <1>2 DEF AnswersInv, AnswerOf
    <3>2. Own(r)' = View'[<<a, b>>]
      BY <2>2, <2>3, <2>4, ViewIsTalks DEF Own, Talks
    <3> QED
      BY <2>1, <3>1, <3>2
  <2>6. PICK i \in DOMAIN View[<<a, b>>] : EntryOf(r)' = View[<<a, b>>][i]
    BY <2>5 DEF ToSet
  <2>7. EntryOf(r)'.sentBy = a
    BY <2>2, <2>3 DEF EntryOf
  <2>8. Ack(r)' = [from |-> a, to |-> b, entry |-> View[<<a, b>>][i]]
    BY <2>2, <2>3, <2>4, <2>6 DEF Ack
  <2>9. Abstract!Acknowledge(a, b)
    BY <1>2, <2>1, <2>6, <2>7, <2>8 DEF Abstract!Acknowledge
  <2> QED
    BY <2>9 DEF Abstract!Next
<1>3. ASSUME Acked' = Acked, NEW s \in Requests, pc[s] # "idle",
             Added(call[s].from, call[s].to, EntryOf(s))
      PROVE  Abstract!Next
  <2>1. PICK a \in Names : a = call[s].from
    BY <1>1, <1>3, RequestTypes
  <2>2. PICK b \in Names : b = call[s].to
    BY <1>1, <1>3, RequestTypes
  <2>3. EntryOf(s) \in [sentBy : {a}, message : Messages, time : 0..MaxTime]
    <3>1. call[s].message \in Messages
      BY <1>1, <1>3, RequestTypes DEF Call
    <3> QED
      BY <2>1, <3>1 DEF EntryOf, TimesInv
  <2>4. Abstract!Deliver(a, b)
    BY <1>3, <2>1, <2>2, <2>3 DEF Added, Abstract!Deliver
  <2> QED
    BY <2>4 DEF Abstract!Next
<1>4. CASE Acked' = Acked
  BY <1>1, <1>3, <1>4, ViewStep
<1> QED
  BY <1>2, <1>4, AckedStep

\* The clock and the times that requests have noted stay within the bound.
THEOREM TimesBounded == Spec => []TimesInv
<1>1. VisibleInv /\ TimesInv /\ [Next]_vars => TimesInv'
  BY TimesStep
<1> QED
  BY <1>1, TimesInit, VisibleInvariant, PTL DEF Spec

\* With serial first contacts every write of the server is the delivery of a
\* message to both users of a conversation, the acknowledgement of a message
\* that both can read, or a step that neither of them sees.
THEOREM ServerImplementsConversations == SerialSpec => ImplementsConversations
<1>1. /\ AnswersInv /\ AnswersInv' /\ TimesInv /\ [Next /\ FirstContactsSerial']_vars
      => [Abstract!Next]_<<View, Acked>>
  <2>1. [Next /\ FirstContactsSerial']_vars => [Next]_vars
    OBVIOUS
  <2> QED
    BY <2>1, RefinesStep
<1> QED
  BY <1>1, RefinesInit, AnswersInvariant, TimesBounded, SerialIsSpec, PTL
     DEF SerialSpec, ImplementsConversations, Abstract!Spec
=============================================================================
