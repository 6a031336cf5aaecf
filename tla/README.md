# A TLA+ model of the Recoup chat application

The application is a chat: a React Native client (`react/`), Firebase Auth for
accounts, an Express server (`node/server.js`) and a MongoDB database.  This
directory holds a specification of the server and its database, two that compose
that server with the client on several devices (signing up and in; the chat
screens), the properties they are checked against, an abstract specification that
the server implements, and proofs of every safety property.  Line numbers refer to `src/node/server.js` unless
another file is named.

## The system

| Component | State it keeps | Operations | Interacts with |
|---|---|---|---|
| Handlers of `node/server.js` | none between requests; per request the variables of its callbacks | `getExistingUsernames`, `getUserChats`, `getUserChatMessages`, `sendMessage`, `sendNewMessage`, `addNewUser` | MongoDB by promises, the client by HTTP |
| MongoDB | collections `users`, `chat_ids`, `chat_messages`, `user_messages`; no unique index | `findOne`, `find`, `insertOne`, `updateOne` | called by the handlers |
| Server start and routes (9-34) | `db` | connect, then listen; seven routes | Express |
| `SignUp.js` | `username`, `email`, `password`, `errorMessage`, `existingUsernames` | load usernames at mount, check, create account, set display name, POST the user | Firebase, server |
| `Login.js` | `email`, `password`, `errorMessage` | sign in | Firebase |
| `Loading.js`, `Main.js`, `App.js` | the auth listener, the current screen | navigate on every change of the user | Firebase |
| `MessagesAll.js` | `username`, `chats`, `refreshing` | load at mount, refresh, log out | server, Firebase |
| `Message.js` | `messages`, `newMessage`, `refreshing` | load, refresh, send (PUT) | server |
| `MessageNew.js` | the same and `contact` | send (POST), refresh | server |
| `SingleMessage.js` | none | layout of one message | |

The data of a chat is spread over three collections.  `chat_ids` maps an
unordered pair of users to a number; `chat_messages` holds, per number, the
array of messages; `user_messages` holds, per user, the chat list: one item per
contact with the last message and its time.  No transaction spans them.  A send
is five to eight database calls, one after the other, and every call is a point
where other requests run, where the call can fail and where the process can die.

What is hard in this code:

* the read of the largest `chat_id` and its use in an insert are two calls (264,
  272), and so are the search for a chat and its creation (196, 272);
* a chat list is read whole, changed and written back whole (118/125, 128/135,
  and the same in `sendNewMessage`), while the messages are pushed one by one;
* the three inserts and updates of a first contact can stop half way;
* every nesting level has its own `catch`; a callback that throws (an index of
  -1, a null document) must still end in an answer;
* an error does not tell the client whether the message was stored;
* names are compared ignoring case in one place (191-192) and exactly elsewhere;
* in the client, answers arrive in any order and are applied to the state of the
  moment of their arrival.

What makes each component correct:

* server and database: acknowledged messages stay readable by both users;
  conversations only grow; a `chat_id` belongs to one pair and a pair has one
  `chat_id` and one document; chat lists preview stored messages, the latest
  ones, once per contact; every request is answered;
* sign-up: usernames and display names are unique, also in lower case; a display name
  stays; every user of the server has an account of that name, and the server has no
  more users than there are accounts (an account without a user, and one whose name is
  not set yet, do occur);
* navigation: whoever signs in gets to the message list and leaves it after a logout;
  the list is opened for nobody else's name (it may be opened for null, before the name
  is set), and never when nobody is signed in;
* chat screens: what is shown is what the server stored, in its order; every spinner
  stops.

Some of this holds for every interleaving, some only for users who wait, or when first
contacts or sign-ups do not overlap; the runs below say which.

## Modules

| Module | What it is |
|---|---|
| `MessageServer` | The server and the database: state, one action per database call, faults, `Spec`, `FairSpec` |
| `ServerProperties` | Type invariant, invariants, action property, liveness; two restrictions of the interleavings and what holds under them; the refinement mapping |
| `Conversations` | The abstract specification: one conversation per pair, deliver and acknowledge |
| `MC_Server` | Users, messages and calls for TLC |
| `Accounts` | Sign-up, login and logout on several devices, Firebase Auth, composed with `MessageServer` |
| `AccountProperties` | Type invariant, invariants, action property and liveness of `Accounts`; the restriction to careful sign-ups |
| `MC_Accounts` | Names, emails, calls and what is typed, for TLC |
| `Routes` | The route table of the server and which handler a request reaches |
| `ChatScreens` | The list of chats, an open chat and a new chat on several devices, composed with `MessageServer` and `Routes` |
| `ChatProperties` | Type invariant, invariants and liveness of `ChatScreens`; patient users and what holds for them |
| `MC_Chats` | Names, messages, initial states and bounds for TLC |
| `SelectionTheorems` | Lemmas on first matches, largest elements and prefixes of sequences |
| `ServerProofs` | Theorems about `MessageServer`: conversations |
| `StorageProofs` | Theorems about `MessageServer`: previews, chat lists, messages stored once |
| `SerialProofs` | Theorems about `MessageServer` when first contacts do not overlap, and when requests come one at a time |
| `RefinementProofs` | The proof that the first implements `Conversations` |
| `ChatProofs` | Theorems about `ChatScreens` |
| `PatientProofs` | Theorems about `ChatScreens` for patient users |
| `AccountsProofs` | Theorems about `Accounts`, also for careful sign-ups |

### How `MessageServer` corresponds to the code

`pc[r]` names the database call that request `r` waits for; `local[r]` holds what
its callbacks have assigned (`timeNow`, `chat_id`, whether the chat was missing,
`toUpdate`); `reply[r]` is what `res.send` was given.  `Receive` starts a handler
(101-107).  Every other action is one database call together with the callback
on its result, up to the next call or to `res.send`:

| Action | Lines |
|---|---|
| `ListUsernames` | 37-41 |
| `FindChats` | 52-66, with the comparator that leaves ties in any order |
| `CheckRecipient` | 189-193 |
| `FindChat` | 77-93, 107-111 and 173-175, 196-200 and 262 |
| `FindMessages` | 83-90 |
| `PushMessage` | 114-116, 203-205 |
| `AllocateChatId` | 264-269 |
| `InsertChatId`, `InsertMessages` | 272-276, 276-280 |
| `ReadSender`, `WriteSender` | 118-127, 207-216, 280-296 |
| `ReadRecipient`, `WriteRecipient` | 128-140, 217-229, 298-315 |
| `InsertUser`, `InsertRow` | 382-385, 385-390 |
| `CallFails`, `AckLost` | every `catch` |

The existing-chat branch of `sendNewMessage` (199-261) is a copy of
`sendMessage`, so both handlers share those actions; `local[r].fresh` says that
the chat was missing and selects the branch that checks for null and appends
(280-339) instead of throwing.  Each handler of the source is an operator that
lists its actions.

The collections are sequences in natural order; `findOne`, `updateOne` and
`findIndex` take the first match.  A write that modifies nothing (no document, or
a `$set` to the value that is there) has `modifiedCount` 0 and is answered with
an error, as at 140.  `CallFails` rejects a call without effect; `AckLost` lets
a write take effect and rejects it, which a lost connection after a write does
(the driver's single retry carries the transaction number of the first attempt
and does not apply the write twice); `Crash` ends all requests in progress and
keeps the collections.  Message texts, names and times are abstract values.  Names
contain a pair that differs only in case.

### How `Accounts` corresponds to the code

`Accounts` extends `MessageServer`: a `fetch` of a device is `Receive` of a request
(`Fetch`), the server's steps are those of `MessageServer` (`ServerStep`), and the
device reads `reply[r]` when the answer arrives.  A sign-up screen is identified by
the request it makes when it is mounted, so that a screen that was left keeps its
form, which its callbacks still read.  A press of the button is a task with the
identity of the POST it may end with; any number of tasks may be in progress.

| Action | Lines |
|---|---|
| `ShowSignUp`, `UsernamesArrive` | `SignUp.js` 54-70 |
| `Type` | 84-109, both fields at once |
| `CheckUsername` | 47-52 and the call at 29 |
| `CreateAccount`, `CreateFails` | 29-33, 37-44 |
| `UpdateProfile`, `UpdateProfileFails` | 31-35 and 14-17 |
| `UserAdded`, `FetchFails` | 18-23, 65 |
| `AuthStateChanged` | `Loading.js` 9-19 |
| `ToLogin`, `ToSignUp` | `SignUp.js` 112-115, `Login.js` 59-62 |
| `HandleLogin`, `LoginSucceeds`, `LoginFails`, `LoginEnds` | `Login.js` 12-27, 58 |
| `LogOut`, `ShowMain` | `MessagesAll.js` 99, 72-74 |
| `RestartApp` | the end of the app at any point and its next start |

`listName` is the name that `MessagesAll.js` takes when it is mounted (72-74): the
display name of the current user then, which is null until `updateProfile` has
set it.

`login[d]` counts, per email, the sign-ins that are in progress on a device: the button of
`Login.js` 58 is not disabled meanwhile, so there may be several, for different emails,
and they may be settled in any order.  `LoginSucceeds` is the sign-in and its `.then` in
one step.

The username is read from the form three times, as in the code: at the check, for
the display name and for the POST.  Navigating to the message list with nobody
signed in throws in `componentDidMount` (73-74); the screen is then `Failed` and
only a restart leaves it.  Firebase keeps one account per email, signs a new user
in, and tells the listener of every change in order.  A Firebase call or a fetch
may fail, with or without its effect (`Mishap`).  Passwords, the wording of error
messages and the choice among them are left out; `Login.js` 20 assigns where it
means to compare, so that every error but a wrong password reads "Email address
is invalid".

### How `ChatScreens` and `Routes` correspond to the code

`top[d]` is the screen on top of the stack of `Main.js` on device `d`; `list[d]` and
`chat[d]` are `this.state` of the list of chats and of the chat screen above it,
whose `editing` says that "Send to..." has the focus.  A `fetch` takes an unused
request `r`, which keeps in `task[r]` the device and what its callback does; the
callback reads `chat[d]` as it is when the answer arrives, not as it was at the
press.  Any number of fetches of a screen may be in flight, since no button is
disabled meanwhile.

| Action | Lines |
|---|---|
| `OpenApp` | `MessagesAll.js` 72-74 |
| `RefreshList`, `ChatsArrive` | `MessagesAll.js` 52-56, 58-66 |
| `OpenChat`, `OpenNewChat`, `Back` | `MessagesAll.js` 24-27, 77-83; `Main.js` 15-35 |
| `TypeMessage` | `Message.js` 86-93, the same in `MessageNew.js` |
| `FocusContact`, `TypeContact` | `MessageNew.js` 83-89 |
| `handleRefresh` | `Message.js` 43-51, the same in `MessageNew.js` |
| `handleSendMessage` | `Message.js` 19-28, `MessageNew.js` 20-28 |
| `MessagesArrive` | `Message.js` 53-59 |
| `SendSucceeds`, `SendFails` | `Message.js` 29-40, `MessageNew.js` 29-45 |
| `FetchFails` | the `catch` of every fetch, `Message.js` 60-63 |
| `CloseApp` | the end of the app at any point |

An answer with an error has no `messages` and no `chats`: the screens assign
`undefined` without looking at the status, and a send that is acknowledged while
the messages are `undefined` cannot spread them and keeps the text in the input
(`SendFails`).  Callbacks of a screen that was left set the state of a component
that is gone, which does nothing: `Back` ends its tasks.  `FetchFails` rejects a
fetch that reached no handler, whose request died with the server, or whose
answer was lost.

Every fetch goes through `Dispatch` of `Routes`, which takes the first route that
fits method and path, as Express does.  Names are segments of the paths, so users
may have the names of the literal segments: user "add" who writes to user "user"
meets the order of the routes at 32-34.  Somebody who signed up
without a username has an empty name: the list then asks for `/`, whose handler
never answers.

## Runs

The server's runs use users ann, bob and BOB (BOB is bob in another case, and in
one run a third user), two texts, each request used once.  Deadlock is not
reported since the workload is finite: when every request has been answered
nothing is left to do.  Requests, and devices that start alike, are symmetric
except in the runs with liveness.

| Run | Specification and bounds | Checks |
|---|---|---|
| `server_faults` | `Spec` with the fairness of `FairSpec`, from empty collections, from an open chat and from an open chat with a late opening, ten calls over all six handlers, 2 requests, 2 clock values, 2 faults | `TypeOK`, `PreviewIsStored`, `SenderIsInChat`, `ChatListHasUser`, `OneItemPerContact`, `SuccessIsVisible`, `ReadIsPrefix`, `ChatIdNotStale`, `ConversationsOnlyGrow`, `EveryRequestAnswered` |
| `server_serial` | `SerialSpec`, three users, two chats, 3 requests, 1 fault | `ChatIdNamesPair`, `PairHasOneChat`, `OneLogPerChat`, `StoredAtMostOnce`, `EverySuccessIsVisible`, `ImplementsConversations` |
| `server_sequential` | `SequentialSpec`, 3 requests, 2 clock values, no fault; also the same text from both users, a chat with oneself, and sign-ups of a known and of an unknown user | `PreviewIsLatest`, `ChatsAreListed`, `ErrorMeansNotStored` |
| `accounts_faults` | `AccountsSpec` from two open sign-up screens, one email, 4 requests, 1 fault of the server or 1 mishap (`OneFailure`), 1 login per email in progress | `AccountsTypeOK`, `OneUserPerAccount`, `DisplayNameStays` |
| `accounts_careful` | `CarefulSpec`, two devices from the start, two emails, a name in two cases, 4 requests, nothing fails, 2 logins per email in progress | `UniqueUsernames`, `UniqueDisplayNames`, `UsersHaveAccounts`, `AppStaysAlive`, `MainShowsOwnName` |
| `accounts_live` | `FairAccountsSpec`, one device, 3 requests, nothing fails, 2 logins per email in progress | `SignedInReachesMain`, `SignedOutLeavesMain` |
| `chats_open` | `ChatsSpec` with the fairness of `FairChatsSpec`, two devices of users "add" and "user", or one with an empty name, from nothing and from an open chat, 2 requests, 1 fault | `ChatsTypeOK`, `AnswersAreOfTheirKind`, `ShownIsReadPlusOwn`, `ListedIsStored`, `RefreshEnds` |
| `chats_patient` | `PatientSpec`, two devices, also from the two lists and from two new chats, contacts ann and bob with a space after the name, 2 requests, 1 fault or 1 lost answer | `ShownIsStored`, `ListedIsFound`, `NothingDisappears` |

The bounds: two concurrent requests are enough for every race between two calls.  What
needs a third is a request that uses a chat while a row is inserted for the same pair,
or with the same id, by an opening that is late: it has found no chat, or has read the
largest `chat_id`, before the chat was opened by a request that has ended.
`server_faults` starts from these states too (`LateInit` in `MC_Server`: the late opening
is the other user's, before or after it has chosen its id, or one to a third user with
the same id), so that two requests cover it.  They are states that three requests reach
from empty collections.  `server_serial` and `server_sequential` have three requests,
for a read or a send after two others; their specifications exclude the race of two
first contacts, which `server_faults`, `shared_chat_id` and `unlisted_chat` have.  Two faults
cover a failure of each of two requests or a crash after a lost acknowledgement.
Two clock values let two messages differ in time and let the clock move inside a
request.  On the chat screens two fetches of one device are a send that races a
refresh, and two of two devices a send of each side; longer exchanges start from
an open chat with a message in it.  From the two new chats of `chats_patient` only one
send can be in flight, since it leaves the other request to the refresh that follows it:
this start is for the contacts that are typed, not for two sends at once.  Users stop when the requests are used up
(`Room`), and a new chat keeps one for the refresh that follows a send.

`SerialSpec` restricts `Spec` in one respect: no two requests are at once between
finding that a chat is missing and inserting its `chat_id`.  Everything else,
errors and crashes included, still happens.  Under it the numbers are unique and
the collections implement `Conversations` under the mapping that reads the
conversation of each pair as `getUserChatMessages` would: the race at 264-272 is
the only thing that stands between the server and its abstract specification.
`SequentialSpec` runs requests one at a time.  Even then an error may be answered
for a message that is stored: when both users send the same text in the same
millisecond, the items of the chat lists already are what the second send writes,
the update modifies nothing, and 140 takes that for a failure.  The same happens to
one user who sends a text twice in a millisecond, and to a message to oneself.
`ErrorMeansNotStored` makes an exception of these (`SameText`) and of nothing else.

For sign-up, two devices with one email cover every race on an account, and four
requests are the two lists of usernames and a press on each device (or two on
one).  Two logins of each of two emails let any two of one device be settled in either
order; with failures, where one email is enough, there is one (`MaxLogins`).
`CarefulSpec` restricts `AccountsSpec`: one task at a time, one device on the
sign-up screen at a time, one login at a time on a device (`OneLogin`), none during a
sign-up, and no typing or logging out while a task or a login is in progress.  Without
`OneLogin`, `MainShowsOwnName` fails: the first of two logins opens the list for its
account's name and the second replaces the session.  Under `CarefulSpec`, and
when nothing fails, usernames are unique; each part of the restriction is needed,
and so is that nothing fails, since a sign-up that ends between the display name
and the POST leaves a name that the list of usernames does not have.

`PatientSpec` restricts `ChatsSpec`: on a chat screen a user waits for the answer
before typing or pressing again, presses only after leaving "Send to...", and
first contacts do not overlap on the server.  Users may still leave a screen at
any time, the other user goes on meanwhile, and errors, crashes and lost answers
happen.  Each part is needed.  With a press before the answer, a list that was
read before the send overwrites the message that the send appended
(`NothingDisappears`); with typing before the answer, the screen appends the text
that is in the input then and not the one that was sent (`Message.js` 33,
`ShownIsStored`); with a contact that changes while a send is in flight, the
messages of one chat are shown under the name of another (`MessageNew.js` 55); and
with overlapping first contacts the chat that a screen shows may not be the one
that is found later (`ListedIsFound`).  What survives all of this is
`ShownIsReadPlusOwn`, checked and proved for users who do what they like: an open
chat shows a beginning of the conversation without a gap, followed only by
messages in the user's own name.

Four runs show that what a comment or the README of the repository says fails
when requests or sign-ups overlap, or for a name in another case; each ends in a
counterexample.

| Run | What is violated | What the source says |
|---|---|---|
| `shared_chat_id` | `ChatIdNamesPair`: bob and BOB both write to ann first, and both chats get id 0 | line 76 |
| `unlisted_chat` | `ChatsAreListed`: ann's list keeps only one of two new chats | line 51 |
| `recipient_case` | `RecipientExists`: a message to BOB passes the check although only bob exists | line 188 |
| `same_username` | `UniqueUsernames`: two devices that opened the screen before either signed up | `README.md` 14 |

`recipient_case` needs no concurrency.  `PreviewIsLatest` and `ChatsAreListed`
hold in `server_sequential`: one at a time, the code does what its comments say.
`PreviewIsLatest` (line 117) and `OneLogPerChat` (line 82) fail in the same way as the
first two when requests overlap.

### Fairness

`FairSpec` assumes weak fairness of `Step(r)` for each request: a call that was
made is answered or rejected (the driver has time-outs, and a rejection is
`CallFails`, which answers at once), and node runs the callback of a settled promise.
No fairness is assumed of arrivals, of the clock or of faults.  A crash loses
requests, so the property promises an answer or a crash.

`FairChatsSpec` assumes the same of each fetch: `Settles(r)` is the next database
call of its handler, or its callback once there is an answer or a rejection
(`fetch` has a timeout).  Nothing is assumed of the users.  `RefreshEnds` then says
that a spinner stops however the request ends.

`FairAccountsSpec` assumes that the listener of `Loading.js` is called for every
change that Firebase has announced, and nothing else: presses, typing, answers and
logouts may come at any time or never.  `SignedInReachesMain` and
`SignedOutLeavesMain` hold because the listener is never removed: with a working
`componentWillUnmount` both fail.

## Proofs

`ServerProofs` and `StorageProofs` prove about `Spec`, for all sets of names, messages, calls and
requests, every list of earlier users and every bound on time and faults:

| Theorem | Property |
|---|---|
| `TypeCorrect` | `TypeOK` |
| `ConversationsGrow` | `ConversationsOnlyGrow` |
| `SuccessStaysVisible` | `SuccessIsVisible` |
| `ReadsArePrefixes` | `ReadIsPrefix` |
| `ChatIdStaysValid` | `ChatIdNotStale` |
| `StorageInvariant` | the inductive invariant `StorageInv` |
| `PreviewsAreStored` | `PreviewIsStored` |
| `SendersAreInChats` | `SenderIsInChat` |
| `ChatListsHaveUsers` | `ChatListHasUser` |
| `ContactsAreUnique` | `OneItemPerContact` |
| `CopiesInvariant` | the inductive invariant `CopiesInv` |
| `MessagesAreNotRepeated` | `StoredAtMostOnce` |

The assumptions are those on the constants in `MessageServer`: `Calls` are calls,
`Registered` is a sequence of names, the bounds are naturals.

The argument.  `TypeOK` is inductive by itself; the only step that needs more than
the definitions is the new `chat_id`, a number because a finite non-empty set of
numbers has a largest element.  `chat_ids` and `chat_messages` are only appended
to, and so is the array of a document (`StepKeeps`).  The first row of a pair and
the first document of a number therefore stay the first (`FirstChatStays`,
`FirstLogStays`), whatever duplicates are inserted later, and the conversation
that both users read only grows (`TalkGrows`).

`SuccessIsVisible` is not inductive: that a request answers SUCCESS says nothing
by itself about `chat_messages`.  `VisibleInv` adds what a request knows at each
of its calls: before the push, its `chat_id` is that of the first row of its pair
(`IdOf`); while the chat lists are updated, its message is in the pair's
conversation (`PushedOf`); and which handler each call belongs to (`ControlOf`).
The push appends to the document that the pair reads, because both take the first
match (`PushStores`).  The same invariant gives the other two properties.

That `findOne` returns the first match rests on `LeastNatural` in
`SelectionTheorems`: every non-empty set of naturals has a least element, from the
well-foundedness of strict inclusion on finite sets.

The invariants of the chat lists speak of three collections, so `StorageInv` adds to
`VisibleInv` what a request carries between them: the chat of its users has a row
with its `chat_id` before it stores the message (`RowOf`); its message is in a
document of that chat while it updates the lists (`StoredOf`), also when duplicates
of the row exist; and the array that it is about to write back whole, computed from
a list that may be out of date, only has previews that the owner could have and one
item per contact (`RowsOf`).  A list that is overwritten may lose items, which is what
`unlisted_chat` shows, but cannot gain wrong ones: stored messages stay stored
(`StorageGrows`), so an old preview is still one of a stored message.  `WriteOf` lists
the seven writes; every other step leaves the collections alone (`NextWrites`).

`StoredAtMostOnce` compares two numbers, of stored copies and of sends.  `CopiesInv`
says it without counting: there is an injection (`StoredBy`) from the places of
stored messages to the requests that have made their one write (`HasStored`).  A
write adds one place and takes a request that was not yet in the range, since it was
still waiting to write; a write whose acknowledgement is lost does the same; a call
that fails, or a crash, adds no place.  An injection into a finite set bounds the
cardinality, for each message by itself.

`SerialProofs` and `RefinementProofs` prove about `SerialSpec`, where no two requests
are at once between finding that a chat is missing and inserting its `chat_id`, and
any error, crash and other interleaving may still happen:

| Theorem | Property |
|---|---|
| `SerialInvariant` | the inductive invariant `SerialInv` |
| `ChatIdsNamePairs` | `ChatIdNamesPair` |
| `PairsHaveOneChat` | `PairHasOneChat` |
| `ChatsHaveOneLog` | `OneLogPerChat` |
| `AnswersInvariant` | the inductive invariant `AnswersInv` |
| `SuccessesAreVisible` | `EverySuccessIsVisible` |
| `ServerImplementsConversations` | `ImplementsConversations` |

That ids, pairs and documents are unique (`CollectionsUnique`) is not inductive: the
writes that could break it are those of requests that have searched and chosen some
calls earlier.  `SerialInv` says of such a request that its users still have no chat and
that its `chat_id` is still above all others until it inserts the row (`OpeningOf`),
which is what the restriction is for; that no document has its `chat_id` until it inserts
the first message; and that two requests which both wait to insert a first message
have different numbers (`OpeningsDiffer`).  The last two need no restriction of their
own: they follow from every document having a row (`LogsHaveRows`) and from the new
number being above every row (`NextChatIdLemma`).

For the refinement, unique rows and documents mean that a write of one chat changes
what exactly two ordered pairs of users read: a new row changes nothing (`RowTalks`),
a first message (`FirstMessageTalks`) and a `$push` (`PushTalks`) add one entry for both
users of the chat, and so are `Deliver`.  An answer of `WriteRecipient` is
`Acknowledge`, since the message is stored by then (`StoredOf`) and is read by both
(`StoredIsRead`).  No step does both (`ViewStep`, `AckedStep`).

`SerialProofs` also proves about `SequentialSpec`, where requests come one at a time:

| Theorem | Property |
|---|---|
| `SequentialInvariant` | the inductive invariant `SequentialInv` |
| `PreviewsAreLatest` | `PreviewIsLatest` |
| `AllChatsAreListed` | `ChatsAreListed` |
| `ErrorsMeanNotStored` | `ErrorMeansNotStored` |

These have two hypotheses on the constants.  `NoFaults` (`MaxFaults = 0`): a failure
between the write of a message and those of the chat lists leaves a message that no
list shows, and no later request repairs it.  `SendersRegistered`: messages are sent
by and to users who had signed up before; otherwise a chat may be created for a name
that has no chat list yet (`recipient_case` shows how) and whose list, once it signs
up, is empty.  `server_sequential` satisfies both.  Sign-ups are among the requests.

`SequentialInv` is about the middle of a send, where the properties are false.  Every
item of a chat list is up to date except those that the running request is `Behind`
on (`CurrentInv`).  What makes it bring them up to date is `StageOf`: its message is
the last of the conversation; in a new chat neither list has an item yet, so that one
is appended; in a chat that existed both lists show the message of another request,
so that the index is found and, unless the texts and times are equal, the update
modifies something and the handler goes on; and the rows it is about to write are the
list as it is now with one item changed.  A request that answers an error while its
message is stored has therefore met an equal message (`ErrorOf`).  `ListsInv` says why
the list that is read is the one that is written: registered users have one, and of
several of one user only the first is ever written.

`AccountsProofs` proves about `AccountsSpec` and `CarefulSpec`, for all sets of devices, emails, names
and forms:

| Theorem | What it says |
|---|---|
| `AccountsUseServer` | `AccountsSpec => Spec`: every step of a device leaves the server alone or is the arrival of a request, so what is proved of `Spec` holds with the devices |
| `ServerTypesKept` | `TypeOK`, as a consequence |
| `NamingInvariant` | the inductive invariant `AccountsInv` |
| `DisplayNamesStay` | `DisplayNameStays` |
| `OneUserEach` | `OneUserPerAccount` |
| `AccountTypesKept` | `AccountsTypeOK` |

`DisplayNameStays` is not inductive: that `updateProfile` does not rename an account
rests on which sign-ups are in progress.  `AccountsInv` says that a sign-up about
to name an account names one that has no name, and that no other sign-up in
progress names the same one (`NamingInv`), next to the types this needs
(`ScreensOK`).  A sign-up gets there only by creating the account, which Firebase
does once per email.

`OneUserPerAccount` is proved by counting: `CountInv` says that users and sign-ups
that are pending (`Pending`: about to be named, or posted and not yet inserted)
together are at most the accounts and the users registered before.  Creating an
account adds one to both sides; naming it hands the same sign-up on to the server,
which `UnsentInv` shows has not seen it; inserting the user, with or without an
acknowledgement, turns one into the other; failures, crashes and restarts only lose
sign-ups.  `TypesInv` adds to `AccountsTypeOK` that whoever is signed in has an
account, and that a screen that waits for usernames has asked for them
(`TaskOf`) and gets a list of names (`UsernamesOf`).

About `CarefulSpec`, sign-ups that do not overlap:

| Theorem | Property | Also when something fails |
|---|---|---|
| `CarefulUsersHaveAccounts` | `UsersHaveAccounts` | yes |
| `CarefulAppStaysAlive` | `AppStaysAlive` | yes |
| `CarefulDisplayNames` | `UniqueDisplayNames` | no |
| `CarefulUsernames` | `UniqueUsernames` | no |
| `CarefulMainShowsOwnName` | `MainShowsOwnName` | no |

The first two hold for any bound on faults and mishaps, which is more than
`accounts_careful` checks.  `CopiedInv` says that the three reads of the form give one
name: a sign-up in progress belongs to the screen that its device shows (`OnInv`), and
the name it sets is the one in the form, so that the user the server is asked to add
is the display name of an account.  `SessionInv` says that the queue of the listener
never ends in a way that would open the message list for nobody: with somebody signed
in, all pending events are sign-ins; with nobody, there are none, or the last one is
the only logout and the device is on the message list or just starting (`LoggedOut`).

The other three have the hypothesis `NoFailures`, and need it (with one mishap TLC
violates each): a request for the list of usernames that fails leaves the screen with
an empty one, and the check then passes for a name that is taken; a POST that fails
leaves a display name that the list does not have; and a sign-up that sets the name and
then is told of an error leaves the screen open for a second sign-up, which replaces the
account while the list is opened for the name of the first.  `CarefulUsernames` has `RegisteredDiffer` besides: the names registered
before differ.  `UniqueInv` follows a name through a sign-up: the list that is under
way is that of the server now (`ListingOf`), every user is in the list that a sign-up
was checked against (`FreeOf`), so the user that is posted is new (`PostingOf`), and
a display name belongs to a user or to one that is being added (`NamesListed`).
`MainInv` says who may still be without a name when the list opens: away from the
message list an account that is signed in has none, unless its own sign-up is about to
end, and a sign-up names the account of its own device (`NamesOwn`).  While a login is in
progress, whoever is signed in has no name; as it is the only one, no other follows when
it has opened the list (`LoginSettled`).

`ChatProofs` proves about `ChatsSpec`, for all sets of devices, logins, names (the
words of the routes included), texts and contacts:

| Theorem | What it says |
|---|---|
| `ChatsUseServer` | `ChatsSpec => Spec`: what is proved of `Spec` holds with the chat screens |
| `ChatsInvariant` | the inductive invariant `ChatsInv` |
| `ChatsTypeCorrect` | `ChatsTypeOK` |
| `AnswersFitScreens` | `AnswersAreOfTheirKind` |
| `OpenChatsShowReads` | `ShownIsReadPlusOwn` |
| `ListsPreviewStored` | `ListedIsStored` |

`ChatsInv` adds to `StorageInv` what each fetch will be answered with: `FetchOf(r)`
says which handler and which users a task's request has, so that the answer of the
server's invariants (`ReadIsPrefix`, `ListOf`) is about the chat that the screen
shows.  The route table enters here: `RouteTable` and `FitsFacts` compute which
routes can fit the three kinds of path, and `PathsDispatch` that none of them
reaches another handler's answer.  `ReadPlusOwn` is the form in which
`ShownIsReadPlusOwn` is kept: a length up to which the screen is a prefix of the
conversation; since conversations only grow, a prefix stays one (`ReadStays`), and
the callback of a send appends a message of the user (`OwnAppended`).

`PatientProofs` proves about `PatientSpec`, users who wait for an answer, with any
number of errors, crashes and lost answers:

| Theorem | Property |
|---|---|
| `ListedChatsAreFound` | `ListedIsFound` |
| `PatientUsersSeeStored` | `ShownIsStored` |
| `NothingShownDisappears` | `NothingDisappears` |

A patient server is the serial one (`PatientIsSerial`), so a preview, which is stored
in a chat of its users, is in the one chat that they find.  The other two rest on
`PatientInv`: a screen has one fetch under way (`OneTask`), which is for what the
screen still says (`WaitOf`); what is on the screen is embedded in the conversation
(`ScreenOf`); once the message of a send is stored, so is the screen with that message
appended, before the screen knows (`AckedOf`); and a list that is on its way has
everything the screen has (`GotOf`), because a conversation only grows.  When the
message is stored, it comes after all that the screen shows.

Those two have the hypothesis `NamesAreTrimmed`: users who are logged in have no spaces
around their names, and trimming a name leaves none. Without it both are false, as TLC
shows with a third user whose name ends in a space: a send goes to the trimmed contact
and the refresh that follows asks for the contact as it was typed (`MessageNew.js` 21
and 55), which may then be another user's name. What is typed may have spaces, as in
`chats_patient`, which satisfies the hypothesis.

Every invariant and every action property that a passing run checks is stated by a
theorem.  Only model-checked are the four liveness properties (`EveryRequestAnswered`,
`RefreshEnds`, `SignedInReachesMain`, `SignedOutLeavesMain`): under weak fairness they
need ENABLED, which the prover cannot handle.  The runs with a counterexample have no
proof: there is nothing to prove.

## Not modelled

* Layout: the shortening of the last message to 40 characters and the 12-hour clock
  of `MessagesAll.js`, the sides and colours of `SingleMessage.js`, alerts and the
  wording of errors.  No state depends on them.
* On the sign-up and login screens: passwords and error messages.
* Names with characters that URLs escape (a name with "/" reaches another route), and that
  Express ignores case in the literal segments of a route: `Fits` compares them as they
  are, so a user called "Add" is not taken for the segment "add".
  Registered names have no spaces around them in `chats_patient`: the sign-up screen
  does not trim them while `MessageNew.js` 21 trims the contact, so that such a user
  cannot be written to first.
* A logout while chat screens are open: it ends them with the stack.  `ChatScreens`
  starts with users who are signed in; `Accounts` models the logout from the list.
* MongoDB's replication; the server writes with `w=majority`, so a write that was
  acknowledged is not rolled back.  The limit of 16 MB on a document, which would
  eventually refuse a `$push`, is a `CallFails`.
* Native projects, generated configuration and the vendored C++ and Objective-C
  libraries under `react/ios/Pods`, which are nearly all of the repository's lines and
  none of the program's own.

## What is left

1. `Accounts` and `ChatScreens` on one device: a logout with answers in flight, and the
   name null that an early `Main` hands to the chat screens.
2. Weaker hypotheses where the code allows it: `SendersRegistered` for users who sign
   up between the sends.
