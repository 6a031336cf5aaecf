--------------------------- MODULE AccountsProofs ---------------------------
(***************************************************************************)
(* Theorems about Accounts: the devices use the server as Spec says it may *)
(* be used, so that all that is proved about the server holds with them;   *)
(* a display name stays once it is given; the server gets one user for an  *)
(* account at most; and every variable keeps its type.  Then, of careful   *)
(* users: users of the server have accounts and no app dies, whatever      *)
(* fails; and when nothing fails, usernames differ and the message list is *)
(* opened for whoever is signed in.                                        *)
(***************************************************************************)
EXTENDS AccountProperties, ServerProofs

----------------------------------------------------------------------------
(* The devices and the server together are a server                        *)

\* A step of the devices leaves the server alone or makes a request of it.
LEMMA StepOfServer ==
    ASSUME [AccountsNext]_accountVars
    PROVE  [Next]_vars
<1>1. ASSUME NEW d \in Devices, RestartApp(d) \/ DeviceStep(d)
      PROVE  [Next]_vars
  <2>1. \/ UNCHANGED vars
        \/ \E r \in Requests : Receive(r)
    BY <1>1 DEF RestartApp, DeviceStep, AuthStateChanged, ToLogin, ToSignUp, Type,
                CheckUsername, HandleLogin, LoginSucceeds, LoginFails, LogOut,
                ShowSignUp, Fetch, server
  <2> QED
    BY <2>1 DEF Next
<1>2. ASSUME NEW r \in Requests, SignUpStep(r)
      PROVE  [Next]_vars
  <2>1. UNCHANGED vars \/ Receive(r)
    BY <1>2 DEF SignUpStep, UsernamesArrive, CreateAccount, CreateFails, UpdateProfile,
                UpdateProfileFails, UserAdded, FetchFails, Fetch, server
  <2> QED
    BY <2>1 DEF Next
<1>3. ASSUME ServerStep
      PROVE  [Next]_vars
  BY <1>3 DEF ServerStep, Next
<1>4. ASSUME UNCHANGED accountVars
      PROVE  [Next]_vars
  BY <1>4 DEF accountVars
<1> QED
  BY <1>1, <1>2, <1>3, <1>4 DEF AccountsNext

\* What the devices do with the server is a behaviour of the server.
THEOREM AccountsUseServer == AccountsSpec => Spec
<1>1. AccountsInit => Init
  BY DEF AccountsInit
<1>2. [AccountsNext]_accountVars => [Next]_vars
  BY StepOfServer
<1> QED
  BY <1>1, <1>2, PTL DEF AccountsSpec, Spec

----------------------------------------------------------------------------
(* Types, as far as the names of accounts depend on them                   *)

Task == [step : TaskSteps, device : Devices \cup {None}, on : Requests \cup {None},
         email : Emails \cup {None}, name : Names \cup {None}]

ScreensOK ==
    /\ mounted \in [Devices -> Requests \cup {None}]
    /\ form \in [Requests -> Form]
    /\ task \in [Requests -> Task]
    /\ \A r \in Requests : Active(r) => task[r].on \in Requests
    /\ \A d \in Devices : screen[d] = "SignUp" => mounted[d] \in Requests
    /\ DOMAIN screen = Devices

\* Two sign-ups never name the same account, and name it only once.
NamingInv ==
    \A r \in Requests : task[r].step = "naming" =>
        /\ task[r].email \in DOMAIN accounts
        /\ accounts[task[r].email] = None
        /\ \A s \in Requests \ {r} :
              task[s].step = "naming" => task[s].email # task[r].email

AccountsInv == ScreensOK /\ NamingInv

NamesKept ==
    \A e \in Named : e \in Named' /\ accounts'[e] = accounts[e]

LEMMA EndedIsTask == Ended \in Task /\ Ended.step = "ended"
BY DEF Ended, NoTask, Task, TaskSteps

LEMMA AccountsInvInit ==
    ASSUME AccountsInit
    PROVE  AccountsInv
<1>1. NoTask \in Task /\ NoTask.step = "unused"
  BY DEF NoTask, Task, TaskSteps
<1>2. ScreensOK
  BY <1>1 DEF AccountsInit, ScreensOK, Form, Active
<1>3. NamingInv
  BY <1>1 DEF AccountsInit, NamingInv
<1> QED
  BY <1>2, <1>3 DEF AccountsInv

\* The screen that a device goes to.
LEMMA ShowMainEffect ==
    ASSUME ScreensOK, NEW d, ShowMain(d)
    PROVE  /\ DOMAIN screen' = Devices
           /\ \A x \in Devices : screen'[x] = "SignUp" => screen[x] = "SignUp"
BY DEF ScreensOK, ShowMain

LEMMA ShowSignUpEffect ==
    ASSUME ScreensOK, NEW d \in Devices, ShowSignUp(d), UNCHANGED form
    PROVE  /\ ScreensOK'
           /\ \A r \in Requests : task'[r].step = "naming" =>
                  task[r].step = "naming" /\ task'[r].email = task[r].email
<1>1. CASE UNCHANGED <<screen, mounted, task>>
  BY <1>1 DEF ScreensOK, Active
<1>2. CASE screen[d] # "SignUp" /\ ~UNCHANGED <<screen, mounted, task>>
  <2>1. PICK q \in Requests :
           /\ task' = [task EXCEPT ![q].step = "listing", ![q].device = d, ![q].on = q]
           /\ mounted' = [mounted EXCEPT ![d] = q]
    BY <1>2 DEF ShowSignUp
  <2>2. screen' = [screen EXCEPT ![d] = "SignUp"]
    BY <1>2 DEF ShowSignUp
  <2>3. task[q] \in Task
    BY DEF ScreensOK
  <2> DEFINE new == [[[task[q] EXCEPT !.step = "listing"] EXCEPT !.device = d]
                        EXCEPT !.on = q]
  <2>4. new \in Task /\ new.step = "listing" /\ new.on = q
    BY <2>3 DEF Task, TaskSteps
  <2>5. task' = [task EXCEPT ![q] = new]
    BY <2>1 DEF ScreensOK
  <2> HIDE DEF new
  <2>6. task' \in [Requests -> Task] /\ task'[q] = new
        /\ \A r \in Requests \ {q} : task'[r] = task[r]
    BY <2>4, <2>5 DEF ScreensOK
  <2> QED
    BY <2>1, <2>2, <2>4, <2>6 DEF ScreensOK, Active
<1> QED
  BY <1>1, <1>2 DEF ShowSignUp

\* What a device does by itself leaves accounts and their naming alone.
LEMMA DeviceKeeps ==
    ASSUME AccountsInv, NEW d \in Devices, RestartApp(d) \/ DeviceStep(d)
    PROVE  AccountsInv' /\ NamesKept
<1> USE DEF AccountsInv
<1>1. UNCHANGED accounts
  BY DEF RestartApp, DeviceStep, AuthStateChanged, ToLogin, ToSignUp, Type, CheckUsername,
         HandleLogin, LoginSucceeds, LoginFails, LogOut
<1>2. ASSUME ScreensOK',
             \A r \in Requests : task'[r].step = "naming" =>
                 task[r].step = "naming" /\ task'[r].email = task[r].email
      PROVE  AccountsInv' /\ NamesKept
  BY <1>1, <1>2 DEF NamingInv, NamesKept, Named
<1>3. CASE RestartApp(d)
  <2>1. \A r \in Requests : task'[r] \in {Ended, task[r]}
    BY <1>3 DEF RestartApp
  <2>2. task' \in [Requests -> Task]
    BY <1>3, EndedIsTask DEF RestartApp, ScreensOK
  <2>3. ScreensOK'
    BY <1>3, <2>1, <2>2, EndedIsTask DEF RestartApp, ScreensOK, Active
  <2> QED
    BY <1>2, <2>1, <2>3, EndedIsTask
<1>4. CASE AuthStateChanged(d)
  <2>1. CASE ShowMain(d) /\ UNCHANGED <<mounted, task>>
    <3>1. ScreensOK'
      BY <1>4, <2>1, ShowMainEffect DEF AuthStateChanged, ScreensOK, Active
    <3> QED
      BY <1>2, <2>1, <3>1
  <2>2. CASE ShowSignUp(d)
    BY <1>2, <1>4, <2>2, ShowSignUpEffect DEF AuthStateChanged
  <2> QED
    BY <1>4, <2>1, <2>2 DEF AuthStateChanged
<1>5. CASE ToLogin(d)
  <2>1. ScreensOK'
    BY <1>5 DEF ToLogin, ScreensOK, Active
  <2> QED
    BY <1>2, <1>5, <2>1 DEF ToLogin
<1>6. CASE ToSignUp(d)
  BY <1>2, <1>6, ShowSignUpEffect DEF ToSignUp
<1>7. CASE Type(d)
  <2>1. PICK f \in Forms : form' = [form EXCEPT ![mounted[d]] = f]
    BY <1>7 DEF Type
  <2>2. form' \in [Requests -> Form]
    BY <2>1, FormsAssumption DEF ScreensOK
  <2>3. ScreensOK'
    BY <1>7, <2>2 DEF Type, ScreensOK, Active
  <2> QED
    BY <1>2, <1>7, <2>3 DEF Type
<1>8. CASE CheckUsername(d)
  <2> DEFINE new == [step |-> "creating", device |-> d, on |-> mounted[d],
                     email |-> form[mounted[d]].email, name |-> None]
  <2>1. PICK q \in Requests : task' = [task EXCEPT ![q] = new]
    BY <1>8 DEF CheckUsername
  <2>2. mounted[d] \in Requests
    BY <1>8 DEF CheckUsername, ScreensOK
  <2>3. form[mounted[d]] \in Form
    BY <2>2 DEF ScreensOK
  <2>4. new \in Task /\ new.step = "creating" /\ new.on \in Requests
    BY <2>2, <2>3 DEF Form, Task, TaskSteps
  <2> HIDE DEF new
  <2>5. task' \in [Requests -> Task] /\ task'[q] = new
        /\ \A r \in Requests \ {q} : task'[r] = task[r]
    BY <2>1, <2>4 DEF ScreensOK
  <2>6. ScreensOK'
    BY <1>8, <2>4, <2>5 DEF CheckUsername, screens, ScreensOK, Active
  <2> QED
    BY <1>2, <2>4, <2>5, <2>6
<1>9. CASE HandleLogin(d) \/ LoginFails(d) \/ LogOut(d)
  <2>1. UNCHANGED <<screen, mounted, form, task>>
    BY <1>9 DEF HandleLogin, LoginFails, LogOut, screens
  <2>2. ScreensOK'
    BY <2>1 DEF ScreensOK, Active
  <2> QED
    BY <1>2, <2>1, <2>2
<1>10. CASE LoginSucceeds(d)
  <2>1. ScreensOK'
    BY <1>10, ShowMainEffect DEF LoginSucceeds, ScreensOK, Active
  <2> QED
    BY <1>2, <1>10, <2>1 DEF LoginSucceeds
<1> QED
  BY <1>3, <1>4, <1>5, <1>6, <1>7, <1>8, <1>9, <1>10 DEF DeviceStep

\* Only a sign-up that created an account names it.
LEMMA SignUpKeeps ==
    ASSUME AccountsInv, NEW r \in Requests, Active(r), SignUpStep(r)
    PROVE  AccountsInv' /\ NamesKept
<1> USE DEF AccountsInv
<1> DEFINE e == task[r].email
<1>1. /\ task[r] \in Task
      /\ task[r].on \in Requests
      /\ form[task[r].on].username \in Names \cup {None}
  BY DEF ScreensOK, Form
<1>2. ASSUME NEW new \in Task, task' = [task EXCEPT ![r] = new], UNCHANGED <<mounted, form>>,
             DOMAIN screen' = Devices,
             \A x \in Devices : screen'[x] = "SignUp" => screen[x] = "SignUp",
             new.step \in {"unused", "ended"} \/ new.on = task[r].on
      PROVE  /\ ScreensOK'
             /\ task'[r] = new
             /\ \A s \in Requests \ {r} : task'[s] = task[s]
  <2>1. task' \in [Requests -> Task] /\ task'[r] = new
        /\ \A s \in Requests \ {r} : task'[s] = task[s]
    BY <1>2 DEF ScreensOK
  <2> QED
    BY <1>1, <1>2, <2>1 DEF ScreensOK, Active
<1>3. ASSUME EndTask(r), UNCHANGED <<mounted, form>>, DOMAIN screen' = Devices,
             \A x \in Devices : screen'[x] = "SignUp" => screen[x] = "SignUp"
      PROVE  /\ ScreensOK'
             /\ task'[r].step = "ended"
             /\ \A s \in Requests \ {r} : task'[s] = task[s]
  BY <1>2, <1>3, EndedIsTask DEF EndTask
<1>4. UNCHANGED screen => /\ DOMAIN screen' = Devices
                          /\ \A x \in Devices : screen'[x] = "SignUp" => screen[x] = "SignUp"
  BY DEF ScreensOK
<1>5. ASSUME ScreensOK', UNCHANGED accounts, task'[r].step # "naming",
             \A s \in Requests \ {r} : task'[s] = task[s]
      PROVE  AccountsInv' /\ NamesKept
  BY <1>5 DEF NamingInv, NamesKept, Named
<1>6. CASE UsernamesArrive(r) \/ FetchFails(r)
  BY <1>3, <1>4, <1>5, <1>6 DEF UsernamesArrive, FetchFails, screens
<1>7. CASE UserAdded(r)
  BY <1>3, <1>4, <1>5, <1>7, ShowMainEffect DEF UserAdded
<1>8. CASE CreateAccount(r)
  <2> DEFINE new == [[task[r] EXCEPT !.step = "naming"]
                        EXCEPT !.name = form[task[r].on].username]
  <2>1. new \in Task /\ new.step = "naming" /\ new.email = e /\ new.on = task[r].on
    BY <1>1 DEF Task, TaskSteps
  <2>2. task' = [task EXCEPT ![r] = new]
    BY <1>8 DEF CreateAccount, ScreensOK
  <2> HIDE DEF new
  <2>3. /\ ScreensOK'
        /\ task'[r] = new
        /\ \A s \in Requests \ {r} : task'[s] = task[s]
    BY <1>2, <1>4, <1>8, <2>1, <2>2 DEF CreateAccount, screens
  <2>4. /\ e \notin DOMAIN accounts
        /\ accounts' = WithAccount(e)
    BY <1>8 DEF CreateAccount
  <2>5. NamingInv'
    BY <2>1, <2>3, <2>4 DEF NamingInv, WithAccount
  <2>6. NamesKept
    BY <2>4 DEF NamesKept, Named, WithAccount
  <2> QED
    BY <2>3, <2>5, <2>6
<1>9. CASE CreateFails(r)
  <2>1. /\ ScreensOK'
        /\ task'[r].step = "ended"
        /\ \A s \in Requests \ {r} : task'[s] = task[s]
    BY <1>3, <1>4, <1>9 DEF CreateFails, screens
  <2>2. CASE UNCHANGED accounts
    BY <1>5, <2>1, <2>2
  <2>3. CASE e \notin DOMAIN accounts /\ accounts' = WithAccount(e)
    <3>1. NamingInv'
      BY <2>1, <2>3 DEF NamingInv, WithAccount
    <3>2. NamesKept
      BY <2>3 DEF NamesKept, Named, WithAccount
    <3> QED
      BY <2>1, <3>1, <3>2
  <2> QED
    BY <1>9, <2>2, <2>3 DEF CreateFails
<1>10. ASSUME task[r].step = "naming", ScreensOK', SetDisplayName(r),
              task'[r].step # "naming", \A s \in Requests \ {r} : task'[s] = task[s]
       PROVE  AccountsInv' /\ NamesKept
  <2>1. /\ e \in DOMAIN accounts
        /\ accounts[e] = None
        /\ \A s \in Requests \ {r} : task[s].step = "naming" => task[s].email # e
    BY <1>10 DEF NamingInv
  <2>2. /\ DOMAIN accounts' = DOMAIN accounts
        /\ \A f \in DOMAIN accounts \ {e} : accounts'[f] = accounts[f]
    BY <1>10 DEF SetDisplayName
  <2>3. NamingInv'
    BY <1>10, <2>1, <2>2 DEF NamingInv
  <2>4. NamesKept
    BY <2>1, <2>2 DEF NamesKept, Named
  <2> QED
    BY <1>10, <2>3, <2>4
<1>11. CASE UpdateProfileFails(r)
  <2>1. /\ ScreensOK'
        /\ task'[r].step = "ended"
        /\ \A s \in Requests \ {r} : task'[s] = task[s]
    BY <1>3, <1>4, <1>11 DEF UpdateProfileFails, screens
  <2> QED
    BY <1>5, <1>10, <1>11, <2>1 DEF UpdateProfileFails
<1>12. CASE UpdateProfile(r)
  <2>1. CASE EndTask(r)
    <3>1. /\ ScreensOK'
          /\ task'[r].step = "ended"
          /\ \A s \in Requests \ {r} : task'[s] = task[s]
      BY <1>3, <1>4, <1>12, <2>1 DEF UpdateProfile, screens
    <3> QED
      BY <1>10, <1>12, <3>1 DEF UpdateProfile
  <2>2. CASE task' = [task EXCEPT ![r].step = "posting"]
    <3> DEFINE new == [task[r] EXCEPT !.step = "posting"]
    <3>1. new \in Task /\ new.step = "posting" /\ new.on = task[r].on
      BY <1>1 DEF Task, TaskSteps
    <3>2. task' = [task EXCEPT ![r] = new]
      BY <2>2 DEF ScreensOK
    <3> HIDE DEF new
    <3>3. /\ ScreensOK'
          /\ task'[r] = new
          /\ \A s \in Requests \ {r} : task'[s] = task[s]
      BY <1>2, <1>4, <1>12, <3>1, <3>2 DEF UpdateProfile, screens
    <3> QED
      BY <1>10, <1>12, <3>1, <3>3 DEF UpdateProfile
  <2> QED
    BY <1>12, <2>1, <2>2 DEF UpdateProfile
<1> QED
  BY <1>6, <1>7, <1>8, <1>9, <1>11, <1>12 DEF SignUpStep

\* Every step keeps the invariant and every name that was given.
LEMMA AccountsInvStep ==
    ASSUME AccountsInv, [AccountsNext]_accountVars
    PROVE  AccountsInv' /\ NamesKept
<1>1. ASSUME ServerStep \/ UNCHANGED accountVars
      PROVE  AccountsInv' /\ NamesKept
  <2>1. UNCHANGED <<accounts, screen, mounted, form, task>>
    BY <1>1 DEF ServerStep, accountVars, screens
  <2> QED
    BY <2>1 DEF AccountsInv, ScreensOK, NamingInv, NamesKept, Named, Active
<1> QED
  BY <1>1, DeviceKeeps, SignUpKeeps DEF AccountsNext

\* A sign-up in progress is the only one that names its account, which has no
\* name yet: the reason why callbacks of screens that were left do no harm.
THEOREM NamingInvariant == AccountsSpec => []AccountsInv
<1>1. AccountsInit => AccountsInv
  BY AccountsInvInit
<1>2. AccountsInv /\ [AccountsNext]_accountVars => AccountsInv'
  BY AccountsInvStep
<1> QED
  BY <1>1, <1>2, PTL DEF AccountsSpec

\* A display name, the name under which messages are sent and read, is given
\* once and stays.
THEOREM DisplayNamesStay == AccountsSpec => DisplayNameStays
<1>1. AccountsInv /\ [AccountsNext]_accountVars => [NamesKept]_accountVars
  BY AccountsInvStep
<1> QED
  BY <1>1, NamingInvariant, PTL DEF AccountsSpec, DisplayNameStays, NamesKept

\* Sign-up keeps the types of the server's collections and requests.
THEOREM ServerTypesKept == AccountsSpec => []TypeOK
BY AccountsUseServer, TypeCorrect

----------------------------------------------------------------------------
(* One user for every account                                              *)

\* Sign-ups that have created an account and have not yet added the user
Pending == {r \in Requests : task[r].step = "naming" \/ pc[r] = "insertUser"}

\* A task that has made no request has an identity the server has not seen.
UnsentInv ==
    \A r \in Requests :
        task[r].step \in {"unused", "creating", "naming"} => pc[r] = "idle"

\* Every account is spent at most once: on a sign-up that is pending or on a user.
CountInv ==
    /\ IsFiniteSet(Pending) /\ IsFiniteSet(DOMAIN accounts)
    /\ Len(users) + Cardinality(Pending)
           <= Len(Registered) + Cardinality(DOMAIN accounts)

UsersInv == AccountsInv /\ TypeOK /\ UnsentInv /\ CountInv

LEMMA UsersInvInit ==
    ASSUME AccountsInit
    PROVE  UsersInv
<1>1. AccountsInv /\ TypeOK
  BY AccountsInvInit, TypeInit DEF AccountsInit
<1>2. UnsentInv
  BY DEF AccountsInit, Init, Idle, UnsentInv
<1>3. Pending = {}
  BY DEF AccountsInit, Init, Idle, Pending, NoTask
<1>4. DOMAIN accounts = {}
  BY DEF AccountsInit
<1>5. users = Registered
  BY DEF AccountsInit, Init
<1>6. CountInv
  BY <1>3, <1>4, <1>5, FS_EmptySet, LenProperties, RegisteredAssumption DEF CountInv
<1> QED
  BY <1>1, <1>2, <1>6 DEF UsersInv

\* Fewer sign-ups that are pending, or more accounts
LEMMA CountKept ==
    ASSUME CountInv, Len(users) \in Nat, UNCHANGED users, Pending' \subseteq Pending,
           \/ UNCHANGED DOMAIN accounts
           \/ \E e : e \notin DOMAIN accounts /\ DOMAIN accounts' = DOMAIN accounts \cup {e}
    PROVE  CountInv'
<1>1. /\ IsFiniteSet(Pending')
      /\ Cardinality(Pending') \in Nat /\ Cardinality(Pending) \in Nat
      /\ Cardinality(Pending') <= Cardinality(Pending)
  BY FS_Subset, FS_CardinalityType DEF CountInv
<1>2. Cardinality(DOMAIN accounts) \in Nat /\ Len(Registered) \in Nat
  BY FS_CardinalityType, LenProperties, RegisteredAssumption DEF CountInv
<1>3. /\ IsFiniteSet(DOMAIN accounts')
      /\ Cardinality(DOMAIN accounts')
             \in {Cardinality(DOMAIN accounts), Cardinality(DOMAIN accounts) + 1}
  BY FS_AddElement DEF CountInv
<1>4. Len(users) + Cardinality(Pending) <= Len(Registered) + Cardinality(DOMAIN accounts)
  BY DEF CountInv
<1>5. Len(users') + Cardinality(Pending')
          <= Len(Registered) + Cardinality(DOMAIN accounts')
  BY <1>1, <1>2, <1>3, <1>4
<1> QED
  BY <1>1, <1>3, <1>5 DEF CountInv

\* A step of a handler never goes on to insertUser, and adds a user only there.
LEMMA StepAddsUser ==
    ASSUME TypeOK, NEW r \in Requests, Step(r) \/ CallFails(r) \/ AckLost(r)
    PROVE  /\ pc[r] # "idle" /\ pc'[r] \notin {"idle", "insertUser"}
           /\ \A s \in Requests \ {r} : pc'[s] = pc[s]
           /\ \/ UNCHANGED users
              \/ /\ pc[r] = "insertUser"
                 /\ users' = Append(users, call[r].from)
                 /\ Len(users') = Len(users) + 1
<1>1. ASSUME NEW step, Await(r, step)
      PROVE  pc'[r] = step /\ \A s \in Requests \ {r} : pc'[s] = pc[s]
  BY <1>1 DEF Await, TypeOK, RequestsOK
<1>2. ASSUME NEW status, NEW body, Send(r, status, body)
      PROVE  pc'[r] = "done" /\ \A s \in Requests \ {r} : pc'[s] = pc[s]
  BY <1>2 DEF Send, TypeOK, RequestsOK
<1>3. SendError(r) => pc'[r] = "done" /\ \A s \in Requests \ {r} : pc'[s] = pc[s]
  BY <1>2 DEF SendError
<1>4. AddUser(r) /\ pc[r] # "idle" =>
          users' = Append(users, call[r].from) /\ Len(users') = Len(users) + 1
  <2>1. pc[r] # "idle" => call[r].from \in Names
    BY RequestTypes DEF TypeOK
  <2> QED
    BY <2>1, AppendFacts DEF AddUser, TypeOK, DatabaseOK
<1>5. CASE CallFails(r)
  BY <1>3, <1>5 DEF CallFails, Running, ReadCalls, WriteCalls, database
<1>6. CASE AckLost(r)
  BY <1>3, <1>4, <1>6 DEF AckLost, AppendEntry, AddChatId, AddLog, SetRow, AddRow
<1>7. CASE InsertUser(r)
  BY <1>1, <1>4, <1>7 DEF InsertUser
<1>8. CASE ListUsernames(r) \/ FindChats(r) \/ FindMessages(r)
  BY <1>2, <1>3, <1>8 DEF ListUsernames, FindChats, FindMessages, database
<1>9. CASE FindChat(r)
  <2>1. \/ \E step \in {"findMessages", "pushMessage", "lastChatId"} : Await(r, step)
        \/ SendError(r)
    BY <1>9 DEF FindChat
  <2>2. /\ pc'[r] \in {"findMessages", "pushMessage", "lastChatId", "done"}
        /\ \A s \in Requests \ {r} : pc'[s] = pc[s]
    BY <1>1, <1>3, <2>1
  <2> QED
    BY <1>9, <2>2 DEF FindChat, database
<1>10. CASE CheckRecipient(r)
  <2>1. Await(r, "findChat") \/ Send(r, "USER DOES NOT EXIST", <<>>)
    BY <1>10 DEF CheckRecipient
  <2>2. pc'[r] \in {"findChat", "done"} /\ \A s \in Requests \ {r} : pc'[s] = pc[s]
    BY <1>1, <1>2, <2>1
  <2> QED
    BY <1>10, <2>2 DEF CheckRecipient, database
<1>11. CASE AllocateChatId(r)
  BY <1>1, <1>11 DEF AllocateChatId, database
<1>12. CASE PushMessage(r)
  BY <1>1, <1>3, <1>12 DEF PushMessage, AppendEntry
<1>13. CASE InsertChatId(r) \/ InsertMessages(r)
  BY <1>1, <1>13 DEF InsertChatId, InsertMessages, AddChatId, AddLog
<1>14. CASE InsertRow(r)
  BY <1>2, <1>14 DEF InsertRow, AddRow
<1>15. CASE UpdatePreviews(r)
  <2>1. ASSUME NEW owner, NEW peer, NEW next, ReadRow(r, owner, peer, next)
        PROVE  /\ pc'[r] \in {next, "done"} /\ UNCHANGED users
               /\ \A s \in Requests \ {r} : pc'[s] = pc[s]
    BY <1>1, <1>3, <2>1 DEF ReadRow, database
  <2>2. CASE ReadSender(r) \/ ReadRecipient(r)
    BY <2>1, <2>2 DEF ReadSender, ReadRecipient
  <2>3. CASE WriteSender(r)
    BY <1>1, <1>3, <2>3 DEF WriteSender, SetRow
  <2>4. CASE WriteRecipient(r)
    BY <1>2, <1>3, <2>4 DEF WriteRecipient, SetRow
  <2> QED
    BY <1>15, <2>2, <2>3, <2>4 DEF UpdatePreviews
<1> QED
  BY <1>5, <1>6, <1>7, <1>8, <1>9, <1>10, <1>11, <1>12, <1>13, <1>14, <1>15
     DEF Step, getExistingUsernames, getUserChats, getUserChatMessages, sendMessage,
         sendNewMessage, addNewUser

LEMMA FetchEffect ==
    ASSUME TypeOK, NEW r \in Requests, NEW op, NEW name, Fetch(r, op, name)
    PROVE  /\ UNCHANGED <<users, reply>>
           /\ pc[r] = "idle" /\ pc'[r] = FirstCall(op)
           /\ call'[r].op = op /\ (op = "addNewUser" => call'[r].from = name)
           /\ \A s \in Requests \ {r} : pc'[s] = pc[s] /\ call'[s] = call[s]
<1>1. PICK c \in Calls : call' = [call EXCEPT ![r] = c] /\ Await(r, FirstCall(c.op))
  BY DEF Fetch, Receive
<1>2. c.op = op
  BY <1>1 DEF Fetch, TypeOK, RequestsOK
<1> QED
  BY <1>1, <1>2 DEF Fetch, Receive, Await, database, TypeOK, RequestsOK

\* What a step of the screens does to a request, but for an account's creation
Moves(r) ==
    \/ task'[r].step = task[r].step /\ pc'[r] = pc[r]
    \/ task[r].step = "unused" /\ task'[r].step = "creating" /\ pc'[r] = pc[r]
    \/ /\ task'[r].step \in {"listing", "posting", "ended"}
       /\ pc'[r] \in {pc[r], "listUsers"} \/ task[r].step = "naming"

LEMMA MovesCount ==
    ASSUME UsersInv, UNCHANGED users, \A r \in Requests : Moves(r),
           \/ UNCHANGED DOMAIN accounts
           \/ \E e : e \notin DOMAIN accounts /\ DOMAIN accounts' = DOMAIN accounts \cup {e}
    PROVE  UnsentInv' /\ CountInv'
<1>1. UnsentInv'
  BY DEF UsersInv, UnsentInv, Moves
<1>2. Pending' \subseteq Pending
  BY DEF Pending, Moves
<1>3. Len(users) \in Nat
  BY LenProperties DEF UsersInv, TypeOK, DatabaseOK
<1> QED
  BY <1>1, <1>2, <1>3, CountKept DEF UsersInv

LEMMA ShowSignUpMoves ==
    ASSUME UsersInv, NEW d \in Devices, ShowSignUp(d)
    PROVE  UNCHANGED users /\ \A r \in Requests : Moves(r)
<1>1. CASE UNCHANGED <<server, task>>
  BY <1>1 DEF server, vars, Moves
<1>2. CASE screen[d] # "SignUp" /\ ~UNCHANGED <<server, task>>
  <2>1. PICK q \in Requests :
           /\ Fetch(q, "getExistingUsernames", None)
           /\ task' = [task EXCEPT ![q].step = "listing", ![q].device = d, ![q].on = q]
    BY <1>2 DEF ShowSignUp
  <2>2. task \in [Requests -> Task]
    BY DEF UsersInv, AccountsInv, ScreensOK
  <2>3. task'[q].step = "listing" /\ \A s \in Requests \ {q} : task'[s] = task[s]
    BY <2>1, <2>2 DEF Task
  <2>4. FirstCall("getExistingUsernames") = "listUsers"
    BY DEF FirstCall
  <2>5. /\ UNCHANGED users
        /\ pc'[q] = "listUsers"
        /\ \A s \in Requests \ {q} : pc'[s] = pc[s]
    BY <2>1, <2>4, FetchEffect DEF UsersInv
  <2> QED
    BY <2>3, <2>5 DEF Moves
<1> QED
  BY <1>1, <1>2 DEF ShowSignUp

LEMMA DeviceCounts ==
    ASSUME UsersInv, NEW d \in Devices, RestartApp(d) \/ DeviceStep(d)
    PROVE  UnsentInv' /\ CountInv'
<1>1. UNCHANGED accounts
  BY DEF RestartApp, DeviceStep, AuthStateChanged, ToLogin, ToSignUp, Type, CheckUsername,
         HandleLogin, LoginSucceeds, LoginFails, LogOut
<1>2. task \in [Requests -> Task]
  BY DEF UsersInv, AccountsInv, ScreensOK
<1>3. CASE UNCHANGED <<server, task>>
  <2>1. UNCHANGED users /\ \A r \in Requests : Moves(r)
    BY <1>3 DEF server, vars, Moves
  <2> QED
    BY <1>1, <2>1, MovesCount
<1>4. CASE ShowSignUp(d)
  BY <1>1, <1>4, ShowSignUpMoves, MovesCount
<1>5. CASE RestartApp(d)
  <2>1. \A r \in Requests : task'[r] \in {Ended, task[r]}
    BY <1>5 DEF RestartApp
  <2>2. UNCHANGED users /\ \A r \in Requests : Moves(r)
    BY <1>5, <2>1, EndedIsTask DEF RestartApp, server, vars, Moves
  <2> QED
    BY <1>1, <2>2, MovesCount
<1>6. CASE CheckUsername(d)
  <2> DEFINE new == [step |-> "creating", device |-> d, on |-> mounted[d],
                     email |-> form[mounted[d]].email, name |-> None]
  <2>1. PICK q \in Requests : Unused(q) /\ task' = [task EXCEPT ![q] = new]
    BY <1>6 DEF CheckUsername
  <2>2. new.step = "creating"
    OBVIOUS
  <2> HIDE DEF new
  <2>3. task'[q] = new /\ \A s \in Requests \ {q} : task'[s] = task[s]
    BY <1>2, <2>1
  <2>4. UNCHANGED users /\ \A r \in Requests : Moves(r)
    BY <1>6, <2>1, <2>2, <2>3 DEF CheckUsername, Unused, server, vars, Moves
  <2> QED
    BY <1>1, <2>4, MovesCount
<1> QED
  BY <1>3, <1>4, <1>5, <1>6
     DEF DeviceStep, AuthStateChanged, ToLogin, ToSignUp, Type, HandleLogin, LoginSucceeds,
         LoginFails, LogOut

LEMMA SignUpCounts ==
    ASSUME UsersInv, NEW r \in Requests, SignUpStep(r)
    PROVE  UnsentInv' /\ CountInv'
<1>1. task \in [Requests -> Task] /\ task[r] \in Task
  BY DEF UsersInv, AccountsInv, ScreensOK
<1>2. ASSUME UNCHANGED users, \A s \in Requests \ {r} : task'[s] = task[s] /\ pc'[s] = pc[s],
             task'[r].step \in {"posting", "ended"}, pc'[r] = pc[r] \/ task[r].step = "naming",
             \/ UNCHANGED DOMAIN accounts
             \/ \E e : e \notin DOMAIN accounts /\ DOMAIN accounts' = DOMAIN accounts \cup {e}
      PROVE  UnsentInv' /\ CountInv'
  <2>1. \A s \in Requests : Moves(s)
    BY <1>2 DEF Moves
  <2> QED
    BY <1>2, <2>1, MovesCount
<1>3. EndTask(r) => task'[r].step = "ended" /\ \A s \in Requests \ {r} : task'[s] = task[s]
  BY <1>1, EndedIsTask DEF EndTask
<1>4. UNCHANGED server => UNCHANGED users /\ UNCHANGED pc
  BY DEF server, vars
<1>5. SetDisplayName(r) => UNCHANGED DOMAIN accounts
  BY DEF SetDisplayName
<1>6. CASE UsernamesArrive(r) \/ FetchFails(r) \/ UserAdded(r)
  BY <1>2, <1>3, <1>4, <1>6 DEF UsernamesArrive, FetchFails, UserAdded
<1>7. CASE UpdateProfileFails(r)
  BY <1>2, <1>3, <1>4, <1>5, <1>7 DEF UpdateProfileFails
<1>8. CASE CreateFails(r)
  <2>1. CASE UNCHANGED accounts
    BY <1>2, <1>3, <1>4, <1>8, <2>1 DEF CreateFails
  <2>2. CASE task[r].email \notin DOMAIN accounts /\ accounts' = WithAccount(task[r].email)
    <3>1. DOMAIN accounts' = DOMAIN accounts \cup {task[r].email}
      BY <2>2 DEF WithAccount
    <3> QED
      BY <1>2, <1>3, <1>4, <1>8, <2>2, <3>1 DEF CreateFails
  <2> QED
    BY <1>8, <2>1, <2>2 DEF CreateFails
<1>9. CASE UpdateProfile(r)
  <2>1. CASE EndTask(r) /\ UNCHANGED server
    BY <1>2, <1>3, <1>4, <1>5, <1>9, <2>1 DEF UpdateProfile
  <2>2. CASE /\ Fetch(r, "addNewUser", form[task[r].on].username)
             /\ task' = [task EXCEPT ![r].step = "posting"]
    <3>1. task'[r].step = "posting" /\ \A s \in Requests \ {r} : task'[s] = task[s]
      BY <1>1, <2>2 DEF Task
    <3>2. UNCHANGED users /\ \A s \in Requests \ {r} : pc'[s] = pc[s]
      BY <2>2, FetchEffect DEF UsersInv
    <3> QED
      BY <1>2, <1>5, <1>9, <3>1, <3>2 DEF UpdateProfile
  <2> QED
    BY <1>9, <2>1, <2>2 DEF UpdateProfile
<1>10. CASE CreateAccount(r)
  <2>1. task'[r].step = "naming" /\ \A s \in Requests \ {r} : task'[s] = task[s]
    BY <1>1, <1>10 DEF CreateAccount, Task
  <2>2. UNCHANGED <<users, pc>> /\ task[r].step = "creating"
    BY <1>4, <1>10 DEF CreateAccount
  <2>3. UnsentInv'
    BY <2>1, <2>2 DEF UsersInv, UnsentInv
  <2>4. Pending' = Pending \cup {r}
    BY <2>1, <2>2 DEF Pending
  <2>5. /\ IsFiniteSet(Pending') /\ Cardinality(Pending) \in Nat
        /\ Cardinality(Pending') \in {Cardinality(Pending), Cardinality(Pending) + 1}
    BY <2>4, FS_AddElement, FS_CardinalityType DEF UsersInv, CountInv
  <2>6. /\ task[r].email \notin DOMAIN accounts
        /\ DOMAIN accounts' = DOMAIN accounts \cup {task[r].email}
    BY <1>10 DEF CreateAccount, WithAccount
  <2>7. /\ IsFiniteSet(DOMAIN accounts') /\ Cardinality(DOMAIN accounts) \in Nat
        /\ Cardinality(DOMAIN accounts') = Cardinality(DOMAIN accounts) + 1
    BY <2>6, FS_AddElement, FS_CardinalityType DEF UsersInv, CountInv
  <2>8. Len(users) \in Nat /\ Len(Registered) \in Nat
    BY LenProperties, RegisteredAssumption DEF UsersInv, TypeOK, DatabaseOK
  <2>9. Len(users') + Cardinality(Pending')
            <= Len(Registered) + Cardinality(DOMAIN accounts')
    BY <2>2, <2>5, <2>7, <2>8 DEF UsersInv, CountInv
  <2> QED
    BY <2>3, <2>5, <2>7, <2>9 DEF CountInv
<1> QED
  BY <1>6, <1>7, <1>8, <1>9, <1>10 DEF SignUpStep

LEMMA ServerCounts ==
    ASSUME UsersInv, ServerStep
    PROVE  UnsentInv' /\ CountInv'
<1>1. UNCHANGED <<accounts, task>>
  BY DEF ServerStep
<1>2. CASE Crash
  <2>1. \A r \in Requests : pc'[r] \in {pc[r], "lost"} /\ (pc[r] = "idle" => pc'[r] = "idle")
    BY <1>2 DEF Crash, Running, ReadCalls, WriteCalls
  <2>2. UnsentInv' /\ Pending' \subseteq Pending
    BY <1>1, <2>1 DEF UsersInv, UnsentInv, Pending
  <2>3. UNCHANGED users /\ Len(users) \in Nat
    BY <1>2, LenProperties DEF Crash, database, UsersInv, TypeOK, DatabaseOK
  <2> QED
    BY <1>1, <2>2, <2>3, CountKept DEF UsersInv
<1>3. ASSUME NEW r \in Requests, Step(r) \/ CallFails(r) \/ AckLost(r)
      PROVE  UnsentInv' /\ CountInv'
  <2>1. /\ pc[r] # "idle" /\ pc'[r] \notin {"idle", "insertUser"}
        /\ \A s \in Requests \ {r} : pc'[s] = pc[s]
    BY <1>3, StepAddsUser DEF UsersInv
  <2>2. UnsentInv'
    BY <1>1, <2>1 DEF UsersInv, UnsentInv
  <2>3. Pending' \subseteq Pending
    BY <1>1, <2>1 DEF Pending
  <2>4. Len(users) \in Nat /\ Len(Registered) \in Nat
    BY LenProperties, RegisteredAssumption DEF UsersInv, TypeOK, DatabaseOK
  <2>5. CASE UNCHANGED users
    BY <1>1, <2>2, <2>3, <2>4, <2>5, CountKept DEF UsersInv
  <2>6. CASE pc[r] = "insertUser" /\ Len(users') = Len(users) + 1
    <3>1. task[r].step # "naming"
      BY <2>6 DEF UsersInv, UnsentInv
    <3>2. Pending' = Pending \ {r} /\ r \in Pending
      BY <1>1, <2>1, <2>6, <3>1 DEF Pending
    <3>3. /\ IsFiniteSet(Pending') /\ Cardinality(Pending) \in Nat
          /\ Cardinality(Pending') = Cardinality(Pending) - 1
      BY <3>2, FS_RemoveElement, FS_CardinalityType DEF UsersInv, CountInv
    <3>4. Cardinality(DOMAIN accounts) \in Nat
      BY FS_CardinalityType DEF UsersInv, CountInv
    <3>5. Len(users') + Cardinality(Pending')
              <= Len(Registered) + Cardinality(DOMAIN accounts')
      BY <1>1, <2>4, <2>6, <3>3, <3>4 DEF UsersInv, CountInv
    <3> QED
      BY <1>1, <2>2, <3>3, <3>5 DEF UsersInv, CountInv
  <2> QED
    BY <1>3, <2>5, <2>6, StepAddsUser DEF UsersInv
<1> QED
  BY <1>2, <1>3 DEF ServerStep

LEMMA UsersInvStep ==
    ASSUME UsersInv, [AccountsNext]_accountVars
    PROVE  UsersInv'
<1>1. AccountsInv' /\ TypeOK'
  BY AccountsInvStep, StepOfServer, TypeStep DEF UsersInv
<1>2. CASE UNCHANGED accountVars
  <2>1. UNCHANGED <<users, pc, task, accounts>>
    BY <1>2 DEF accountVars, vars
  <2>2. UnsentInv' /\ CountInv'
    BY <2>1 DEF UsersInv, UnsentInv, CountInv, Pending
  <2> QED
    BY <1>1, <2>2 DEF UsersInv
<1>3. CASE AccountsNext
  <2>1. \/ \E d \in Devices : RestartApp(d) \/ DeviceStep(d)
        \/ \E r \in Requests : SignUpStep(r)
        \/ ServerStep
    BY <1>3 DEF AccountsNext
  <2>2. UnsentInv' /\ CountInv'
    BY <2>1, DeviceCounts, SignUpCounts, ServerCounts
  <2> QED
    BY <1>1, <2>2 DEF UsersInv
<1> QED
  BY <1>1, <1>2, <1>3 DEF UsersInv

\* The server gets at most one user for every account, whatever fails in between
\* and however often the button is pressed: a sign-up posts only for an account
\* that it has created itself, and posts once.
THEOREM OneUserEach == AccountsSpec => []OneUserPerAccount
<1>1. AccountsInit => UsersInv
  BY UsersInvInit
<1>2. UsersInv /\ [AccountsNext]_accountVars => UsersInv'
  BY UsersInvStep
<1>3. UsersInv => OneUserPerAccount
  <2> SUFFICES ASSUME UsersInv
               PROVE  OneUserPerAccount
    OBVIOUS
  <2>1. /\ Cardinality(Pending) \in Nat /\ Cardinality(DOMAIN accounts) \in Nat
        /\ Len(users) \in Nat /\ Len(Registered) \in Nat
    BY FS_CardinalityType, LenProperties, RegisteredAssumption
       DEF UsersInv, CountInv, TypeOK, DatabaseOK
  <2> QED
    BY <2>1 DEF OneUserPerAccount, UsersInv, CountInv
<1> QED
  BY <1>1, <1>2, <1>3, PTL DEF AccountsSpec

----------------------------------------------------------------------------
(* Types                                                                   *)

\* A list of usernames that the server sends is a list of names.
UsernamesOf(r) ==
    call[r].op = "getExistingUsernames" =>
        /\ pc[r] \in {"listUsers", "done", "lost"}
        /\ reply[r].status = "SUCCESS" => reply[r].body \in Seq(Names)

ScreenTypes ==
    /\ session \in [Devices -> Emails \cup {None}]
    /\ events \in [Devices -> Seq(BOOLEAN)]
    /\ screen \in [Devices -> Screens]
    /\ existing \in [Requests -> SUBSET Names]
    /\ listName \in [Devices -> Names \cup {None}]
    /\ login \in [Devices -> [Emails -> 0..MaxLogins]]

\* Whoever is signed in has an account.
AccountTypes ==
    /\ DOMAIN accounts \subseteq Emails
    /\ \A e \in DOMAIN accounts : accounts[e] \in Names \cup {None}
    /\ \A d \in Devices : session[d] # None => session[d] \in DOMAIN accounts

\* What a task that goes on has been started with
TaskOf(r) ==
    Active(r) =>
        /\ task[r].device \in Devices
        /\ task[r].step = "creating" => task[r].email \in Emails
        /\ task[r].step = "listing" => call[r].op = "getExistingUsernames"

TypesInv ==
    ScreenTypes /\ AccountTypes /\ \A r \in Requests : TaskOf(r) /\ UsernamesOf(r)

Known == TypesInv /\ AccountsInv /\ VisibleInv

LEMMA TypesInvInit ==
    ASSUME AccountsInit
    PROVE  TypesInv
<1>1. <<FALSE>> \in Seq(BOOLEAN)
  OBVIOUS
<1>2. ScreenTypes
  BY <1>1, LoginsAssumption DEF AccountsInit, ScreenTypes, Screens, NoLogin
<1>3. AccountTypes
  BY DEF AccountsInit, AccountTypes
<1>4. \A r \in Requests : TaskOf(r)
  BY DEF AccountsInit, TaskOf, Active, NoTask
<1>5. \A r \in Requests : UsernamesOf(r)
  BY DEF AccountsInit, Init, Idle, NoCall, UsernamesOf
<1> QED
  BY <1>2, <1>3, <1>4, <1>5 DEF TypesInv

\* A call stays what it is, and so does the answer to it.
LEMMA UsernamesStep ==
    ASSUME VisibleInv, [Next]_vars, NEW r \in Requests, UsernamesOf(r)
    PROVE  /\ UsernamesOf(r)'
           /\ pc[r] # "idle" => call'[r] = call[r]
<1>1. TypeOK /\ (pc[r] = "idle" => reply[r].status = "none")
  BY DEF VisibleInv, RequestInv, ControlOf
<1>2. ASSUME UNCHANGED <<call[r], reply[r]>>, pc'[r] = pc[r] \/ pc'[r] = "lost"
      PROVE  UsernamesOf(r)' /\ call'[r] = call[r]
  BY <1>2 DEF UsernamesOf
<1>3. CASE Receive(r)
  <2>1. PICK c \in Calls : call' = [call EXCEPT ![r] = c] /\ Await(r, FirstCall(c.op))
    BY <1>3 DEF Receive
  <2>2. /\ pc[r] = "idle"
        /\ call'[r] = c /\ pc'[r] = FirstCall(c.op) /\ reply'[r] = reply[r]
    BY <1>1, <1>3, <2>1, AwaitFacts DEF Receive, TypeOK, RequestsOK
  <2>3. FirstCall("getExistingUsernames") = "listUsers"
    BY DEF FirstCall
  <2> QED
    BY <1>1, <2>2, <2>3 DEF UsernamesOf
<1>4. CASE Step(r) \/ CallFails(r) \/ AckLost(r)
  <2>1. UNCHANGED call
    BY <1>4 DEF Step, getExistingUsernames, getUserChats, getUserChatMessages, sendMessage,
                sendNewMessage, addNewUser, UpdatePreviews, ListUsernames, FindChats, FindChat,
                FindMessages, CheckRecipient, PushMessage, AllocateChatId, InsertChatId,
                InsertMessages, ReadSender, WriteSender, ReadRecipient, WriteRecipient, ReadRow,
                InsertUser, InsertRow, CallFails, AckLost
  <2>2. SUFFICES ASSUME call[r].op = "getExistingUsernames"
                 PROVE  /\ pc'[r] = "done"
                        /\ reply'[r].status = "SUCCESS" => reply'[r].body \in Seq(Names)
    BY <2>1 DEF UsernamesOf
  <2>3. pc[r] \in {"listUsers", "done", "lost"}
    BY <2>2 DEF UsernamesOf
  <2>4. CASE CallFails(r) \/ AckLost(r)
    <3>1. SendError(r)
      BY <2>4 DEF CallFails, AckLost
    <3> QED
      BY <1>1, <3>1, SendFacts DEF SendError
  <2>5. CASE Step(r)
    <3>1. ListUsernames(r)
      BY <2>2, <2>3, <2>5
         DEF Step, getExistingUsernames, getUserChats, getUserChatMessages, sendMessage,
             sendNewMessage, addNewUser, FindChats, InsertUser, InsertRow
    <3>2. Send(r, "SUCCESS", users)
      BY <3>1 DEF ListUsernames
    <3> QED
      BY <1>1, <3>2, SendFacts DEF TypeOK, DatabaseOK
  <2> QED
    BY <1>4, <2>4, <2>5
<1>5. ASSUME NEW s \in Requests, s # r, Receive(s) \/ Step(s) \/ CallFails(s) \/ AckLost(s)
      PROVE  UNCHANGED <<call[r], reply[r], pc[r]>>
  <2>1. CASE Receive(s) \/ CallFails(s) \/ AckLost(s)
    BY <1>1, <1>5, <2>1
       DEF Receive, Await, CallFails, AckLost, SendError, Send, TypeOK, RequestsOK
  <2>2. CASE Step(s)
    BY <1>1, <1>5, <2>2, StepIsLocal
  <2> QED
    BY <1>5, <2>1, <2>2
<1>6. CASE Crash
  <2>1. pc'[r] = pc[r] \/ pc'[r] = "lost"
    BY <1>6 DEF Crash
  <2> QED
    BY <1>2, <1>6, <2>1 DEF Crash
<1>7. CASE Tick \/ UNCHANGED vars
  BY <1>2, <1>7 DEF Tick, vars
<1>8. CASE \E s \in Requests : Receive(s) \/ Step(s) \/ CallFails(s) \/ AckLost(s)
  <2>1. PICK s \in Requests : Receive(s) \/ Step(s) \/ CallFails(s) \/ AckLost(s)
    BY <1>8
  <2>2. CASE s = r
    BY <1>3, <1>4, <2>1, <2>2
  <2>3. CASE s # r
    BY <1>2, <1>5, <2>1, <2>3
  <2> QED
    BY <2>2, <2>3
<1> QED
  BY <1>6, <1>7, <1>8 DEF Next

LEMMA TaskStays ==
    ASSUME Known, [Next]_vars, NEW r \in Requests,
           task'[r] = task[r] \/ task'[r].step = "ended"
    PROVE  TaskOf(r)'
<1>1. TaskOf(r) /\ UsernamesOf(r) /\ VisibleInv
  BY DEF Known, TypesInv
<1>2. pc[r] # "idle" => call'[r] = call[r]
  BY <1>1, UsernamesStep
<1> QED
  BY <1>1, <1>2 DEF TaskOf, UsernamesOf, Active

LEMMA ShowMainTypes ==
    ASSUME ScreenTypes, AccountTypes', UNCHANGED accounts, NEW d \in Devices, ShowMain(d)
    PROVE  screen' \in [Devices -> Screens] /\ listName' \in [Devices -> Names \cup {None}]
<1>1. DisplayName(d) \in Names \cup {None}
  BY DEF DisplayName, AccountTypes
<1>2. screen' \in [Devices -> Screens]
  BY DEF ShowMain, ScreenTypes, Screens
<1>3. listName' \in [Devices -> Names \cup {None}]
  BY <1>1 DEF ShowMain, ScreenTypes
<1> QED
  BY <1>2, <1>3

LEMMA ShowSignUpTypes ==
    ASSUME Known, [Next]_vars, NEW d \in Devices, ShowSignUp(d)
    PROVE  /\ screen' \in [Devices -> Screens]
           /\ listName' \in [Devices -> Names \cup {None}]
           /\ \A r \in Requests : TaskOf(r)'
<1>1. ScreenTypes /\ task \in [Requests -> Task]
  BY DEF Known, TypesInv, AccountsInv, ScreensOK
<1>2. CASE UNCHANGED <<screen, listName, task>>
  BY <1>1, <1>2, TaskStays DEF ScreenTypes
<1>3. CASE screen[d] # "SignUp" /\ ~UNCHANGED <<screen, listName, task>>
  <2>1. PICK q \in Requests :
           /\ Fetch(q, "getExistingUsernames", None)
           /\ task' = [task EXCEPT ![q].step = "listing", ![q].device = d, ![q].on = q]
    BY <1>3 DEF ShowSignUp
  <2>2. /\ task'[q].step = "listing" /\ task'[q].device = d
        /\ \A s \in Requests \ {q} : task'[s] = task[s]
    BY <1>1, <2>1 DEF Task
  <2>3. TaskOf(q)'
    BY <2>1, <2>2 DEF Fetch, TaskOf
  <2>4. \A s \in Requests \ {q} : TaskOf(s)'
    BY <2>2, TaskStays
  <2>5. /\ screen' = [screen EXCEPT ![d] = "SignUp"]
        /\ listName' = [listName EXCEPT ![d] = None]
    BY <1>3 DEF ShowSignUp
  <2> QED
    BY <1>1, <2>3, <2>4, <2>5 DEF ScreenTypes, Screens
<1> QED
  BY <1>2, <1>3 DEF ShowSignUp

\* A login that is settled has been in progress; when it was the only one, none is
\* left.
LEMMA LoginSettled ==
    ASSUME ScreenTypes, NEW d \in Devices, NEW e \in Emails, LoginEnds(d, e)
    PROVE  /\ LoggingIn(d)
           /\ login' \in [Devices -> [Emails -> 0..MaxLogins]]
           /\ \A x \in Devices \ {d} : login'[x] = login[x]
           /\ OneLogin(d) => ~LoggingIn(d)'
<1>1. /\ login \in [Devices -> [Emails -> 0..MaxLogins]] /\ MaxLogins \in Nat
      /\ login[d] \in [Emails -> 0..MaxLogins] /\ login[d][e] \in 0..MaxLogins
  BY LoginsAssumption DEF ScreenTypes
<1>2. /\ login[d][e] > 0 /\ login[d][e] - 1 \in 0..MaxLogins
      /\ login' = [login EXCEPT ![d] = [login[d] EXCEPT ![e] = login[d][e] - 1]]
  BY <1>1 DEF LoginEnds
<1>3. /\ login'[d][e] = login[d][e] - 1
      /\ \A f \in Emails \ {e} : login'[d][f] = login[d][f]
  BY <1>1, <1>2
<1>4. ASSUME OneLogin(d), NEW f \in Emails
      PROVE  ~(login'[d][f] > 0)
  BY <1>2, <1>3, <1>4 DEF OneLogin
<1> QED
  BY <1>1, <1>2, <1>4 DEF LoggingIn

\* A login that is begun is in progress.
LEMMA LoginBegun ==
    ASSUME ScreenTypes, NEW d \in Devices, HandleLogin(d)
    PROVE  /\ LoggingIn(d)'
           /\ login' \in [Devices -> [Emails -> 0..MaxLogins]]
           /\ \A x \in Devices \ {d} : login'[x] = login[x]
<1>1. PICK e \in Emails :
         /\ login[d][e] < MaxLogins
         /\ login' = [login EXCEPT ![d] = [login[d] EXCEPT ![e] = login[d][e] + 1]]
  BY DEF HandleLogin
<1>2. /\ login \in [Devices -> [Emails -> 0..MaxLogins]] /\ MaxLogins \in Nat
      /\ login[d] \in [Emails -> 0..MaxLogins] /\ login[d][e] \in 0..MaxLogins
  BY LoginsAssumption DEF ScreenTypes
<1>3. login[d][e] + 1 \in 0..MaxLogins /\ login[d][e] + 1 > 0
  BY <1>1, <1>2
<1>4. login'[d][e] > 0
  BY <1>1, <1>2, <1>3
<1> QED
  BY <1>1, <1>2, <1>3, <1>4 DEF LoggingIn

LEMMA DeviceTypes ==
    ASSUME Known, [Next]_vars, NEW d \in Devices, RestartApp(d) \/ DeviceStep(d)
    PROVE  ScreenTypes' /\ AccountTypes' /\ \A r \in Requests : TaskOf(r)'
<1>1. ScreenTypes /\ AccountTypes /\ task \in [Requests -> Task]
  BY DEF Known, TypesInv, AccountsInv, ScreensOK
<1>2. \A e \in Seq(BOOLEAN) : \A b \in BOOLEAN :
          Append(e, b) \in Seq(BOOLEAN) /\ <<b>> \in Seq(BOOLEAN)
  OBVIOUS
<1>3. \A e \in Seq(BOOLEAN) : e # <<>> => Tail(e) \in Seq(BOOLEAN)
  OBVIOUS
<1>4. UNCHANGED task => \A r \in Requests : TaskOf(r)'
  BY TaskStays
<1>5. CASE AuthStateChanged(d)
  <2>1. AccountTypes'
    BY <1>1, <1>5 DEF AuthStateChanged, AccountTypes
  <2>2. events' \in [Devices -> Seq(BOOLEAN)]
    BY <1>1, <1>3, <1>5 DEF AuthStateChanged, ScreenTypes
  <2>3. UNCHANGED <<accounts, session, existing, login>>
    BY <1>5 DEF AuthStateChanged
  <2>4. CASE ShowMain(d) /\ UNCHANGED task
    BY <1>1, <1>4, <2>1, <2>2, <2>3, <2>4, ShowMainTypes DEF ScreenTypes
  <2>5. CASE ShowSignUp(d)
    BY <1>1, <2>1, <2>2, <2>3, <2>5, ShowSignUpTypes DEF ScreenTypes
  <2> QED
    BY <1>5, <2>4, <2>5 DEF AuthStateChanged
<1>6. CASE ToLogin(d)
  BY <1>1, <1>4, <1>6 DEF ToLogin, ScreenTypes, AccountTypes, Screens
<1>7. CASE ToSignUp(d)
  <2>1. UNCHANGED <<accounts, session, events, existing, login>> /\ ShowSignUp(d)
    BY <1>7 DEF ToSignUp
  <2> QED
    BY <1>1, <2>1, ShowSignUpTypes DEF ScreenTypes, AccountTypes
<1>8. CASE Type(d)
  BY <1>1, <1>4, <1>8 DEF Type, ScreenTypes, AccountTypes
<1>9. CASE CheckUsername(d)
  <2> DEFINE new == [step |-> "creating", device |-> d, on |-> mounted[d],
                     email |-> form[mounted[d]].email, name |-> None]
  <2>1. PICK q \in Requests : task' = [task EXCEPT ![q] = new]
    BY <1>9 DEF CheckUsername
  <2>2. form[mounted[d]] \in Form /\ form[mounted[d]].email # None
    BY <1>9 DEF CheckUsername, Known, AccountsInv, ScreensOK
  <2>3. new.step = "creating" /\ new.device = d /\ new.email \in Emails
    BY <2>2 DEF Form
  <2> HIDE DEF new
  <2>4. task'[q] = new /\ \A s \in Requests \ {q} : task'[s] = task[s]
    BY <1>1, <2>1
  <2>5. TaskOf(q)'
    BY <2>3, <2>4 DEF TaskOf
  <2>6. \A s \in Requests \ {q} : TaskOf(s)'
    BY <2>4, TaskStays
  <2>7. UNCHANGED <<accounts, session, events, screen, existing, listName, login>>
    BY <1>9 DEF CheckUsername, screens
  <2> QED
    BY <1>1, <2>5, <2>6, <2>7 DEF ScreenTypes, AccountTypes
<1>10. CASE HandleLogin(d) \/ LoginFails(d)
  <2>1. login' \in [Devices -> [Emails -> 0..MaxLogins]]
    BY <1>1, <1>10, LoginBegun, LoginSettled DEF LoginFails
  <2>2. UNCHANGED <<accounts, session, events, screen, existing, listName, task>>
    BY <1>10 DEF HandleLogin, LoginFails
  <2> QED
    BY <1>1, <1>4, <2>1, <2>2 DEF ScreenTypes, AccountTypes
<1>11. CASE LoginSucceeds(d)
  <2>1. PICK e \in DOMAIN accounts :
           LoginEnds(d, e) /\ session' = [session EXCEPT ![d] = e]
    BY <1>11 DEF LoginSucceeds
  <2>2. e \in Emails /\ UNCHANGED <<accounts, existing, task>>
    BY <1>1, <1>11 DEF LoginSucceeds, AccountTypes
  <2>3. AccountTypes'
    BY <1>1, <2>1, <2>2 DEF AccountTypes, ScreenTypes
  <2>4. /\ events' \in [Devices -> Seq(BOOLEAN)]
        /\ login' \in [Devices -> [Emails -> 0..MaxLogins]]
    <3>1. events' \in [Devices -> Seq(BOOLEAN)]
      BY <1>1, <1>2, <1>11 DEF LoginSucceeds, ScreenTypes
    <3> QED
      BY <1>1, <2>1, <2>2, <3>1, LoginSettled
  <2>5. screen' \in [Devices -> Screens] /\ listName' \in [Devices -> Names \cup {None}]
    BY <1>1, <1>11, <2>2, <2>3, ShowMainTypes DEF LoginSucceeds
  <2> QED
    BY <1>1, <1>4, <2>1, <2>2, <2>3, <2>4, <2>5 DEF ScreenTypes
<1>12. CASE LogOut(d)
  <2>1. /\ session' = [session EXCEPT ![d] = None]
        /\ UNCHANGED <<accounts, screen, existing, listName, login, task>>
    BY <1>12 DEF LogOut, screens
  <2>2. events' \in [Devices -> Seq(BOOLEAN)]
    BY <1>1, <1>2, <1>12 DEF LogOut, ScreenTypes
  <2> QED
    BY <1>1, <1>4, <2>1, <2>2 DEF ScreenTypes, AccountTypes
<1>13. CASE RestartApp(d)
  <2>1. \A r \in Requests : task'[r] = task[r] \/ task'[r].step = "ended"
    BY <1>13, EndedIsTask DEF RestartApp
  <2>2. \A r \in Requests : TaskOf(r)'
    BY <2>1, TaskStays
  <2>3. events' \in [Devices -> Seq(BOOLEAN)]
    BY <1>1, <1>2, <1>13 DEF RestartApp, ScreenTypes
  <2>4. login' \in [Devices -> [Emails -> 0..MaxLogins]]
    BY <1>1, <1>13, LoginsAssumption DEF RestartApp, ScreenTypes, NoLogin
  <2> QED
    BY <1>1, <1>13, <2>2, <2>3, <2>4 DEF RestartApp, ScreenTypes, AccountTypes, Screens
<1> QED
  BY <1>5, <1>6, <1>7, <1>8, <1>9, <1>10, <1>11, <1>12, <1>13 DEF DeviceStep

LEMMA SignUpTypes ==
    ASSUME Known, [Next]_vars, NEW r \in Requests, Active(r), SignUpStep(r)
    PROVE  ScreenTypes' /\ AccountTypes' /\ \A s \in Requests : TaskOf(s)'
<1>1. /\ ScreenTypes /\ AccountTypes /\ TaskOf(r) /\ UsernamesOf(r)
      /\ task \in [Requests -> Task] /\ task[r] \in Task
      /\ task[r].device \in Devices /\ task[r].on \in Requests
  BY DEF Known, TypesInv, AccountsInv, ScreensOK, TaskOf
<1>2. ASSUME \A s \in Requests \ {r} : task'[s] = task[s],
             task'[r].step \in {"naming", "posting", "ended"},
             task'[r].device = task[r].device \/ task'[r].step = "ended"
      PROVE  \A s \in Requests : TaskOf(s)'
  <2>1. TaskOf(r)'
    BY <1>1, <1>2 DEF TaskOf, Active
  <2>2. \A s \in Requests \ {r} : TaskOf(s)'
    BY <1>2, TaskStays
  <2> QED
    BY <2>1, <2>2
<1>3. EndTask(r) => \A s \in Requests : TaskOf(s)'
  BY <1>1, <1>2, EndedIsTask DEF EndTask
<1>4. ASSUME task[r].email \in Emails, accounts' = WithAccount(task[r].email)
      PROVE  /\ DOMAIN accounts \cup {task[r].email} = DOMAIN accounts'
             /\ DOMAIN accounts' \subseteq Emails
             /\ \A e \in DOMAIN accounts' : accounts'[e] \in Names \cup {None}
  BY <1>1, <1>4 DEF AccountTypes, WithAccount
<1>5. SetDisplayName(r) /\ UNCHANGED session => AccountTypes'
  BY <1>1 DEF SetDisplayName, AccountTypes, Task
<1>6. UNCHANGED <<session, events, screens, existing>> => ScreenTypes'
  BY <1>1 DEF ScreenTypes, screens
<1>7. UNCHANGED <<accounts, session>> => AccountTypes'
  BY <1>1 DEF AccountTypes
<1>8. CASE UsernamesArrive(r)
  <2>1. ASSUME reply[r].status = "SUCCESS"
        PROVE  existing' \in [Requests -> SUBSET Names]
    <3>1. reply[r].body \in Seq(Names)
      BY <1>1, <1>8, <2>1 DEF UsernamesArrive, TaskOf, UsernamesOf, Active
    <3>2. ToSet(reply[r].body) \subseteq Names
      BY <3>1, LenProperties DEF ToSet
    <3>3. {Lower[u] : u \in ToSet(reply[r].body)} \in SUBSET Names
      BY <3>2, LowerAssumption
    <3>4. existing' = [existing EXCEPT ![task[r].on] =
                          {Lower[u] : u \in ToSet(reply[r].body)}]
      BY <1>8, <2>1 DEF UsernamesArrive
    <3> QED
      BY <1>1, <3>3, <3>4 DEF ScreenTypes
  <2>2. existing' \in [Requests -> SUBSET Names]
    BY <1>1, <1>8, <2>1 DEF UsernamesArrive, ScreenTypes
  <2>3. UNCHANGED <<accounts, session, events, screen, listName, login>> /\ EndTask(r)
    BY <1>8 DEF UsernamesArrive
  <2> QED
    BY <1>1, <1>3, <1>7, <2>2, <2>3 DEF ScreenTypes
<1>9. CASE FetchFails(r)
  BY <1>3, <1>6, <1>7, <1>9 DEF FetchFails, screens
<1>10. CASE CreateAccount(r)
  <2>1. task[r].step = "creating" /\ task[r].email \in Emails
    BY <1>1, <1>10 DEF CreateAccount, TaskOf, Active
  <2>2. /\ accounts' = WithAccount(task[r].email)
        /\ session' = [session EXCEPT ![task[r].device] = task[r].email]
        /\ events' = [events EXCEPT ![task[r].device] = Append(@, TRUE)]
        /\ UNCHANGED <<screen, existing, listName, login>>
    BY <1>10 DEF CreateAccount, screens
  <2>3. AccountTypes'
    BY <1>1, <1>4, <2>1, <2>2 DEF AccountTypes, ScreenTypes
  <2>4. session' \in [Devices -> Emails \cup {None}]
    BY <1>1, <2>1, <2>2 DEF ScreenTypes
  <2>5. events' \in [Devices -> Seq(BOOLEAN)]
    <3>1. \A e \in Seq(BOOLEAN) : Append(e, TRUE) \in Seq(BOOLEAN)
      OBVIOUS
    <3> QED
      BY <1>1, <2>2, <3>1 DEF ScreenTypes
  <2>6. /\ task'[r].step = "naming" /\ task'[r].device = task[r].device
        /\ \A s \in Requests \ {r} : task'[s] = task[s]
    BY <1>1, <1>10 DEF CreateAccount, Task
  <2> QED
    BY <1>1, <1>2, <2>2, <2>3, <2>4, <2>5, <2>6 DEF ScreenTypes
<1>11. CASE CreateFails(r)
  <2>1. task[r].email \in Emails
    BY <1>1, <1>11 DEF CreateFails, TaskOf, Active
  <2>2. accounts' = WithAccount(task[r].email) /\ UNCHANGED session => AccountTypes'
    BY <1>1, <1>4, <2>1 DEF AccountTypes
  <2>3. EndTask(r) /\ UNCHANGED <<session, events, screens>>
    BY <1>11 DEF CreateFails
  <2>4. UNCHANGED accounts \/ accounts' = WithAccount(task[r].email)
    BY <1>11 DEF CreateFails
  <2> QED
    BY <1>3, <1>6, <1>7, <2>2, <2>3, <2>4 DEF screens
<1>12. CASE UpdateProfileFails(r)
  BY <1>3, <1>5, <1>6, <1>7, <1>12 DEF UpdateProfileFails, screens
<1>13. CASE UpdateProfile(r)
  <2>1. SetDisplayName(r) /\ UNCHANGED <<session, events, screens>>
    BY <1>13 DEF UpdateProfile
  <2>2. CASE EndTask(r)
    BY <1>3, <1>5, <1>6, <2>1, <2>2 DEF screens
  <2>3. CASE task' = [task EXCEPT ![r].step = "posting"]
    <3>1. /\ task'[r].step = "posting" /\ task'[r].device = task[r].device
          /\ \A s \in Requests \ {r} : task'[s] = task[s]
      BY <1>1, <2>3 DEF Task
    <3> QED
      BY <1>2, <1>5, <1>6, <2>1, <3>1 DEF screens
  <2> QED
    BY <1>13, <2>2, <2>3 DEF UpdateProfile
<1>14. CASE UserAdded(r)
  <2>1. UNCHANGED <<accounts, session, events, existing, login>> /\ EndTask(r)
    BY <1>14 DEF UserAdded
  <2>2. AccountTypes'
    BY <1>7, <2>1
  <2>3. CASE ShowMain(task[r].device)
    BY <1>1, <1>3, <2>1, <2>2, <2>3, ShowMainTypes DEF ScreenTypes
  <2>4. CASE UNCHANGED <<screen, listName>>
    BY <1>1, <1>3, <2>1, <2>2, <2>4 DEF ScreenTypes
  <2> QED
    BY <1>14, <2>3, <2>4 DEF UserAdded
<1> QED
  BY <1>8, <1>9, <1>10, <1>11, <1>12, <1>13, <1>14 DEF SignUpStep

LEMMA TypesInvStep ==
    ASSUME Known, [AccountsNext]_accountVars
    PROVE  TypesInv'
<1>1. [Next]_vars
  BY StepOfServer
<1>2. \A r \in Requests : UsernamesOf(r)'
  BY <1>1, UsernamesStep DEF Known, TypesInv
<1>3. CASE ServerStep \/ UNCHANGED accountVars
  <2>1. UNCHANGED <<accounts, session, events, screen, existing, listName, login, task>>
    BY <1>3 DEF ServerStep, accountVars, screens
  <2>2. ScreenTypes' /\ AccountTypes'
    BY <2>1 DEF Known, TypesInv, ScreenTypes, AccountTypes
  <2>3. \A r \in Requests : TaskOf(r)'
    BY <1>1, <2>1, TaskStays
  <2> QED
    BY <1>2, <2>2, <2>3 DEF TypesInv
<1>4. ASSUME NEW d \in Devices, RestartApp(d) \/ DeviceStep(d)
      PROVE  TypesInv'
  BY <1>1, <1>2, <1>4, DeviceTypes DEF TypesInv
<1>5. ASSUME NEW r \in Requests, Active(r), SignUpStep(r)
      PROVE  TypesInv'
  BY <1>1, <1>2, <1>5, SignUpTypes DEF TypesInv
<1> QED
  BY <1>3, <1>4, <1>5 DEF AccountsNext

\* The devices, Firebase and the tasks in progress keep their types: above all, a
\* screen has only names from the server in its list, and whoever is signed in has
\* an account whose display name the message list can take.
THEOREM AccountTypesKept == AccountsSpec => []AccountsTypeOK
<1>1. AccountsInit => TypesInv
  BY TypesInvInit
<1>2. TypesInv /\ AccountsInv /\ VisibleInv /\ [AccountsNext]_accountVars => TypesInv'
  BY TypesInvStep DEF Known
<1>3. AccountsSpec => []VisibleInv
  BY AccountsUseServer, VisibleInvariant, PTL
<1>4. TypesInv /\ AccountsInv => AccountsTypeOK
  BY DEF TypesInv, ScreenTypes, AccountTypes, AccountsInv, ScreensOK, AccountsTypeOK, Task
<1> QED
  BY <1>1, <1>2, <1>3, <1>4, NamingInvariant, PTL DEF AccountsSpec

----------------------------------------------------------------------------
(* Careful users                                                           *)

CarefulNext == AccountsNext /\ Careful' /\ Patient

LEMMA CarefulIsAccounts == CarefulSpec => AccountsSpec
<1>1. [AccountsNext /\ Careful' /\ Patient]_accountVars => [AccountsNext]_accountVars
  OBVIOUS
<1> QED
  BY <1>1, PTL DEF CarefulSpec, AccountsSpec

LEMMA CarefulAlways == CarefulSpec => []Careful
<1>1. AccountsInit => Careful
  BY DEF AccountsInit, Careful, Active, NoTask, OneLogin, NoLogin
<1>2. Careful /\ UNCHANGED accountVars => Careful'
  <2> SUFFICES ASSUME Careful, UNCHANGED accountVars
               PROVE  Careful'
    OBVIOUS
  <2>1. UNCHANGED <<screen, task, login>>
    BY DEF accountVars, screens
  <2> QED
    BY <2>1 DEF Careful, Active, LoggingIn, OneLogin
<1>3. Careful /\ [AccountsNext /\ Careful' /\ Patient]_accountVars => Careful'
  BY <1>2
<1> QED
  BY <1>1, <1>3, PTL DEF CarefulSpec

\* What holds of the devices and the server whoever uses them
Held == Known /\ UsersInv

LEMMA HeldAlways == CarefulSpec => []Held
<1>1. AccountsInit => TypesInv /\ UsersInv
  BY TypesInvInit, UsersInvInit
<1>2. TypesInv /\ UsersInv /\ VisibleInv /\ [AccountsNext]_accountVars
          => TypesInv' /\ UsersInv'
  BY TypesInvStep, UsersInvStep DEF Known, UsersInv
<1>3. AccountsSpec => []VisibleInv
  BY AccountsUseServer, VisibleInvariant, PTL
<1>4. TypesInv /\ UsersInv /\ VisibleInv => Held
  BY DEF Held, Known, UsersInv
<1> QED
  BY <1>1, <1>2, <1>3, <1>4, CarefulIsAccounts, PTL DEF AccountsSpec

\* A task goes on for the same screen, with the name that is in its form, or ends.
TaskGoes(r) ==
    \/ task'[r] = task[r]
    \/ task'[r].step = "ended"
    \/ /\ task[r].step \in {"creating", "naming"}
       /\ task'[r].step \in {"naming", "posting"}
       /\ task'[r].device = task[r].device
       /\ task'[r].on = task[r].on
       /\ task'[r].email = task[r].email
       /\ task'[r].step = "naming" => task'[r].name = form[task[r].on].username
       /\ task'[r].step = "posting" => task[r].step = "naming"

\* Device d mounts the sign-up screen q; no other task is active then.
Shown(d, q) ==
    /\ task[q].step = "unused"
    /\ task'[q].step = "listing" /\ task'[q].device = d /\ task'[q].on = q
    /\ \A s \in Requests \ {q} : task'[s] = task[s] /\ ~Active(s)
    /\ mounted' = [mounted EXCEPT ![d] = q]
    /\ screen' = [screen EXCEPT ![d] = "SignUp"]
    /\ listName' = [listName EXCEPT ![d] = None]
    /\ Fetch(q, "getExistingUsernames", None)

\* Device d starts the sign-up q; no other task is active then.
Pressed(d, q) ==
    /\ task[q].step = "unused"
    /\ task'[q].step = "creating" /\ task'[q].device = d /\ task'[q].on = mounted[d]
    /\ \A s \in Requests \ {q} : task'[s] = task[s] /\ ~Active(s)
    /\ CheckUsername(d)

LEMMA ShownEffect ==
    ASSUME Held, Careful', NEW d \in Devices, ShowSignUp(d)
    PROVE  \/ screen[d] = "SignUp" /\ UNCHANGED <<server, screen, mounted, listName, task>>
           \/ screen[d] # "SignUp" /\ \E q \in Requests : Shown(d, q)
<1>1. CASE screen[d] = "SignUp"
  BY <1>1 DEF ShowSignUp
<1>2. CASE screen[d] # "SignUp"
  <2>1. PICK q \in Requests :
           /\ Unused(q)
           /\ Fetch(q, "getExistingUsernames", None)
           /\ task' = [task EXCEPT ![q].step = "listing", ![q].device = d, ![q].on = q]
           /\ mounted' = [mounted EXCEPT ![d] = q]
    BY <1>2 DEF ShowSignUp
  <2>2. task \in [Requests -> Task]
    BY DEF Held, Known, AccountsInv, ScreensOK
  <2>3. /\ task'[q].step = "listing" /\ task'[q].device = d /\ task'[q].on = q
        /\ \A s \in Requests \ {q} : task'[s] = task[s]
    BY <2>1, <2>2 DEF Task
  <2>4. \A s \in Requests \ {q} : ~Active(s)
    BY <2>3 DEF Careful, Active
  <2>5. /\ screen' = [screen EXCEPT ![d] = "SignUp"]
        /\ listName' = [listName EXCEPT ![d] = None]
    BY <1>2 DEF ShowSignUp
  <2> QED
    BY <1>2, <2>1, <2>3, <2>4, <2>5 DEF Shown, Unused
<1> QED
  BY <1>1, <1>2

LEMMA PressedEffect ==
    ASSUME Held, Careful', NEW d \in Devices, CheckUsername(d)
    PROVE  \E q \in Requests : Pressed(d, q)
<1> DEFINE new == [step |-> "creating", device |-> d, on |-> mounted[d],
                   email |-> form[mounted[d]].email, name |-> None]
<1>1. PICK q \in Requests : Unused(q) /\ task' = [task EXCEPT ![q] = new]
  BY DEF CheckUsername
<1>2. task \in [Requests -> Task]
  BY DEF Held, Known, AccountsInv, ScreensOK
<1>3. new.step = "creating" /\ new.device = d /\ new.on = mounted[d]
  OBVIOUS
<1> HIDE DEF new
<1>4. task'[q] = new /\ \A s \in Requests \ {q} : task'[s] = task[s]
  BY <1>1, <1>2
<1>5. \A s \in Requests \ {q} : ~Active(s)
  BY <1>3, <1>4 DEF Careful, Active
<1> QED
  BY <1>1, <1>3, <1>4, <1>5 DEF Pressed, Unused

LEMMA SignUpGoes ==
    ASSUME Held, NEW r \in Requests, SignUpStep(r)
    PROVE  /\ UNCHANGED <<mounted, form>>
           /\ TaskGoes(r)
           /\ \A s \in Requests \ {r} : task'[s] = task[s]
<1>1. task \in [Requests -> Task] /\ task[r] \in Task
  BY DEF Held, Known, AccountsInv, ScreensOK
<1>2. EndTask(r) => TaskGoes(r) /\ \A s \in Requests \ {r} : task'[s] = task[s]
  BY <1>1, EndedIsTask DEF EndTask, TaskGoes
<1>3. CASE CreateAccount(r)
  <2> DEFINE new == [[task[r] EXCEPT !.step = "naming"]
                        EXCEPT !.name = form[task[r].on].username]
  <2>1. /\ new.step = "naming" /\ new.device = task[r].device /\ new.on = task[r].on
        /\ new.email = task[r].email /\ new.name = form[task[r].on].username
    BY <1>1 DEF Task
  <2>2. task' = [task EXCEPT ![r] = new]
    BY <1>1, <1>3 DEF CreateAccount
  <2> HIDE DEF new
  <2>3. task'[r] = new /\ \A s \in Requests \ {r} : task'[s] = task[s]
    BY <1>1, <2>2
  <2> QED
    BY <1>3, <2>1, <2>3 DEF CreateAccount, screens, TaskGoes
<1>4. CASE UpdateProfile(r)
  <2>1. CASE EndTask(r)
    BY <1>2, <1>4, <2>1 DEF UpdateProfile, screens
  <2>2. CASE task' = [task EXCEPT ![r].step = "posting"]
    <3>1. /\ task'[r].step = "posting" /\ task'[r].device = task[r].device
          /\ task'[r].on = task[r].on /\ task'[r].email = task[r].email
          /\ \A s \in Requests \ {r} : task'[s] = task[s]
      BY <1>1, <2>2 DEF Task
    <3> QED
      BY <1>1, <1>4, <3>1 DEF UpdateProfile, screens, TaskGoes
  <2> QED
    BY <1>4, <2>1, <2>2 DEF UpdateProfile
<1> QED
  BY <1>2, <1>3, <1>4 DEF SignUpStep, UsernamesArrive, CreateFails, UpdateProfileFails,
                          UserAdded, FetchFails, screens

LEMMA DeviceGoes ==
    ASSUME Held, Careful', NEW d \in Devices, RestartApp(d) \/ DeviceStep(d)
    PROVE  \/ /\ UNCHANGED <<server, mounted>>
              /\ \A r \in Requests : task'[r] = task[r] \/ task'[r].step = "ended"
           \/ \E q \in Requests : Shown(d, q)
           \/ UNCHANGED <<server, mounted>> /\ \E q \in Requests : Pressed(d, q)
<1>1. UNCHANGED task => \A r \in Requests : task'[r] = task[r]
  OBVIOUS
<1>2. CASE RestartApp(d)
  <2>1. \A r \in Requests : task'[r] \in {Ended, task[r]}
    BY <1>2 DEF RestartApp
  <2> QED
    BY <1>2, <2>1, EndedIsTask DEF RestartApp
<1>3. CASE ShowSignUp(d)
  BY <1>1, <1>3, ShownEffect
<1>4. CASE CheckUsername(d)
  BY <1>4, PressedEffect DEF CheckUsername, screens
<1> QED
  BY <1>1, <1>2, <1>3, <1>4
     DEF DeviceStep, AuthStateChanged, ToLogin, ToSignUp, Type, HandleLogin, LoginSucceeds,
         LoginFails, LogOut, screens

----------------------------------------------------------------------------
(* The form that a task reads                                              *)

\* A task belongs to the sign-up screen that its device has mounted last.
OnInv ==
    \A r \in Requests : Active(r) => task[r].on = mounted[task[r].device]

\* The name of an account is the one in the form, and so is the user's that the
\* server is asked to add.
NamedInv ==
    /\ \A r \in Requests :
          task[r].step = "naming" => task[r].name = form[task[r].on].username
    /\ \A r \in Requests :
          pc[r] = "insertUser" => \E e \in Named : accounts[e] = call[r].from
    /\ UsersHaveAccounts

CopiedInv == OnInv /\ NamedInv

LEMMA CopiedInit ==
    ASSUME AccountsInit
    PROVE  CopiedInv
<1>1. \A r \in Requests : task[r].step = "unused" /\ pc[r] = "idle"
  BY DEF AccountsInit, Init, Idle, NoTask
<1>2. ToSet(users) \ ToSet(Registered) = {}
  BY DEF AccountsInit, Init
<1> QED
  BY <1>1, <1>2 DEF CopiedInv, OnInv, NamedInv, UsersHaveAccounts, Active

\* Nobody types into a form that a task still reads.
LEMMA FormStays ==
    ASSUME Held, OnInv, [Patient]_accountVars, NEW r \in Requests, Active(r)
    PROVE  form'[task[r].on] = form[task[r].on]
<1>1. task[r].on \in Requests /\ task[r].device \in Devices
  BY DEF Held, Known, AccountsInv, ScreensOK, TypesInv, TaskOf
<1>2. CASE Patient
  <2>1. Busy(task[r].device)
    BY DEF Busy
  <2>2. mounted[task[r].device] = task[r].on /\ task[r].on # None
    BY <1>1, NoneAssumption DEF OnInv
  <2> QED
    BY <1>1, <1>2, <2>1, <2>2 DEF Patient
<1>3. CASE UNCHANGED accountVars
  BY <1>3 DEF accountVars, screens
<1> QED
  BY <1>2, <1>3

LEMMA AppendAddsOne ==
    ASSUME NEW S, NEW s \in Seq(S), NEW e \in S
    PROVE  ToSet(Append(s, e)) = ToSet(s) \cup {e}
<1> DEFINE t == Append(s, e)
<1>1. /\ t \in Seq(S) /\ Len(t) = Len(s) + 1 /\ Len(s) \in Nat
      /\ \A i \in 1..Len(s) : t[i] = s[i]
      /\ t[Len(s) + 1] = e
  BY AppendFacts, LenProperties
<1>2. DOMAIN t = 1..(Len(s) + 1) /\ DOMAIN s = 1..Len(s)
  BY <1>1, LenProperties
<1> HIDE DEF t
<1>3. ToSet(t) = ToSet(s) \cup {e}
  BY <1>1, <1>2 DEF ToSet
<1> QED
  BY <1>3 DEF t

\* What the devices may ask of the server
Asks ==
    /\ UNCHANGED <<users, reply>>
    /\ \A r \in Requests :
          \/ pc'[r] = pc[r] /\ call'[r] = call[r]
          \/ pc'[r] = "listUsers"

LEMMA DeviceAsks ==
    ASSUME Held, Careful', NEW d \in Devices, RestartApp(d) \/ DeviceStep(d)
    PROVE  Asks
<1>1. ASSUME UNCHANGED server
      PROVE  Asks
  BY <1>1 DEF server, vars, Asks
<1>2. ASSUME NEW q \in Requests, Fetch(q, "getExistingUsernames", None)
      PROVE  Asks
  <2>1. FirstCall("getExistingUsernames") = "listUsers"
    BY DEF FirstCall
  <2> QED
    BY <1>2, <2>1, FetchEffect DEF Held, UsersInv, Asks
<1> QED
  BY <1>1, <1>2, DeviceGoes DEF Shown

LEMMA OnInvStep ==
    ASSUME Held, OnInv, [CarefulNext]_accountVars
    PROVE  OnInv'
<1>1. ASSUME UNCHANGED mounted, \A r \in Requests : TaskGoes(r)
      PROVE  OnInv'
  BY <1>1 DEF OnInv, TaskGoes, Active
<1>2. ASSUME NEW d \in Devices, RestartApp(d) \/ DeviceStep(d), Careful'
      PROVE  OnInv'
  <2>1. CASE \E q \in Requests : Shown(d, q)
    <3>1. PICK q \in Requests : Shown(d, q)
      BY <2>1
    <3>2. mounted'[d] = q
      BY <3>1 DEF Shown, Held, Known, AccountsInv, ScreensOK
    <3> QED
      BY <3>1, <3>2 DEF Shown, OnInv, Active
  <2>2. CASE UNCHANGED mounted /\ \E q \in Requests : Pressed(d, q)
    BY <2>2 DEF Pressed, OnInv, Active
  <2> QED
    BY <1>1, <1>2, <2>1, <2>2, DeviceGoes DEF TaskGoes
<1>3. ASSUME NEW r \in Requests, SignUpStep(r)
      PROVE  OnInv'
  <2>1. \A s \in Requests : TaskGoes(s)
    BY <1>3, SignUpGoes DEF TaskGoes
  <2> QED
    BY <1>1, <1>3, <2>1, SignUpGoes
<1>4. CASE ServerStep \/ UNCHANGED accountVars
  BY <1>1, <1>4 DEF ServerStep, accountVars, screens, TaskGoes
<1> QED
  BY <1>2, <1>3, <1>4 DEF CarefulNext, AccountsNext

\* The name in the form when the account was created is the one in the form now.
LEMMA NamingStays ==
    ASSUME Held, CopiedInv, [CarefulNext]_accountVars,
           NEW r \in Requests, task'[r].step = "naming"
    PROVE  task'[r].name = form'[task'[r].on].username
<1>1. [Patient]_accountVars
  BY DEF CarefulNext
<1>2. ASSUME TaskGoes(r)
      PROVE  task'[r].name = form'[task'[r].on].username
  BY <1>1, <1>2, FormStays DEF TaskGoes, CopiedInv, NamedInv, Active
<1>3. ASSUME NEW d \in Devices, RestartApp(d) \/ DeviceStep(d), Careful'
      PROVE  TaskGoes(r)
  <2>1. ASSUME NEW q \in Requests, Shown(d, q) \/ Pressed(d, q)
        PROVE  TaskGoes(r)
    BY <2>1 DEF Shown, Pressed, TaskGoes
  <2> QED
    BY <1>3, <2>1, DeviceGoes DEF TaskGoes
<1>4. ASSUME NEW s \in Requests, SignUpStep(s)
      PROVE  TaskGoes(r)
  BY <1>4, SignUpGoes DEF TaskGoes
<1>5. ServerStep \/ UNCHANGED accountVars => TaskGoes(r)
  BY DEF ServerStep, accountVars, TaskGoes
<1> QED
  BY <1>2, <1>3, <1>4, <1>5 DEF CarefulNext, AccountsNext

\* The name that is posted is that of the account.
LEMMA PostNames ==
    ASSUME Held, CopiedInv, NEW r \in Requests, UpdateProfile(r)
    PROVE  \/ UNCHANGED server
           \/ LET name == form[task[r].on].username
              IN  /\ Fetch(r, "addNewUser", name)
                  /\ task' = [task EXCEPT ![r].step = "posting"]
                  /\ task[r].email \in Named'
                  /\ accounts'[task[r].email] = name
<1>1. task[r].step = "naming" /\ SetDisplayName(r)
  BY DEF UpdateProfile
<1>2. task[r].name = form[task[r].on].username /\ task[r].email \in DOMAIN accounts
  BY <1>1 DEF CopiedInv, NamedInv, Held, Known, AccountsInv, NamingInv
<1>3. /\ DOMAIN accounts' = DOMAIN accounts
      /\ accounts'[task[r].email] = form[task[r].on].username
  BY <1>1, <1>2 DEF SetDisplayName
<1> QED
  BY <1>2, <1>3 DEF UpdateProfile, Named

LEMMA NamedInvStep ==
    ASSUME Held, CopiedInv, [CarefulNext]_accountVars
    PROVE  NamedInv'
<1>1. NamesKept
  BY AccountsInvStep DEF Held, Known, CarefulNext
<1>2. ASSUME NEW name, \E e \in Named : accounts[e] = name
      PROVE  \E e \in Named' : accounts'[e] = name
  BY <1>1, <1>2 DEF NamesKept
<1>3. UsersHaveAccounts
  BY DEF CopiedInv, NamedInv
<1>4. UNCHANGED users => UsersHaveAccounts'
  BY <1>2, <1>3 DEF UsersHaveAccounts
<1>5. ASSUME NEW r \in Requests, pc'[r] = "insertUser",
             pc[r] = "insertUser" /\ call'[r] = call[r]
      PROVE  \E e \in Named' : accounts'[e] = call'[r].from
  BY <1>2, <1>5 DEF CopiedInv, NamedInv
<1>6. ASSUME Asks
      PROVE  NamedInv'
  BY <1>4, <1>5, <1>6, NamingStays DEF Asks, NamedInv
<1>7. ASSUME UNCHANGED server
      PROVE  NamedInv'
  BY <1>6, <1>7 DEF server, vars, Asks
<1>8. ASSUME NEW d \in Devices, RestartApp(d) \/ DeviceStep(d), Careful'
      PROVE  NamedInv'
  BY <1>6, <1>8, DeviceAsks
<1>9. ASSUME NEW r \in Requests, SignUpStep(r)
      PROVE  NamedInv'
  <2>1. CASE UNCHANGED server
    BY <1>7, <2>1
  <2>2. CASE UpdateProfile(r) /\ ~UNCHANGED server
    <3>1. PICK name :
             /\ Fetch(r, "addNewUser", name)
             /\ task[r].email \in Named' /\ accounts'[task[r].email] = name
      BY <2>2, PostNames
    <3>2. /\ UNCHANGED users /\ call'[r].from = name
          /\ \A s \in Requests \ {r} : pc'[s] = pc[s] /\ call'[s] = call[s]
      BY <3>1, FetchEffect DEF Held, UsersInv
    <3>3. \A s \in Requests :
             pc'[s] = "insertUser" => \E e \in Named' : accounts'[e] = call'[s].from
      BY <1>5, <3>1, <3>2
    <3> QED
      BY <1>4, <3>2, <3>3, NamingStays DEF NamedInv
  <2> QED
    BY <1>9, <2>1, <2>2 DEF SignUpStep, UsernamesArrive, CreateAccount, CreateFails,
                            UpdateProfileFails, UserAdded, FetchFails
<1>10. ASSUME NEW r \in Requests, Step(r) \/ CallFails(r) \/ AckLost(r)
       PROVE  NamedInv'
  <2>1. /\ pc'[r] # "insertUser"
        /\ \A s \in Requests \ {r} : pc'[s] = pc[s]
        /\ \/ UNCHANGED users
           \/ pc[r] = "insertUser" /\ users' = Append(users, call[r].from)
    <3>1. TypeOK
      BY DEF Held, UsersInv
    <3>2. /\ pc'[r] \notin {"idle", "insertUser"}
          /\ \A s \in Requests \ {r} : pc'[s] = pc[s]
          /\ \/ UNCHANGED users
             \/ pc[r] = "insertUser" /\ users' = Append(users, call[r].from)
      BY <1>10, <3>1, StepAddsUser
    <3> QED
      BY <3>2
  <2>2. UNCHANGED call
    BY <1>10, StepMoves DEF CallFails, AckLost, Held, UsersInv
  <2>3. \A s \in Requests :
           pc'[s] = "insertUser" => \E e \in Named' : accounts'[e] = call'[s].from
    BY <1>5, <2>1, <2>2
  <2>4. CASE pc[r] = "insertUser" /\ users' = Append(users, call[r].from)
    <3>1. \E e \in Named' : accounts'[e] = call[r].from
      BY <1>2, <2>4 DEF CopiedInv, NamedInv
    <3>2. users \in Seq(Names) /\ call[r].from \in Names
      BY <2>4, RequestTypes DEF Held, UsersInv, TypeOK, DatabaseOK
    <3>3. ToSet(users') = ToSet(users) \cup {call[r].from}
      BY <2>4, <3>2, AppendAddsOne
    <3>4. UsersHaveAccounts'
      BY <1>2, <1>3, <3>1, <3>3 DEF UsersHaveAccounts
    <3> QED
      BY <2>3, <3>4, NamingStays DEF NamedInv
  <2> QED
    BY <1>4, <2>1, <2>3, <2>4, NamingStays DEF NamedInv
<1>11. CASE Crash
  <2>1. UNCHANGED <<users, call>> /\ \A s \in Requests : pc'[s] \in {pc[s], "lost"}
    BY <1>11 DEF Crash, database
  <2> QED
    BY <1>4, <1>5, <2>1, NamingStays DEF NamedInv
<1>12. CASE UNCHANGED accountVars
  BY <1>7, <1>12 DEF accountVars, server
<1> QED
  BY <1>8, <1>9, <1>10, <1>11, <1>12 DEF CarefulNext, AccountsNext, ServerStep

LEMMA CopiedAlways == CarefulSpec => []CopiedInv
<1>1. AccountsInit => CopiedInv
  BY CopiedInit
<1>2. Held /\ CopiedInv /\ [AccountsNext /\ Careful' /\ Patient]_accountVars => CopiedInv'
  BY OnInvStep, NamedInvStep DEF CarefulNext, CopiedInv
<1> QED
  BY <1>1, <1>2, HeldAlways, PTL DEF CarefulSpec

\* Whatever fails, careful users are listed by the server under the display name
\* of an account: the form that is read when the account is created is read
\* again, unchanged, when the user is posted.
THEOREM CarefulUsersHaveAccounts == CarefulSpec => []UsersHaveAccounts
<1>1. CopiedInv => UsersHaveAccounts
  BY DEF CopiedInv, NamedInv
<1> QED
  BY <1>1, CopiedAlways, PTL

----------------------------------------------------------------------------
(* Sessions and events                                                     *)

\* Sequences of one value, and those that another one ends
AllAre(e, t)      == \A i \in 1..Len(e) : e[i] = t
EndedBy(e, f, t) ==
    Len(e) > 0 /\ e[Len(e)] = f /\ \A i \in 1..(Len(e) - 1) : e[i] = t

LEMMA QueueFacts ==
    ASSUME NEW S, NEW e \in Seq(S), NEW t \in S, NEW f \in S, t # f
    PROVE  /\ AllAre(e, t) => AllAre(Append(e, t), t) /\ EndedBy(Append(e, f), f, t)
           /\ e # <<>> /\ AllAre(e, t) => Head(e) = t /\ AllAre(Tail(e), t)
           /\ EndedBy(e, f, t) => e # <<>>
           /\ EndedBy(e, f, t) /\ Head(e) # f => Len(e) # 1 /\ EndedBy(Tail(e), f, t)
           /\ EndedBy(e, f, t) /\ Head(e) # t => Tail(e) = <<>>
<1>1. Len(e) \in Nat /\ (e # <<>> => Len(e) > 0) /\ (e = <<>> => Len(e) = 0)
  BY EmptySeq, LenProperties
<1>2. ASSUME NEW b \in S
      PROVE  /\ Len(Append(e, b)) = Len(e) + 1 /\ Append(e, b)[Len(e) + 1] = b
             /\ \A i \in 1..Len(e) : Append(e, b)[i] = e[i]
  BY AppendFacts
<1>3. e # <<>> => /\ Tail(e) \in Seq(S)
                  /\ Len(Tail(e)) = Len(e) - 1 /\ Head(e) = e[1]
                  /\ \A i \in 1..(Len(e) - 1) : Tail(e)[i] = e[i + 1]
  BY HeadTailProperties
<1>4. AllAre(e, t) => AllAre(Append(e, t), t) /\ EndedBy(Append(e, f), f, t)
  BY <1>1, <1>2 DEF AllAre, EndedBy
<1>5. e # <<>> /\ AllAre(e, t) => Head(e) = t /\ AllAre(Tail(e), t)
  BY <1>1, <1>3 DEF AllAre
<1>6. EndedBy(e, f, t) => e # <<>>
  BY <1>1 DEF EndedBy
<1>7. EndedBy(e, f, t) /\ Head(e) # f => Len(e) # 1 /\ EndedBy(Tail(e), f, t)
  <2> SUFFICES ASSUME EndedBy(e, f, t), Head(e) # f
               PROVE  Len(e) # 1 /\ EndedBy(Tail(e), f, t)
    OBVIOUS
  <2>1. Len(e) > 1
    BY <1>1, <1>3, <1>6 DEF EndedBy
  <2>2. Tail(e)[Len(e) - 1] = f
    BY <1>1, <1>3, <1>6, <2>1 DEF EndedBy
  <2> QED
    BY <1>1, <1>3, <1>6, <2>1, <2>2 DEF EndedBy
<1>8. EndedBy(e, f, t) /\ Head(e) # t => Tail(e) = <<>>
  <2> SUFFICES ASSUME EndedBy(e, f, t), Head(e) # t
               PROVE  Tail(e) = <<>>
    OBVIOUS
  <2>1. e # <<>> /\ Head(e) = e[1] /\ Len(e) > 0
    BY <1>1, <1>3, <1>6
  <2>2. \A i \in 1..(Len(e) - 1) : e[i] = t
    BY DEF EndedBy
  <2>3. Len(e) = 1
    <3>1. Len(e) \in Nat
      BY <1>1
    <3>2. ~(Len(e) > 1)
      <4> SUFFICES ASSUME Len(e) > 1
                   PROVE  FALSE
        OBVIOUS
      <4>1. 1 \in 1..(Len(e) - 1)
        BY <3>1
      <4> QED
        BY <2>1, <2>2, <4>1
    <3>3. Len(e) > 0
      BY <2>1
    <3>4. \A n \in Nat : n > 0 /\ ~(n > 1) => n = 1
      OBVIOUS
    <3> QED
      BY <3>1, <3>2, <3>3, <3>4, Zenon
  <2>4. Tail(e) \in Seq(S) /\ Len(Tail(e)) = Len(e) - 1
    BY <1>3, <2>1
  <2>5. Len(Tail(e)) = 0
    BY <2>3, <2>4
  <2> QED
    BY <2>4, <2>5, EmptySeq
<1> QED
  BY <1>4, <1>5, <1>6, <1>7, <1>8

LEMMA EventFacts ==
    ASSUME NEW e \in Seq(BOOLEAN)
    PROVE  /\ AllAre(e, TRUE) =>
                 AllAre(Append(e, TRUE), TRUE) /\ EndedBy(Append(e, FALSE), FALSE, TRUE)
           /\ e # <<>> /\ AllAre(e, TRUE) => Head(e) = TRUE /\ AllAre(Tail(e), TRUE)
           /\ EndedBy(e, FALSE, TRUE) => e # <<>>
           /\ EndedBy(e, FALSE, TRUE) /\ Head(e) # FALSE =>
                 Len(e) # 1 /\ EndedBy(Tail(e), FALSE, TRUE)
           /\ EndedBy(e, FALSE, TRUE) /\ Head(e) # TRUE => Tail(e) = <<>>
<1>1. TRUE \in BOOLEAN /\ FALSE \in BOOLEAN /\ TRUE # FALSE
  OBVIOUS
<1> QED
  BY <1>1, QueueFacts, Zenon

LEMMA FirstEvents ==
    /\ AllAre(<<TRUE>>, TRUE)
    /\ EndedBy(<<FALSE>>, FALSE, TRUE) /\ Len(<<FALSE>>) = 1
<1>1. \A b \in BOOLEAN : Len(<<b>>) = 1 /\ <<b>>[1] = b
  OBVIOUS
<1>2. 1..1 = {1} /\ 1..0 = {} /\ 1 > 0 /\ 1 - 1 = 0
  OBVIOUS
<1> QED
  BY <1>1, <1>2, Zenon DEF AllAre, EndedBy

\* The last thing a device hears of may be that somebody has logged out: it shows
\* the message list, or is just starting, and nothing is in progress on it.
LoggedOut(d) ==
    /\ EndedBy(events[d], FALSE, TRUE)
    /\ ~Busy(d)
    /\ \/ screen[d] = "Main"
       \/ screen[d] = "Loading" /\ Len(events[d]) = 1

SessionOf(d) ==
    /\ Alive(d)
    /\ session[d] # None => AllAre(events[d], TRUE)
    /\ session[d] = None =>
          \/ events[d] = <<>> /\ screen[d] \in {"SignUp", "Login"}
          \/ LoggedOut(d)

SessionInv ==
    /\ \A d \in Devices : SessionOf(d)
    /\ \A r \in Requests :
          task[r].step \in {"naming", "posting"} => session[task[r].device] # None

LEMMA SessionInit ==
    ASSUME AccountsInit
    PROVE  SessionInv
<1>1. EndedBy(<<FALSE>>, FALSE, TRUE) /\ Len(<<FALSE>>) = 1
  BY DEF EndedBy
<1>2. \A r \in Requests : task[r].step = "unused" /\ ~Active(r)
  BY DEF AccountsInit, NoTask, Active
<1>3. \A d \in Devices : ~Busy(d)
  BY <1>2 DEF AccountsInit, Busy, LoggingIn, NoLogin
<1>4. \A d \in Devices : SessionOf(d)
  BY <1>1, <1>3 DEF AccountsInit, SessionOf, LoggedOut, Alive
<1> QED
  BY <1>2, <1>4 DEF SessionInv

LEMMA SameSession ==
    ASSUME NEW d \in Devices, SessionOf(d),
           session'[d] = session[d], events'[d] = events[d], screen'[d] = screen[d],
           Busy(d)' => Busy(d)
    PROVE  SessionOf(d)'
BY DEF SessionOf, LoggedOut, Alive

\* What a device does by itself is seen on no other.
LEMMA OthersKept ==
    ASSUME Held, Careful', NEW d \in Devices, RestartApp(d) \/ DeviceStep(d),
           NEW x \in Devices, x # d
    PROVE  /\ session'[x] = session[x] /\ events'[x] = events[x]
           /\ screen'[x] = screen[x] /\ listName'[x] = listName[x]
           /\ login'[x] = login[x]
           /\ Busy(x)' => Busy(x)
<1>1. ScreenTypes
  BY DEF Held, Known, TypesInv
<1>2. ShowMain(d) => screen'[x] = screen[x] /\ listName'[x] = listName[x]
  BY <1>1 DEF ShowMain, ScreenTypes
<1>3. ShowSignUp(d) => screen'[x] = screen[x] /\ listName'[x] = listName[x]
  BY <1>1 DEF ShowSignUp, ScreenTypes
<1>4. /\ session'[x] = session[x] /\ events'[x] = events[x]
      /\ screen'[x] = screen[x] /\ listName'[x] = listName[x]
      /\ login'[x] = login[x]
  <2>1. CASE RestartApp(d) \/ AuthStateChanged(d) \/ ToLogin(d) \/ ToSignUp(d)
    BY <1>1, <1>2, <1>3, <2>1
       DEF RestartApp, AuthStateChanged, ToLogin, ToSignUp, ScreenTypes
  <2>2. CASE Type(d) \/ CheckUsername(d) \/ HandleLogin(d)
    BY <1>1, <2>2, LoginBegun DEF Type, CheckUsername, HandleLogin, screens
  <2>3. CASE LoginSucceeds(d) \/ LoginFails(d)
    <3>1. login'[x] = login[x]
      BY <1>1, <2>3, LoginSettled
         DEF LoginSucceeds, LoginFails, Held, Known, TypesInv, AccountTypes
    <3>2. /\ session'[x] = session[x] /\ events'[x] = events[x]
          /\ screen'[x] = screen[x] /\ listName'[x] = listName[x]
      BY <1>1, <1>2, <2>3 DEF LoginSucceeds, LoginFails, ScreenTypes
    <3> QED
      BY <3>1, <3>2
  <2>4. CASE LogOut(d)
    BY <1>1, <2>4 DEF LogOut, ScreenTypes, screens
  <2> QED
    BY <2>1, <2>2, <2>3, <2>4 DEF DeviceStep
<1>5. \A r \in Requests :
          Active(r)' /\ task'[r].device = x => Active(r) /\ task[r].device = x
  <2>1. CASE \A r \in Requests : task'[r] = task[r] \/ task'[r].step = "ended"
    BY <2>1 DEF Active
  <2>2. CASE \E q \in Requests : Shown(d, q) \/ Pressed(d, q)
    BY <2>2 DEF Shown, Pressed, Active
  <2> QED
    BY <2>1, <2>2, DeviceGoes
<1> QED
  BY <1>4, <1>5 DEF Busy, LoggingIn

LEMMA DeviceSession ==
    ASSUME Held, SessionInv, Careful', Patient, NEW d \in Devices,
           RestartApp(d) \/ DeviceStep(d)
    PROVE  SessionOf(d)'
<1>1. /\ ScreenTypes /\ SessionOf(d) /\ Alive(d)
      /\ events[d] \in Seq(BOOLEAN) /\ TRUE # FALSE
  BY DEF Held, Known, TypesInv, ScreenTypes, SessionInv, SessionOf
<1>2. ASSUME UNCHANGED <<login, task>>
      PROVE  Busy(d)' => Busy(d)
  BY <1>2 DEF Busy, Active, LoggingIn
<1>3. CASE AuthStateChanged(d)
  <2>1. events[d] # <<>> /\ events'[d] = Tail(events[d]) /\ session'[d] = session[d]
    BY <1>1, <1>3 DEF AuthStateChanged, ScreenTypes
  <2>2. CASE Head(events[d]) /\ ShowMain(d) /\ UNCHANGED task
    <3>1. Head(events[d]) # FALSE /\ UNCHANGED login
      BY <1>3, <2>2 DEF AuthStateChanged
    <3>2. ~Busy(d) => ~Busy(d)'
      BY <1>2, <2>2, <3>1
    <3>3. screen'[d] = IF screen[d] = "Main" \/ session[d] # None THEN "Main" ELSE "Failed"
      BY <1>1, <2>1, <2>2 DEF ShowMain, ScreenTypes
    <3>4. CASE session[d] # None
      <4>1. AllAre(Tail(events[d]), TRUE)
        BY <1>1, <2>1, <3>4, EventFacts DEF SessionOf
      <4> QED
        BY <2>1, <3>3, <3>4, <4>1 DEF SessionOf, Alive
    <3>5. CASE session[d] = None
      <4>1. LoggedOut(d)
        BY <1>1, <2>1, <3>5 DEF SessionOf
      <4>2. Len(events[d]) # 1 /\ EndedBy(Tail(events[d]), FALSE, TRUE)
        BY <1>1, <3>1, <4>1, EventFacts DEF LoggedOut
      <4>3. LoggedOut(d)' /\ screen'[d] = "Main"
        BY <2>1, <3>2, <3>3, <4>1, <4>2 DEF LoggedOut
      <4> QED
        BY <2>1, <3>5, <4>3 DEF SessionOf, Alive
    <3> QED
      BY <3>4, <3>5
  <2>3. CASE ~Head(events[d]) /\ ShowSignUp(d)
    <3>1. Head(events[d]) # TRUE
      BY <2>3
    <3>2. session[d] = None
      BY <1>1, <2>1, <3>1, EventFacts DEF SessionOf
    <3>3. LoggedOut(d)
      BY <1>1, <2>1, <3>2 DEF SessionOf
    <3>4. events'[d] = <<>>
      BY <1>1, <2>1, <3>1, <3>3, EventFacts DEF LoggedOut
    <3>5. screen'[d] = "SignUp"
      BY <1>1, <2>3 DEF ShowSignUp, ScreenTypes
    <3> QED
      BY <2>1, <3>2, <3>4, <3>5 DEF SessionOf, Alive
  <2> QED
    BY <1>3, <2>2, <2>3 DEF AuthStateChanged
<1>4. CASE ToLogin(d) \/ ToSignUp(d)
  <2>1. UNCHANGED <<session, events>> /\ screen[d] \in {"SignUp", "Login"}
    BY <1>4 DEF ToLogin, ToSignUp
  <2>2. screen'[d] \in {"SignUp", "Login"}
    BY <1>1, <1>4 DEF ToLogin, ToSignUp, ShowSignUp, ScreenTypes
  <2>3. session[d] = None => events[d] = <<>>
    BY <1>1, <2>1 DEF SessionOf, LoggedOut
  <2> QED
    BY <1>1, <2>1, <2>2, <2>3 DEF SessionOf, Alive
<1>5. CASE Type(d) \/ LoginFails(d)
  <2>1. UNCHANGED <<session, events, screen>> /\ (Busy(d)' => Busy(d))
    <3>1. CASE Type(d)
      BY <1>2, <3>1 DEF Type
    <3>2. CASE LoginFails(d)
      BY <1>1, <3>2, LoginSettled DEF LoginFails, Busy
    <3> QED
      BY <1>5, <3>1, <3>2
  <2> QED
    BY <1>1, <2>1, SameSession
<1>6. CASE CheckUsername(d) \/ HandleLogin(d)
  <2>1. UNCHANGED <<session, events, screen>> /\ screen[d] \in {"SignUp", "Login"}
    BY <1>6 DEF CheckUsername, HandleLogin, screens
  <2>2. session[d] = None => events[d] = <<>>
    BY <1>1, <2>1 DEF SessionOf, LoggedOut
  <2> QED
    BY <1>1, <2>1, <2>2 DEF SessionOf, Alive
<1>7. CASE LoginSucceeds(d)
  <2>1. PICK e \in Emails : LoginEnds(d, e) /\ session' = [session EXCEPT ![d] = e]
    BY <1>7 DEF LoginSucceeds, Held, Known, TypesInv, AccountTypes
  <2>2. e # None
    BY NoneAssumption
  <2>3. session'[d] # None /\ events'[d] = Append(events[d], TRUE)
    BY <1>1, <1>7, <2>1, <2>2 DEF LoginSucceeds, ScreenTypes
  <2>4. screen'[d] = "Main"
    BY <1>1, <1>7, <2>3 DEF LoginSucceeds, ShowMain, ScreenTypes
  <2>5. Busy(d)
    BY <1>1, <2>1, LoginSettled DEF Busy
  <2>6. AllAre(events[d], TRUE) \/ events[d] = <<>>
    BY <1>1, <2>5 DEF SessionOf, LoggedOut
  <2>7. AllAre(events[d], TRUE)
    BY <2>6 DEF AllAre
  <2>8. AllAre(Append(events[d], TRUE), TRUE)
    BY <1>1, <2>7, EventFacts
  <2> QED
    BY <2>3, <2>4, <2>8 DEF SessionOf, Alive
<1>8. CASE LogOut(d)
  <2>1. /\ session[d] # None /\ session'[d] = None /\ screen[d] = "Main"
        /\ events'[d] = Append(events[d], FALSE)
        /\ UNCHANGED <<screen, login, task>>
    BY <1>1, <1>8 DEF LogOut, ScreenTypes, screens
  <2>2. ~Busy(d)
    BY <2>1 DEF Patient
  <2>3. EndedBy(Append(events[d], FALSE), FALSE, TRUE)
    BY <1>1, <2>1, EventFacts DEF SessionOf
  <2>4. LoggedOut(d)'
    BY <1>2, <2>1, <2>2, <2>3 DEF LoggedOut
  <2> QED
    BY <2>1, <2>4 DEF SessionOf, Alive
<1>9. CASE RestartApp(d)
  <2>1. /\ screen'[d] = "Loading" /\ session'[d] = session[d] /\ login'[d] = NoLogin
        /\ events'[d] = <<session[d] # None>>
        /\ \A r \in Requests : task'[r] = Ended \/ task'[r].device # d
    BY <1>1, <1>9 DEF RestartApp, ScreenTypes
  <2>2. ~Busy(d)'
    BY <2>1, EndedIsTask DEF Busy, Active, LoggingIn, NoLogin
  <2>3. CASE session[d] # None
    <3>1. events'[d] = <<TRUE>>
      BY <2>1, <2>3
    <3> QED
      BY <2>1, <2>3, <3>1, FirstEvents DEF SessionOf, Alive
  <2>4. CASE session[d] = None
    <3>1. EndedBy(<<FALSE>>, FALSE, TRUE) /\ Len(<<FALSE>>) = 1
      BY DEF EndedBy
    <3> QED
      BY <2>1, <2>2, <2>4, <3>1 DEF SessionOf, LoggedOut, Alive
  <2> QED
    BY <2>3, <2>4
<1> QED
  BY <1>3, <1>4, <1>5, <1>6, <1>7, <1>8, <1>9 DEF DeviceStep

LEMMA SignUpSession ==
    ASSUME Held, SessionInv, NEW r \in Requests, Active(r), SignUpStep(r)
    PROVE  SessionInv'
<1>0. PICK d : d = task[r].device
  OBVIOUS
<1>1. /\ ScreenTypes /\ d \in Devices /\ Active(r) /\ SessionOf(d)
      /\ events[d] \in Seq(BOOLEAN) /\ task \in [Requests -> Task]
  BY <1>0 DEF Held, Known, TypesInv, ScreenTypes, TaskOf, AccountsInv, ScreensOK,
              SessionInv
<1>2. /\ TaskGoes(r)
      /\ \A s \in Requests \ {r} : task'[s] = task[s]
  BY SignUpGoes
<1>3. ASSUME NEW x \in Devices, login'[x] = login[x]
      PROVE  Busy(x)' => Busy(x)
  BY <1>1, <1>2, <1>3 DEF Busy, Active, TaskGoes, LoggingIn
<1>4. ASSUME NEW x \in Devices, login'[x] = login[x],
             session'[x] = session[x], events'[x] = events[x], screen'[x] = screen[x]
      PROVE  SessionOf(x)'
  BY <1>3, <1>4, SameSession DEF SessionInv
<1>5. ASSUME UNCHANGED <<session, events, screen, login>>, task'[r].step # "naming"
      PROVE  SessionInv'
  <2>1. task'[r].step = "posting" => /\ task[r].step \in {"naming", "posting"}
                                     /\ task'[r].device = d
    BY <1>0, <1>2, <1>5 DEF TaskGoes
  <2> QED
    BY <1>0, <1>2, <1>4, <1>5, <2>1 DEF SessionInv
<1>6. EndTask(r) => task'[r].step = "ended"
  BY <1>1, EndedIsTask DEF EndTask
<1>7. CASE UsernamesArrive(r) \/ CreateFails(r) \/ UpdateProfileFails(r) \/ FetchFails(r)
  BY <1>5, <1>6, <1>7
     DEF UsernamesArrive, CreateFails, UpdateProfileFails, FetchFails, screens
<1>8. CASE UpdateProfile(r)
  <2>1. task'[r].step \in {"posting", "ended"}
    BY <1>1, <1>6, <1>8 DEF UpdateProfile, Task
  <2> QED
    BY <1>5, <1>8, <2>1 DEF UpdateProfile, screens
<1>9. CASE CreateAccount(r)
  <2>1. /\ session' = [session EXCEPT ![d] = task[r].email]
        /\ events' = [events EXCEPT ![d] = Append(@, TRUE)]
        /\ UNCHANGED <<screen, login>>
    BY <1>0, <1>9 DEF CreateAccount, screens
  <2>2. task[r].email # None
    BY <1>9, NoneAssumption DEF CreateAccount, Held, Known, TypesInv, TaskOf, Active
  <2>3. \A x \in Devices \ {d} : SessionOf(x)'
    BY <1>1, <1>4, <2>1 DEF ScreenTypes
  <2>4. SessionOf(d)'
    <3>1. Busy(d)
      BY <1>0, <1>1 DEF Busy
    <3>2. AllAre(events[d], TRUE)
      BY <1>1, <3>1 DEF SessionOf, LoggedOut, AllAre
    <3>3. AllAre(Append(events[d], TRUE), TRUE)
      BY <1>1, <3>2, EventFacts
    <3>4. session'[d] # None /\ events'[d] = Append(events[d], TRUE) /\ screen'[d] = screen[d]
      BY <1>1, <2>1, <2>2 DEF ScreenTypes
    <3> QED
      BY <1>1, <3>3, <3>4 DEF SessionOf, Alive
  <2>5. task'[r].device = d
    BY <1>0, <1>1, <1>9 DEF CreateAccount, Task
  <2>6. \A x \in Devices : session[x] # None => session'[x] # None
    BY <1>1, <2>1, <2>2 DEF ScreenTypes
  <2>7. session'[d] # None
    BY <1>1, <2>1, <2>2 DEF ScreenTypes
  <2>8. ASSUME NEW s \in Requests, task'[s].step \in {"naming", "posting"}
        PROVE  session'[task'[s].device] # None
    <3>1. CASE s = r
      BY <2>5, <2>7, <3>1
    <3>2. CASE s # r
      <4>1. task'[s] = task[s]
        BY <1>2, <3>2
      <4>2. task[s].device \in Devices /\ session[task[s].device] # None
        BY <2>8, <4>1 DEF SessionInv, Held, Known, TypesInv, TaskOf, Active
      <4> QED
        BY <2>6, <4>1, <4>2
    <3> QED
      BY <3>1, <3>2
  <2> QED
    BY <2>3, <2>4, <2>8 DEF SessionInv
<1>10. CASE UserAdded(r)
  <2>1. /\ task[r].step = "posting" /\ task'[r].step = "ended"
        /\ UNCHANGED <<session, events, login>>
    BY <1>6, <1>10 DEF UserAdded
  <2>2. CASE UNCHANGED screen
    BY <1>5, <2>1, <2>2
  <2>3. CASE ShowMain(d)
    <3>1. session[d] # None /\ session'[d] # None
      BY <1>0, <2>1 DEF SessionInv
    <3>2. screen' = [screen EXCEPT ![d] = "Main"]
      BY <1>1, <2>3, <3>1 DEF ShowMain
    <3>3. SessionOf(d)'
      BY <1>1, <2>1, <3>1, <3>2 DEF SessionOf, Alive, ScreenTypes
    <3>4. \A x \in Devices \ {d} : SessionOf(x)'
      BY <1>1, <1>4, <2>1, <3>2 DEF ScreenTypes
    <3> QED
      BY <1>2, <2>1, <3>3, <3>4 DEF SessionInv
  <2> QED
    BY <1>0, <1>10, <2>2, <2>3 DEF UserAdded
<1> QED
  BY <1>7, <1>8, <1>9, <1>10 DEF SignUpStep

LEMMA SessionInvStep ==
    ASSUME Held, SessionInv, [CarefulNext]_accountVars
    PROVE  SessionInv'
<1>1. CASE ServerStep \/ UNCHANGED accountVars
  <2>1. UNCHANGED <<session, events, screen, login, task>>
    BY <1>1 DEF ServerStep, accountVars, screens
  <2>2. \A d \in Devices : Busy(d)' => Busy(d)
    BY <2>1 DEF Busy, Active, LoggingIn
  <2>3. \A d \in Devices : SessionOf(d)'
    BY <2>1, <2>2, SameSession DEF SessionInv
  <2> QED
    BY <2>1, <2>3 DEF SessionInv
<1>2. ASSUME NEW d \in Devices, RestartApp(d) \/ DeviceStep(d), Careful', Patient
      PROVE  SessionInv'
  <2>1. SessionOf(d)'
    BY <1>2, DeviceSession
  <2>2. \A x \in Devices \ {d} : SessionOf(x)'
    BY <1>2, OthersKept, SameSession DEF SessionInv
  <2>3. ASSUME NEW r \in Requests, task'[r].step \in {"naming", "posting"}
        PROVE  session'[task'[r].device] # None
    <3>1. task'[r] = task[r]
      <4>1. CASE \E q \in Requests : Shown(d, q) \/ Pressed(d, q)
        BY <2>3, <4>1 DEF Shown, Pressed
      <4>2. CASE task'[r] = task[r] \/ task'[r].step = "ended"
        BY <2>3, <4>2
      <4> QED
        BY <1>2, <4>1, <4>2, DeviceGoes
    <3>2. task[r].device \in Devices /\ session[task[r].device] # None /\ Active(r)
      BY <2>3, <3>1 DEF SessionInv, Held, Known, TypesInv, TaskOf, Active
    <3>3. Busy(task[r].device)
      BY <3>2 DEF Busy
    <3> QED
      BY <1>2, <3>1, <3>2, <3>3 DEF Patient
  <2> QED
    BY <2>1, <2>2, <2>3 DEF SessionInv
<1>3. ASSUME NEW r \in Requests, Active(r), SignUpStep(r)
      PROVE  SessionInv'
  BY <1>3, SignUpSession
<1> QED
  BY <1>1, <1>2, <1>3 DEF CarefulNext, AccountsNext

LEMMA SessionAlways == CarefulSpec => []SessionInv
<1>1. AccountsInit => SessionInv
  BY SessionInit
<1>2. Held /\ SessionInv /\ [AccountsNext /\ Careful' /\ Patient]_accountVars
          => SessionInv'
  BY SessionInvStep DEF CarefulNext
<1> QED
  BY <1>1, <1>2, HeldAlways, PTL DEF CarefulSpec

\* Whatever fails, the message list is never opened for nobody: after a logout the
\* only event left is the logout's own, and the events before it find the message
\* list already open.
THEOREM CarefulAppStaysAlive == CarefulSpec => []AppStaysAlive
<1>1. SessionInv => AppStaysAlive
  BY DEF SessionInv, SessionOf, AppStaysAlive
<1> QED
  BY <1>1, SessionAlways, PTL

----------------------------------------------------------------------------
(* When nothing fails: every name is checked                               *)

\* Nothing fails, neither on the server nor on the devices.
NoFailures == MaxFaults = 0 /\ MaxMishaps = 0

LEMMA NoMishapStep ==
    ASSUME NoFailures, mishaps = 0, [AccountsNext]_accountVars
    PROVE  mishaps' = 0
<1>1. ~Mishap
  BY DEF Mishap, NoFailures
<1>2. ASSUME NEW d \in Devices, RestartApp(d) \/ DeviceStep(d)
      PROVE  UNCHANGED mishaps
  BY <1>1, <1>2 DEF RestartApp, DeviceStep, AuthStateChanged, ToLogin, ToSignUp, Type,
                    CheckUsername, HandleLogin, LoginSucceeds, LoginFails, LogOut
<1>3. ASSUME NEW r \in Requests, SignUpStep(r)
      PROVE  UNCHANGED mishaps
  BY <1>1, <1>3 DEF SignUpStep, UsernamesArrive, CreateAccount, CreateFails,
                    UpdateProfile, UpdateProfileFails, UserAdded, FetchFails
<1>4. ServerStep \/ UNCHANGED accountVars => UNCHANGED mishaps
  BY DEF ServerStep, accountVars
<1> QED
  BY <1>2, <1>3, <1>4 DEF AccountsNext

LEMMA NoMishaps == NoFailures /\ CarefulSpec => [](NoFailures /\ mishaps = 0)
<1>1. AccountsInit => mishaps = 0
  BY DEF AccountsInit
<1>2. NoFailures => NoFailures'
  BY DEF NoFailures
<1>3. NoFailures /\ mishaps = 0 /\ [AccountsNext]_accountVars
          => (mishaps = 0)'
  BY NoMishapStep
<1> QED
  BY <1>1, <1>2, <1>3, CarefulIsAccounts, PTL DEF AccountsSpec

\* Then these are the steps.
LEMMA QuietSteps ==
    ASSUME NoFailures, Held, mishaps = 0, [CarefulNext]_accountVars
    PROVE  \/ \E d \in Devices : DeviceStep(d) /\ Careful' /\ Patient
           \/ \E r \in Requests : Active(r) /\ SignUpStep(r) /\ ~Mishap
           \/ \E r \in Requests :
                 Step(r) /\ UNCHANGED <<accounts, session, events, screens, task, mishaps>>
           \/ UNCHANGED accountVars
<1>1. ~Mishap
  BY DEF Mishap, NoFailures
<1>2. ~Fault
  BY DEF Fault, NoFailures, Held, UsersInv, TypeOK
<1>3. \A d \in Devices : ~RestartApp(d)
  BY <1>1 DEF RestartApp
<1>4. ServerStep => /\ \E r \in Requests : Step(r)
                    /\ UNCHANGED <<accounts, session, events, screens, task, mishaps>>
  BY <1>2 DEF ServerStep, CallFails, AckLost, Crash
<1> QED
  BY <1>1, <1>3, <1>4 DEF CarefulNext, AccountsNext

Lowered == {Lower[u] : u \in ToSet(users)}

\* What a task has got from the server and from the form

\* The list of usernames that is on its way is the server's list now.
ListingOf(r) ==
    task[r].step = "listing" =>
        /\ task[r].on = r
        /\ call[r].op = "getExistingUsernames"
        /\ pc[r] \in {"listUsers", "done"}
        /\ pc[r] = "done" => reply[r].status = "SUCCESS" /\ reply[r].body = users

\* The list that a sign-up was checked against still has every user.
FreeOf(r) ==
    task[r].step \in {"creating", "naming"} =>
        LET name == form[task[r].on].username
        IN  /\ Lowered \subseteq existing[task[r].on]
            /\ name # None => Lower[name] \notin existing[task[r].on]

\* The user that is posted is new, and once added it is listed.
PostingOf(r) ==
    task[r].step = "posting" =>
        /\ call[r].op = "addNewUser"
        /\ task[r].email \in Named
        /\ call[r].from = accounts[task[r].email]
        /\ \/ pc[r] = "insertUser" /\ Lower[call[r].from] \notin Lowered
           \/ pc[r] \in {"insertRow", "done"} /\ call[r].from \in ToSet(users)
        /\ pc[r] = "done" => reply[r].status = "SUCCESS"

RequestOf(r) ==
    /\ ListingOf(r) /\ FreeOf(r) /\ PostingOf(r)
    /\ task[r].step = "ended" => pc[r] \in {"idle", "done"}

SignsUp(r) == task[r].step \in {"creating", "naming", "posting"}

\* The one sign-up screen that is shown is that of the sign-up in progress; its list
\* has every user, unless it is still to come or a sign-up is about to leave.
ScreenOf(d) ==
    screen[d] = "SignUp" =>
        /\ \A r \in Requests : SignsUp(r) => task[r].device = d
        /\ \/ task[mounted[d]].step = "listing"
           \/ \E r \in Requests : task[r].step = "posting"
           \/ Lowered \subseteq existing[mounted[d]]

\* A display name belongs to a user, or to one that is being added.
NamesListed ==
    \A e \in Named :
        \/ accounts[e] \in ToSet(users)
        \/ \E r \in Requests :
              task[r].step = "posting" /\ pc[r] = "insertUser" /\ task[r].email = e

UniqueInv ==
    /\ \A r \in Requests : RequestOf(r)
    /\ \A d \in Devices : ScreenOf(d)
    /\ NamesListed
    /\ UniqueDisplayNames

LEMMA UniqueInit ==
    ASSUME AccountsInit
    PROVE  UniqueInv
<1>1. \A r \in Requests : RequestOf(r)
  BY DEF AccountsInit, NoTask, RequestOf, ListingOf, FreeOf, PostingOf
<1>2. \A d \in Devices : ScreenOf(d)
  BY DEF AccountsInit, ScreenOf
<1>3. Named = {}
  BY DEF AccountsInit, Named
<1> QED
  BY <1>1, <1>2, <1>3 DEF UniqueInv, NamesListed, UniqueDisplayNames

\* A step that starts and ends no task, asks nothing of the server and changes
\* neither accounts nor lists
Idles ==
    /\ UNCHANGED <<users, pc, call, reply, accounts, existing, task, mounted>>
    /\ \A x \in Devices : screen'[x] = "SignUp" => screen[x] = "SignUp"

LEMMA IdlesKeeps ==
    ASSUME Held, UniqueInv, Idles,
           \A r \in Requests : Active(r) => form'[task[r].on] = form[task[r].on]
    PROVE  UniqueInv'
<1>1. UNCHANGED <<users, pc, call, reply, accounts, existing, task, mounted>>
  BY DEF Idles
<1>2. \A r \in Requests : RequestOf(r)'
  BY <1>1 DEF UniqueInv, RequestOf, ListingOf, FreeOf, PostingOf, Named, Lowered, Active
<1>3. \A d \in Devices : ScreenOf(d)'
  BY <1>1 DEF Idles, UniqueInv, ScreenOf, SignsUp, Lowered
<1>4. NamesListed' /\ UniqueDisplayNames'
  BY <1>1 DEF UniqueInv, NamesListed, UniqueDisplayNames, Named
<1> QED
  BY <1>2, <1>3, <1>4 DEF UniqueInv

LEMMA ShownKeeps ==
    ASSUME Held, UniqueInv, Careful', NEW d \in Devices, NEW q \in Requests, Shown(d, q),
           UNCHANGED <<accounts, existing>>
    PROVE  UniqueInv'
<1>1. /\ task'[q].step = "listing" /\ task'[q].device = d /\ task'[q].on = q
      /\ \A s \in Requests \ {q} : task'[s] = task[s] /\ ~Active(s)
      /\ mounted'[d] = q /\ \A x \in Devices \ {d} : mounted'[x] = mounted[x]
      /\ screen'[d] = "SignUp"
  BY DEF Shown, Held, Known, AccountsInv, ScreensOK
<1>2. FirstCall("getExistingUsernames") = "listUsers"
  BY DEF FirstCall
<1>3. /\ UNCHANGED users
      /\ pc'[q] = "listUsers" /\ call'[q].op = "getExistingUsernames"
      /\ \A s \in Requests \ {q} : pc'[s] = pc[s]
  BY <1>2, FetchEffect DEF Shown, Held, UsersInv
<1>4. \A r \in Requests : RequestOf(r)'
  BY <1>1, <1>3 DEF UniqueInv, RequestOf, ListingOf, FreeOf, PostingOf, Active
<1>5. \A x \in Devices : ScreenOf(x)'
  BY <1>1 DEF Careful, ScreenOf, SignsUp, Active
<1>6. ~Active(q)
  BY DEF Shown, Active
<1>7. NamesListed' /\ UniqueDisplayNames'
  BY <1>1, <1>3, <1>6 DEF UniqueInv, NamesListed, UniqueDisplayNames, Named, Active
<1> QED
  BY <1>4, <1>5, <1>7 DEF UniqueInv

LEMMA PressedKeeps ==
    ASSUME Held, UniqueInv, Careful', NEW d \in Devices, NEW q \in Requests, Pressed(d, q)
    PROVE  UniqueInv'
<1>1. /\ task[q].step = "unused"
      /\ task'[q].step = "creating" /\ task'[q].device = d /\ task'[q].on = mounted[d]
      /\ \A s \in Requests \ {q} : task'[s] = task[s] /\ ~Active(s)
      /\ screen[d] = "SignUp"
  BY DEF Pressed, CheckUsername
<1>2. UNCHANGED <<users, pc, call, reply, accounts, form, existing, screen, mounted>>
  BY DEF Pressed, CheckUsername, screens, server, vars
<1>3. mounted[d] \in Requests
  BY <1>1 DEF Held, Known, AccountsInv, ScreensOK
<1>4. Lowered \subseteq existing[mounted[d]]
  BY <1>1, <1>3 DEF UniqueInv, ScreenOf, Active
<1>5. LET f == form[mounted[d]]
      IN  f.username # None => Lower[f.username] \notin existing[mounted[d]]
  BY DEF Pressed, CheckUsername
<1>6. \A r \in Requests : RequestOf(r)'
  BY <1>1, <1>2, <1>4, <1>5
     DEF UniqueInv, RequestOf, ListingOf, FreeOf, PostingOf, Active, Lowered
<1>7. \A x \in Devices : ScreenOf(x)'
  <2>1. \A x \in Devices : screen'[x] = "SignUp" => x = d
    BY <1>1, <1>2 DEF Careful
  <2>2. \A r \in Requests : SignsUp(r)' => task'[r].device = d
    BY <1>1 DEF SignsUp, Active
  <2>3. Lowered' \subseteq existing'[mounted'[d]]
    BY <1>2, <1>4 DEF Lowered
  <2> QED
    BY <2>1, <2>2, <2>3 DEF ScreenOf
<1>8. NamesListed' /\ UniqueDisplayNames'
  BY <1>1, <1>2 DEF UniqueInv, NamesListed, UniqueDisplayNames, Named
<1> QED
  BY <1>6, <1>7, <1>8 DEF UniqueInv

LEMMA DeviceUnique ==
    ASSUME Held, CopiedInv, UniqueInv, Careful', Patient, NEW d \in Devices, DeviceStep(d)
    PROVE  UniqueInv'
<1>1. \A r \in Requests : Active(r) => form'[task[r].on] = form[task[r].on]
  BY FormStays DEF CopiedInv
<1>2. ShowMain(d) => \A x \in Devices : screen'[x] = "SignUp" => screen[x] = "SignUp"
  BY ShowMainEffect DEF Held, Known, AccountsInv
<1>3. UNCHANGED server => UNCHANGED <<users, pc, call, reply>>
  BY DEF server, vars
<1>4. CASE ShowSignUp(d)
  <2>1. UNCHANGED <<accounts, existing>>
    BY <1>4 DEF DeviceStep, AuthStateChanged, ToLogin, ToSignUp, Type, CheckUsername,
                HandleLogin, LoginSucceeds, LoginFails, LogOut, screens
  <2>2. CASE UNCHANGED <<server, screen, mounted, task>>
    BY <1>1, <1>3, <2>1, <2>2, IdlesKeeps DEF Idles
  <2>3. CASE \E q \in Requests : Shown(d, q)
    BY <2>1, <2>3, ShownKeeps
  <2> QED
    BY <1>4, <2>2, <2>3, ShownEffect
<1>5. CASE CheckUsername(d)
  BY <1>5, PressedEffect, PressedKeeps
<1>6. CASE AuthStateChanged(d) /\ ~ShowSignUp(d)
  BY <1>1, <1>2, <1>3, <1>6, IdlesKeeps DEF AuthStateChanged, Idles
<1>7. CASE LoginSucceeds(d)
  BY <1>1, <1>2, <1>3, <1>7, IdlesKeeps DEF LoginSucceeds, Idles
<1>8. CASE ToLogin(d)
  <2>1. \A x \in Devices : screen'[x] = "SignUp" => screen[x] = "SignUp"
    BY <1>8 DEF ToLogin, Held, Known, TypesInv, ScreenTypes
  <2> QED
    BY <1>1, <1>3, <1>8, <2>1, IdlesKeeps DEF ToLogin, Idles
<1>9. CASE Type(d) \/ HandleLogin(d) \/ LoginFails(d) \/ LogOut(d)
  BY <1>1, <1>3, <1>9, IdlesKeeps DEF Type, HandleLogin, LoginFails, LogOut, Idles, screens
<1> QED
  BY <1>4, <1>5, <1>6, <1>7, <1>8, <1>9 DEF DeviceStep, ToSignUp

\* The step of a sign-up, when it is the only task in progress
LEMMA SignUpUnique ==
    ASSUME Held, Careful, CopiedInv, SessionInv, UniqueInv, NEW r \in Requests, Active(r),
           SignUpStep(r), ~Mishap
    PROVE  UniqueInv'
<1>0. PICK d : d = task[r].device
  OBVIOUS
<1>1. /\ d \in Devices /\ task[r].on \in Requests
      /\ task \in [Requests -> Task] /\ task[r] \in Task
      /\ RequestOf(r) /\ TypeOK
  BY <1>0 DEF Held, Known, UsersInv, TypesInv, TaskOf, AccountsInv, ScreensOK, UniqueInv
<1>2. \A s \in Requests \ {r} : ~Active(s) /\ task'[s] = task[s]
  BY SignUpGoes DEF Careful
<1>3. UNCHANGED <<mounted, form>>
  BY SignUpGoes
<1>4. task[r].step \in {"creating", "naming"} => pc[r] = "idle"
  BY DEF Held, UsersInv, UnsentInv
<1>5. UNCHANGED server => UNCHANGED <<users, pc, call, reply>>
  BY DEF server, vars
<1>6. EndTask(r) => task'[r].step = "ended" /\ task'[r] = Ended
  BY <1>1, EndedIsTask DEF EndTask
<1>7. \A s \in Requests \ {r} :
          task[s].step \notin {"listing", "creating", "naming", "posting"}
  BY <1>2 DEF Active
<1>8. ASSUME \A s \in Requests \ {r} : pc'[s] = pc[s]
      PROVE  \A s \in Requests \ {r} : RequestOf(s)'
  BY <1>2, <1>7, <1>8 DEF UniqueInv, RequestOf, ListingOf, FreeOf, PostingOf
<1>9. ASSUME UNCHANGED users, task'[r].step # "posting", task[r].step # "posting",
             Named' = Named, \A e \in Named : accounts'[e] = accounts[e]
      PROVE  NamesListed' /\ UniqueDisplayNames'
  <2>1. \A e \in Named : accounts[e] \in ToSet(users)
    BY <1>7, <1>9 DEF UniqueInv, NamesListed
  <2> QED
    BY <1>9, <2>1 DEF UniqueInv, NamesListed, UniqueDisplayNames
<1>10. CASE UsernamesArrive(r)
  <2>1. /\ task[r].step = "listing" /\ pc[r] = "done" /\ task'[r].step = "ended"
        /\ UNCHANGED <<users, pc, call, reply, accounts, screen>>
    BY <1>5, <1>6, <1>10 DEF UsernamesArrive
  <2>2. task[r].on = r /\ reply[r].status = "SUCCESS" /\ reply[r].body = users
    BY <1>1, <2>1 DEF RequestOf, ListingOf
  <2>3. existing' = [existing EXCEPT ![r] = Lowered]
    BY <1>10, <2>2 DEF UsernamesArrive, Lowered
  <2>4. existing \in [Requests -> SUBSET Names]
    BY DEF Held, Known, TypesInv, ScreenTypes
  <2>5. \A s \in Requests : RequestOf(s)'
    <3>1. RequestOf(r)'
      BY <2>1 DEF RequestOf, ListingOf, FreeOf, PostingOf
    <3> QED
      BY <1>8, <2>1, <3>1
  <2>6. \A x \in Devices : ScreenOf(x)'
    <3>1. \A s \in Requests : ~SignsUp(s)'
      BY <1>2, <1>7, <2>1 DEF SignsUp
    <3>2. ASSUME NEW x \in Devices, screen'[x] = "SignUp"
          PROVE  Lowered' \subseteq existing'[mounted'[x]]
      <4>1. mounted[x] \in Requests /\ screen[x] = "SignUp"
        BY <2>1, <3>2 DEF Held, Known, AccountsInv, ScreensOK
      <4>2. mounted[x] = r \/ Lowered \subseteq existing[mounted[x]]
        BY <1>7, <2>1, <4>1 DEF UniqueInv, ScreenOf
      <4> QED
        BY <1>3, <2>1, <2>3, <2>4, <4>1, <4>2 DEF Lowered
    <3> QED
      BY <3>1, <3>2 DEF ScreenOf
  <2>7. NamesListed' /\ UniqueDisplayNames'
    BY <1>9, <2>1 DEF Named
  <2> QED
    BY <2>5, <2>6, <2>7 DEF UniqueInv
<1>11. CASE FetchFails(r)
  <2>1. pc[r] = "lost" /\ task[r].step \in {"listing", "posting"}
    BY <1>11 DEF FetchFails
  <2> QED
    BY <1>1, <2>1 DEF RequestOf, ListingOf, PostingOf
<1>12. ASSUME UNCHANGED <<users, existing, screen>>, task[r].step \in {"creating", "naming"},
              task'[r].step \in {"naming", "ended"},
              task'[r].step = "naming" => task'[r].device = d
       PROVE  \A x \in Devices : ScreenOf(x)'
  <2>1. ASSUME NEW x \in Devices, screen[x] = "SignUp"
        PROVE  Lowered \subseteq existing[mounted[x]] /\ x = d
    <3>1. mounted[x] \in Requests /\ SignsUp(r)
      BY <1>12, <2>1 DEF Held, Known, AccountsInv, ScreensOK, SignsUp
    <3> QED
      BY <1>0, <1>7, <1>12, <2>1, <3>1 DEF UniqueInv, ScreenOf
  <2>2. \A s \in Requests : SignsUp(s)' => task'[s].device = d
    BY <1>2, <1>7, <1>12 DEF SignsUp
  <2> QED
    BY <1>3, <1>12, <2>1, <2>2 DEF ScreenOf, Lowered
<1>13. CASE CreateAccount(r)
  <2>1. /\ task[r].step = "creating" /\ task'[r].step = "naming"
        /\ task'[r].device = d /\ task'[r].on = task[r].on
        /\ UNCHANGED <<users, pc, call, reply, existing, screen>>
    BY <1>0, <1>1, <1>5, <1>13 DEF CreateAccount, Task, screens
  <2>2. task[r].email \notin DOMAIN accounts /\ accounts' = WithAccount(task[r].email)
    BY <1>13 DEF CreateAccount
  <2>3. Named' = Named /\ \A e \in Named : accounts'[e] = accounts[e]
    BY <2>2 DEF Named, WithAccount
  <2>4. RequestOf(r)'
    BY <1>1, <1>3, <2>1 DEF RequestOf, ListingOf, FreeOf, PostingOf, Lowered
  <2> QED
    BY <1>8, <1>9, <1>12, <2>1, <2>3, <2>4 DEF UniqueInv
<1>14. CASE CreateFails(r)
  <2>1. /\ task[r].step = "creating" /\ task'[r].step = "ended"
        /\ UNCHANGED <<users, pc, call, reply, accounts, existing, screen>>
    BY <1>5, <1>6, <1>14 DEF CreateFails, screens
  <2>2. RequestOf(r)'
    BY <1>4, <2>1 DEF RequestOf, ListingOf, FreeOf, PostingOf
  <2>3. Named' = Named
    BY <2>1 DEF Named
  <2> QED
    BY <1>8, <1>9, <1>12, <2>1, <2>2, <2>3 DEF UniqueInv
<1>15. CASE UpdateProfileFails(r)
  BY <1>15 DEF UpdateProfileFails
<1>16. CASE UserAdded(r)
  <2>1. /\ task[r].step = "posting" /\ pc[r] = "done" /\ task'[r].step = "ended"
        /\ UNCHANGED <<users, pc, call, reply, accounts, session, existing>>
    BY <1>5, <1>6, <1>16 DEF UserAdded
  <2>2. reply[r].status = "SUCCESS"
    BY <1>1, <2>1 DEF RequestOf, PostingOf
  <2>3. RequestOf(r)'
    BY <2>1 DEF RequestOf, ListingOf, FreeOf, PostingOf
  <2>4. \A x \in Devices : screen'[x] # "SignUp"
    <3>1. ShowMain(d)
      BY <1>0, <1>16, <2>2 DEF UserAdded
    <3>2. screen'[d] # "SignUp" /\ \A x \in Devices \ {d} : screen'[x] = screen[x]
      BY <1>1, <3>1 DEF ShowMain, Held, Known, TypesInv, ScreenTypes
    <3>3. SignsUp(r)
      BY <2>1 DEF SignsUp
    <3> QED
      BY <1>0, <3>2, <3>3 DEF UniqueInv, ScreenOf
  <2>5. NamesListed' /\ UniqueDisplayNames'
    <3>1. \A e \in Named : accounts[e] \in ToSet(users)
      BY <1>7, <2>1 DEF UniqueInv, NamesListed
    <3> QED
      BY <2>1, <3>1 DEF UniqueInv, NamesListed, UniqueDisplayNames, Named
  <2> QED
    BY <1>8, <2>1, <2>3, <2>4, <2>5 DEF UniqueInv, ScreenOf
<1>17. CASE UpdateProfile(r)
  <2>1. task[r].step = "naming" /\ SetDisplayName(r) /\ UNCHANGED <<existing, screen>>
    BY <1>17 DEF UpdateProfile, screens
  <2>2. PICK name : name = form[task[r].on].username
    OBVIOUS
  <2>3. /\ task[r].email \in DOMAIN accounts /\ accounts[task[r].email] = None
        /\ task[r].name = name
    BY <2>1, <2>2 DEF Held, Known, AccountsInv, NamingInv, CopiedInv, NamedInv
  <2>4. /\ DOMAIN accounts' = DOMAIN accounts /\ accounts'[task[r].email] = name
        /\ \A e \in DOMAIN accounts \ {task[r].email} : accounts'[e] = accounts[e]
    BY <2>1, <2>3 DEF SetDisplayName
  <2>5. /\ Lowered \subseteq existing[task[r].on]
        /\ name # None => Lower[name] \notin existing[task[r].on]
    BY <1>1, <2>1, <2>2 DEF RequestOf, FreeOf
  <2>6. CASE name = None
    <3>1. EndTask(r) /\ UNCHANGED server
      BY <1>17, <2>2, <2>6 DEF UpdateProfile
    <3>2. /\ UNCHANGED <<users, pc, call, reply>> /\ task'[r].step = "ended"
      BY <1>5, <1>6, <3>1
    <3>3. Named' = Named /\ \A e \in Named : accounts'[e] = accounts[e]
      BY <2>3, <2>4, <2>6 DEF Named
    <3>4. RequestOf(r)'
      BY <1>4, <2>1, <3>2 DEF RequestOf, ListingOf, FreeOf, PostingOf
    <3> QED
      BY <1>8, <1>9, <1>12, <2>1, <3>2, <3>3, <3>4 DEF UniqueInv
  <2>7. CASE name # None
    <3>1. /\ Fetch(r, "addNewUser", name)
          /\ task' = [task EXCEPT ![r].step = "posting"]
      BY <1>17, <2>2, <2>7 DEF UpdateProfile
    <3>2. /\ task'[r].step = "posting" /\ task'[r].device = d
          /\ task'[r].email = task[r].email
      BY <1>0, <1>1, <3>1 DEF Task
    <3>3. FirstCall("addNewUser") = "insertUser"
      BY DEF FirstCall
    <3>4. /\ UNCHANGED users
          /\ pc'[r] = "insertUser" /\ call'[r].op = "addNewUser" /\ call'[r].from = name
          /\ \A s \in Requests \ {r} : pc'[s] = pc[s]
      BY <1>1, <3>1, <3>3, FetchEffect
    <3>5. /\ Named' = Named \cup {task[r].email} /\ task[r].email \notin Named
          /\ \A e \in Named : accounts'[e] = accounts[e]
      BY <2>3, <2>4, <2>7 DEF Named
    <3>6. Lower[name] \notin Lowered
      BY <2>5, <2>7
    <3>7. RequestOf(r)'
      BY <2>4, <3>2, <3>4, <3>5, <3>6
         DEF RequestOf, ListingOf, FreeOf, PostingOf, Lowered
    <3>8. \A x \in Devices : ScreenOf(x)'
      <4>1. \A x \in Devices : screen'[x] = "SignUp" => x = d
        BY <1>0, <2>1 DEF UniqueInv, ScreenOf, SignsUp
      <4>2. \A s \in Requests : SignsUp(s)' => task'[s].device = d
        BY <1>2, <1>7, <3>2 DEF SignsUp
      <4> QED
        BY <3>2, <4>1, <4>2 DEF ScreenOf
    <3>9. \A e \in Named : accounts[e] \in ToSet(users)
      BY <1>7, <2>1 DEF UniqueInv, NamesListed
    <3>10. NamesListed'
      BY <3>2, <3>4, <3>5, <3>9 DEF NamesListed
    <3>11. \A e \in Named : Lower[accounts[e]] # Lower[name]
      BY <3>6, <3>9 DEF Lowered
    <3>12. UniqueDisplayNames'
      BY <2>4, <3>5, <3>11 DEF UniqueInv, UniqueDisplayNames
    <3> QED
      BY <1>8, <3>4, <3>7, <3>8, <3>10, <3>12 DEF UniqueInv
  <2> QED
    BY <2>6, <2>7
<1> QED
  BY <1>10, <1>11, <1>13, <1>14, <1>15, <1>16, <1>17 DEF SignUpStep

\* What the server does about the task in progress
LEMMA ServerAnswers ==
    ASSUME Held, UniqueInv, NEW r \in Requests, Step(r)
    PROVE  /\ \/ /\ task[r].step = "listing" /\ UNCHANGED users
                 /\ pc'[r] = "done"
                 /\ reply'[r].status = "SUCCESS" /\ reply'[r].body = users
              \/ /\ task[r].step = "posting" /\ pc[r] = "insertUser"
                 /\ users' = Append(users, call[r].from)
                 /\ pc'[r] = "insertRow"
              \/ /\ task[r].step = "posting" /\ pc[r] = "insertRow" /\ UNCHANGED users
                 /\ pc'[r] = "done" /\ reply'[r].status = "SUCCESS"
           /\ UNCHANGED call
           /\ \A s \in Requests \ {r} : pc'[s] = pc[s] /\ reply'[s] = reply[s]
<1>1. TypeOK /\ RequestOf(r) /\ task[r] \in Task
  BY DEF Held, UsersInv, UniqueInv, AccountsInv, ScreensOK
<1>2. pc[r] \in Running /\ UNCHANGED call
  BY <1>1, StepMoves
<1>3. \A s \in Requests \ {r} : pc'[s] = pc[s] /\ reply'[s] = reply[s]
  BY <1>1, StepIsLocal
<1>4. task[r].step \in {"listing", "posting"}
  <2>1. pc[r] \notin {"idle", "done"}
    BY <1>2 DEF Running, ReadCalls, WriteCalls
  <2>2. task[r].step \notin {"unused", "creating", "naming"}
    BY <2>1 DEF Held, UsersInv, UnsentInv
  <2> QED
    BY <1>1, <2>1, <2>2 DEF RequestOf, Task, TaskSteps
<1>5. CASE task[r].step = "listing"
  <2>1. call[r].op = "getExistingUsernames" /\ pc[r] \in {"listUsers", "done"}
    BY <1>1, <1>5 DEF RequestOf, ListingOf
  <2>2. ListUsernames(r)
    BY <2>1 DEF Step, getExistingUsernames, getUserChats, getUserChatMessages, sendMessage,
                sendNewMessage, addNewUser, FindChats, InsertUser, InsertRow
  <2>3. Send(r, "SUCCESS", users) /\ UNCHANGED users
    BY <2>2 DEF ListUsernames, database
  <2>4. pc'[r] = "done" /\ reply'[r].status = "SUCCESS" /\ reply'[r].body = users
    BY <1>1, <2>3, SendFacts
  <2> QED
    BY <1>2, <1>3, <1>5, <2>3, <2>4
<1>6. CASE task[r].step = "posting"
  <2>1. call[r].op = "addNewUser" /\ pc[r] \in {"insertUser", "insertRow"}
    BY <1>1, <1>2, <1>6 DEF RequestOf, PostingOf, Running, ReadCalls, WriteCalls
  <2>2. InsertUser(r) \/ InsertRow(r)
    BY <2>1 DEF Step, getExistingUsernames, getUserChats, getUserChatMessages, sendMessage,
                sendNewMessage, addNewUser, FindChats, ListUsernames
  <2>3. CASE InsertUser(r)
    <3>1. /\ pc[r] = "insertUser" /\ users' = Append(users, call[r].from)
          /\ Await(r, "insertRow")
      BY <2>3 DEF InsertUser, AddUser
    <3>2. pc'[r] = "insertRow"
      BY <1>1, <3>1, AwaitFacts
    <3> QED
      BY <1>2, <1>3, <1>6, <3>1, <3>2
  <2>4. CASE InsertRow(r)
    <3>1. pc[r] = "insertRow" /\ UNCHANGED users /\ Send(r, "SUCCESS", <<>>)
      BY <2>4 DEF InsertRow, AddRow
    <3>2. pc'[r] = "done" /\ reply'[r].status = "SUCCESS"
      BY <1>1, <3>1, SendFacts
    <3> QED
      BY <1>2, <1>3, <1>6, <3>1, <3>2
  <2> QED
    BY <2>2, <2>3, <2>4
<1> QED
  BY <1>4, <1>5, <1>6

LEMMA ServerUnique ==
    ASSUME Held, Careful, UniqueInv, NEW r \in Requests, Step(r),
           UNCHANGED <<accounts, session, events, screens, task, mishaps>>
    PROVE  UniqueInv'
<1>1. UNCHANGED <<accounts, task, screen, mounted, form, existing>>
  BY DEF screens
<1>2. /\ UNCHANGED call
      /\ \A s \in Requests \ {r} : pc'[s] = pc[s] /\ reply'[s] = reply[s]
      /\ task[r].step \in {"listing", "posting"}
  BY ServerAnswers
<1>3. \A s \in Requests \ {r} :
          task[s].step \notin {"listing", "creating", "naming", "posting"}
  BY <1>2 DEF Careful, Active
<1>4. \A s \in Requests \ {r} : RequestOf(s)'
  BY <1>1, <1>2, <1>3 DEF UniqueInv, RequestOf, ListingOf, FreeOf, PostingOf
<1>5. RequestOf(r)
  BY DEF UniqueInv
<1>6. UniqueDisplayNames'
  BY <1>1 DEF UniqueInv, UniqueDisplayNames, Named
<1>7. CASE task[r].step = "listing"
  <2>1. /\ UNCHANGED users /\ pc'[r] = "done"
        /\ reply'[r].status = "SUCCESS" /\ reply'[r].body = users
    BY <1>7, ServerAnswers
  <2>2. RequestOf(r)'
    BY <1>1, <1>2, <1>5, <1>7, <2>1 DEF RequestOf, ListingOf, FreeOf, PostingOf
  <2>3. \A d \in Devices : ScreenOf(d)'
    BY <1>1, <2>1 DEF UniqueInv, ScreenOf, SignsUp, Lowered
  <2>4. NamesListed'
    BY <1>1, <1>2, <1>7, <2>1 DEF UniqueInv, NamesListed, Named
  <2> QED
    BY <1>4, <1>6, <2>2, <2>3, <2>4 DEF UniqueInv
<1>8. CASE task[r].step = "posting"
  <2>1. \A d \in Devices : ScreenOf(d)'
    BY <1>1, <1>8 DEF UniqueInv, ScreenOf, SignsUp
  <2>2. CASE pc[r] = "insertUser"
    <3>1. users' = Append(users, call[r].from) /\ pc'[r] = "insertRow"
      BY <1>8, <2>2, ServerAnswers
    <3>2. users \in Seq(Names) /\ call[r].from \in Names
      BY <2>2, RequestTypes DEF Held, UsersInv, TypeOK, DatabaseOK
    <3>3. ToSet(users') = ToSet(users) \cup {call[r].from}
      BY <3>1, <3>2, AppendAddsOne
    <3>4. RequestOf(r)'
      BY <1>1, <1>2, <1>5, <1>8, <3>1, <3>3
         DEF RequestOf, ListingOf, FreeOf, PostingOf, Named
    <3>5. NamesListed'
      BY <1>1, <1>2, <1>3, <1>5, <1>8, <3>3
         DEF UniqueInv, NamesListed, Named, RequestOf, PostingOf
    <3> QED
      BY <1>4, <1>6, <2>1, <3>4, <3>5 DEF UniqueInv
  <2>3. CASE pc[r] = "insertRow"
    <3>1. UNCHANGED users /\ pc'[r] = "done" /\ reply'[r].status = "SUCCESS"
      BY <1>8, <2>3, ServerAnswers
    <3>2. RequestOf(r)'
      BY <1>1, <1>2, <1>5, <1>8, <2>3, <3>1
         DEF RequestOf, ListingOf, FreeOf, PostingOf, Named
    <3>3. NamesListed'
      BY <1>1, <1>2, <2>3, <3>1 DEF UniqueInv, NamesListed, Named
    <3> QED
      BY <1>4, <1>6, <2>1, <3>2, <3>3 DEF UniqueInv
  <2> QED
    BY <1>8, <2>2, <2>3, ServerAnswers
<1> QED
  BY <1>2, <1>7, <1>8

\* All that holds of careful users when nothing fails
Safe ==
    NoFailures /\ mishaps = 0 /\ Held /\ Careful /\ CopiedInv /\ SessionInv

LEMMA SafeAlways == NoFailures /\ CarefulSpec => []Safe
<1>1. NoFailures /\ mishaps = 0 /\ Held /\ Careful /\ CopiedInv /\ SessionInv => Safe
  BY DEF Safe
<1> QED
  BY <1>1, NoMishaps, HeldAlways, CarefulAlways, CopiedAlways, SessionAlways, PTL

LEMMA UniqueInvStep ==
    ASSUME Safe, UniqueInv, [CarefulNext]_accountVars
    PROVE  UniqueInv'
<1>1. ASSUME NEW d \in Devices, DeviceStep(d), Careful', Patient
      PROVE  UniqueInv'
  BY <1>1, DeviceUnique DEF Safe
<1>2. ASSUME NEW r \in Requests, Active(r), SignUpStep(r), ~Mishap
      PROVE  UniqueInv'
  BY <1>2, SignUpUnique DEF Safe
<1>3. ASSUME NEW r \in Requests, Step(r),
             UNCHANGED <<accounts, session, events, screens, task, mishaps>>
      PROVE  UniqueInv'
  BY <1>3, ServerUnique DEF Safe
<1>4. CASE UNCHANGED accountVars
  <2>1. Idles /\ UNCHANGED form
    BY <1>4 DEF accountVars, screens, vars, Idles
  <2> QED
    BY <2>1, IdlesKeeps DEF Safe
<1> QED
  BY <1>1, <1>2, <1>3, <1>4, QuietSteps DEF Safe

LEMMA UniqueAlways == NoFailures /\ CarefulSpec => []UniqueInv
<1>1. AccountsInit => UniqueInv
  BY UniqueInit
<1>2. Safe /\ UniqueInv /\ [AccountsNext /\ Careful' /\ Patient]_accountVars => UniqueInv'
  BY UniqueInvStep DEF CarefulNext
<1> QED
  BY <1>1, <1>2, SafeAlways, PTL DEF CarefulSpec

\* When nothing fails, no two accounts of careful users send messages under one
\* username, in whatever case it is written: the list that a name is checked
\* against has every name that was given before.
THEOREM CarefulDisplayNames == NoFailures /\ CarefulSpec => []UniqueDisplayNames
<1>1. UniqueInv => UniqueDisplayNames
  BY DEF UniqueInv
<1> QED
  BY <1>1, UniqueAlways, PTL

\* The usernames of those who signed up before are different, also in lower case.
RegisteredDiffer ==
    \A i, j \in DOMAIN Registered : Lower[Registered[i]] = Lower[Registered[j]] => i = j

LEMMA UsernamesStayUnique ==
    ASSUME Safe, UniqueInv, UniqueUsernames, [CarefulNext]_accountVars
    PROVE  UniqueUsernames'
<1>1. UNCHANGED users => UniqueUsernames'
  BY DEF UniqueUsernames
<1>2. ASSUME NEW d \in Devices, DeviceStep(d), Careful'
      PROVE  UNCHANGED users
  BY <1>2, DeviceAsks DEF Safe, Asks
<1>3. ASSUME NEW r \in Requests, SignUpStep(r)
      PROVE  UNCHANGED users
  <2>1. UNCHANGED server \/ \E op, name : Fetch(r, op, name)
    BY <1>3 DEF SignUpStep, UsernamesArrive, CreateAccount, CreateFails, UpdateProfile,
                UpdateProfileFails, UserAdded, FetchFails
  <2>2. TypeOK
    BY DEF Safe, Held, UsersInv
  <2> QED
    BY <2>1, <2>2, FetchEffect DEF server, vars
<1>4. ASSUME NEW r \in Requests, Step(r)
      PROVE  UniqueUsernames'
  <2>1. CASE pc[r] = "insertUser" /\ users' = Append(users, call[r].from)
    <3>1. users \in Seq(Names) /\ call[r].from \in Names
      BY <2>1, RequestTypes DEF Safe, Held, UsersInv, TypeOK, DatabaseOK
    <3>2. Lower[call[r].from] \notin Lowered
      BY <1>4, <2>1, ServerAnswers DEF Safe, UniqueInv, RequestOf, PostingOf
    <3>3. PICK n : n = Len(users)
      OBVIOUS
    <3>4. /\ n \in Nat /\ DOMAIN users = 1..n /\ DOMAIN users' = 1..(n + 1)
          /\ users'[n + 1] = call[r].from
          /\ \A i \in 1..n : users'[i] = users[i]
      BY <2>1, <3>1, <3>3, AppendFacts, LenProperties
    <3>5. \A i \in 1..n : Lower[users'[i]] # Lower[users'[n + 1]]
      BY <3>2, <3>4 DEF Lowered, ToSet
    <3> QED
      BY <3>4, <3>5 DEF UniqueUsernames
  <2> QED
    BY <1>1, <1>4, <2>1, ServerAnswers DEF Safe
<1>5. UNCHANGED accountVars => UNCHANGED users
  BY DEF accountVars, vars
<1> QED
  BY <1>1, <1>2, <1>3, <1>4, <1>5, QuietSteps DEF Safe

\* When nothing fails and the users registered before have different usernames,
\* careful users never register one twice, also not in another case.
THEOREM CarefulUsernames ==
    NoFailures /\ RegisteredDiffer /\ CarefulSpec => []UniqueUsernames
<1>1. RegisteredDiffer /\ AccountsInit => UniqueUsernames
  BY DEF RegisteredDiffer, AccountsInit, Init, UniqueUsernames
<1>2. Safe /\ UniqueInv /\ UniqueUsernames
          /\ [AccountsNext /\ Careful' /\ Patient]_accountVars => UniqueUsernames'
  BY UsernamesStayUnique DEF CarefulNext
<1> QED
  BY <1>1, <1>2, SafeAlways, UniqueAlways, PTL DEF CarefulSpec

----------------------------------------------------------------------------
(* When nothing fails: the message list is opened for whoever is signed in *)

\* The account that is signed in, if any, has no name yet.
Nameless(d) == session[d] # None => accounts[session[d]] = None

OwnName(d) ==
    screen[d] = "Main" /\ session[d] # None /\ listName[d] # None =>
        listName[d] = accounts[session[d]]

\* Away from the message list, an account that is signed in has no name, but while
\* its own sign-up is being posted; so the list is opened for the account's name, or
\* for null, and a login replaces no account that the list is already shown for.
MainOf(d) ==
    /\ OwnName(d)
    /\ screen[d] = "Loading" => session[d] = None
    /\ LoggingIn(d) => Nameless(d)
    /\ screen[d] \in {"SignUp", "Login"} =>
          \/ Nameless(d)
          \/ \E r \in Requests : task[r].step = "posting" /\ task[r].device = d

\* A sign-up names the account of its device.  Whoever else has logged in with the
\* account is on the message list.
NamesOwn(r) ==
    /\ task[r].step = "creating" => Nameless(task[r].device)
    /\ task[r].step \in {"naming", "posting"} => session[task[r].device] = task[r].email
    /\ task[r].step = "naming" =>
          \A x \in Devices \ {task[r].device} :
              session[x] = task[r].email => screen[x] = "Main" /\ ~LoggingIn(x)

MainInv ==
    /\ \A d \in Devices : MainOf(d)
    /\ \A r \in Requests : NamesOwn(r)

LEMMA MainInit ==
    ASSUME AccountsInit
    PROVE  MainInv
<1>1. \A d \in Devices : session[d] = None /\ screen[d] = "Loading"
  BY DEF AccountsInit
<1>2. \A r \in Requests : task[r].step = "unused"
  BY DEF AccountsInit, NoTask
<1> QED
  BY <1>1, <1>2 DEF MainInv, MainOf, OwnName, NamesOwn, Nameless

\* The event of a logout is seen when nobody is signed in.
LEMMA LogOutSeen ==
    ASSUME Held, SessionInv, NEW d \in Devices, events[d] # <<>>, ~Head(events[d])
    PROVE  session[d] = None
<1>1. events[d] \in Seq(BOOLEAN) /\ Head(events[d]) # TRUE /\ SessionOf(d)
  BY DEF Held, Known, TypesInv, ScreenTypes, SessionInv
<1> QED
  BY <1>1, EventFacts DEF SessionOf

\* Nothing is in progress on a device that shows the message list for nobody.
LEMMA NobodyIsBusy ==
    ASSUME SessionInv, NEW d \in Devices, session[d] = None,
           screen[d] \in {"Main", "Loading"}
    PROVE  ~Busy(d)
BY DEF SessionInv, SessionOf, LoggedOut

\* Whoever is on the message list with no login in progress stays so.
StaysOnMain(d) ==
    session'[d] # None =>
        \/ screen'[d] = "Main" /\ ~LoggingIn(d)'
        \/ session'[d] = session[d] /\ ~(screen[d] = "Main" /\ ~LoggingIn(d))

LEMMA DeviceTasks ==
    ASSUME Held, Careful', NEW d \in Devices, DeviceStep(d)
    PROVE  \/ UNCHANGED task
           \/ \E q \in Requests : Shown(d, q)
           \/ \E q \in Requests : Pressed(d, q)
<1>1. ShowSignUp(d) => UNCHANGED task \/ \E q \in Requests : Shown(d, q)
  BY ShownEffect
<1>2. CheckUsername(d) => \E q \in Requests : Pressed(d, q)
  BY PressedEffect
<1> QED
  BY <1>1, <1>2 DEF DeviceStep, AuthStateChanged, ToLogin, ToSignUp, Type, HandleLogin,
                    LoginSucceeds, LoginFails, LogOut, screens

LEMMA DeviceMainOf ==
    ASSUME Safe, MainInv, Careful', Patient, NEW d \in Devices, DeviceStep(d)
    PROVE  /\ MainOf(d)' /\ StaysOnMain(d)
           /\ Busy(d) /\ ~LoggingIn(d) => session'[d] = session[d]
<1>1. /\ ScreenTypes /\ Held /\ Careful /\ SessionInv /\ MainOf(d)
      /\ DOMAIN session = Devices /\ DOMAIN screen = Devices /\ DOMAIN listName = Devices
      /\ DOMAIN login = Devices
  BY DEF Safe, Held, Known, TypesInv, ScreenTypes, MainInv
<1>2. UNCHANGED accounts
  BY DEF DeviceStep, AuthStateChanged, ToLogin, ToSignUp, Type, CheckUsername,
         HandleLogin, LoginSucceeds, LoginFails, LogOut
<1>3. \A r \in Requests : task[r].step = "posting" => task'[r] = task[r]
  BY <1>1, DeviceTasks DEF Shown, Pressed
<1>4. CASE AuthStateChanged(d) /\ ~ShowSignUp(d)
  <2>1. /\ UNCHANGED <<session, login>> /\ ShowMain(d) /\ Head(events[d])
        /\ Alive(d)'
    <3>1. SessionOf(d)'
      BY <1>1, DeviceSession
    <3> QED
      BY <1>4, <3>1 DEF AuthStateChanged, SessionOf
  <2>2. screen'[d] = "Main"
    BY <1>1, <2>1 DEF ShowMain, Alive
  <2>3. listName'[d] = IF screen[d] = "Main" THEN listName[d]
                       ELSE IF session[d] = None THEN None ELSE accounts[session[d]]
    BY <1>1, <2>1 DEF ShowMain, DisplayName
  <2>4. OwnName(d)'
    BY <1>1, <1>2, <2>1, <2>2, <2>3 DEF OwnName, MainOf
  <2> QED
    BY <1>1, <1>2, <2>1, <2>2, <2>4 DEF MainOf, Nameless, StaysOnMain, LoggingIn
<1>5. CASE AuthStateChanged(d) /\ ShowSignUp(d)
  <2>1. UNCHANGED <<session, login>> /\ events[d] # <<>>
    BY <1>5 DEF AuthStateChanged
  <2>2. screen'[d] = "SignUp"
    BY <1>1, <1>5 DEF ShowSignUp
  <2>3. CASE Head(events[d])
    <3>1. ShowMain(d)
      BY <1>5, <2>3 DEF AuthStateChanged
    <3>2. screen'[d] # "SignUp"
      BY <1>1, <3>1 DEF ShowMain
    <3> QED
      BY <2>2, <3>2
  <2>4. CASE ~Head(events[d])
    <3>1. session[d] = None
      BY <1>1, <2>1, <2>4, LogOutSeen
    <3> QED
      BY <2>1, <2>2, <3>1 DEF MainOf, OwnName, Nameless, StaysOnMain
  <2> QED
    BY <2>3, <2>4
<1>6. CASE ToLogin(d) \/ ToSignUp(d)
  <2>1. /\ UNCHANGED <<session, login>> /\ screen[d] \in {"SignUp", "Login"}
        /\ screen'[d] \in {"SignUp", "Login"}
    BY <1>1, <1>6 DEF ToLogin, ToSignUp, ShowSignUp
  <2> QED
    BY <1>1, <1>2, <1>3, <2>1 DEF MainOf, OwnName, Nameless, StaysOnMain, LoggingIn
<1>7. CASE Type(d) \/ CheckUsername(d)
  <2>1. UNCHANGED <<session, screen, listName, login>> /\ screen[d] = "SignUp"
    BY <1>7 DEF Type, CheckUsername, screens
  <2> QED
    BY <1>1, <1>2, <1>3, <2>1 DEF MainOf, OwnName, Nameless, StaysOnMain, LoggingIn
<1>8. CASE HandleLogin(d)
  <2>1. /\ UNCHANGED <<session, screen, task>> /\ screen[d] = "Login"
    BY <1>8 DEF HandleLogin
  <2>2. LoggingIn(d)'
    BY <1>1, <1>8, LoginBegun
  <2>3. \A r \in Requests : ~(task[r].step = "posting" /\ task[r].device = d)
    BY <2>1, <2>2 DEF Careful, Active
  <2> QED
    BY <1>1, <1>2, <2>1, <2>3 DEF MainOf, OwnName, Nameless, StaysOnMain
<1>9. CASE LoginFails(d)
  <2>1. UNCHANGED <<session, screen, listName, task>> /\ ~LoggingIn(d)'
    BY <1>1, <1>9, LoginSettled DEF LoginFails, Careful
  <2> QED
    BY <1>1, <1>2, <2>1 DEF MainOf, OwnName, Nameless, StaysOnMain
<1>10. CASE LoginSucceeds(d)
  <2>1. PICK e \in Emails : LoginEnds(d, e) /\ session' = [session EXCEPT ![d] = e]
    BY <1>1, <1>10 DEF LoginSucceeds, Held, Known, TypesInv, AccountTypes
  <2>2. /\ session'[d] = e /\ e # None /\ LoggingIn(d) /\ ~LoggingIn(d)' /\ ShowMain(d)
    <3>1. LoggingIn(d) /\ ~LoggingIn(d)'
      BY <1>1, <2>1, LoginSettled DEF Careful
    <3> QED
      BY <1>1, <1>10, <2>1, <3>1, NoneAssumption DEF LoginSucceeds
  <2>3. screen'[d] = "Main"
    BY <1>1, <2>2 DEF ShowMain
  <2>4. listName'[d] = IF screen[d] = "Main" THEN listName[d] ELSE accounts[e]
    BY <1>1, <2>2 DEF ShowMain, DisplayName
  <2>5. screen[d] = "Main" => listName[d] = None
    <3>1. screen[d] = "Main" => session[d] # None
      BY <1>1, <2>2, NobodyIsBusy DEF Busy
    <3> QED
      BY <1>1, <2>2, <3>1 DEF MainOf, OwnName, Nameless
  <2>6. OwnName(d)'
    BY <1>2, <2>2, <2>3, <2>4, <2>5 DEF OwnName
  <2> QED
    BY <2>2, <2>3, <2>6 DEF MainOf, StaysOnMain
<1>11. CASE LogOut(d)
  <2>1. /\ session[d] # None /\ session'[d] = None /\ screen[d] = "Main"
        /\ screen'[d] = "Main"
    BY <1>1, <1>11 DEF LogOut, screens
  <2>2. ~Busy(d)
    BY <2>1 DEF Patient
  <2> QED
    BY <2>1, <2>2 DEF MainOf, OwnName, Nameless, StaysOnMain
<1> QED
  BY <1>4, <1>5, <1>6, <1>7, <1>8, <1>9, <1>10, <1>11 DEF DeviceStep

LEMMA DeviceMain ==
    ASSUME Safe, MainInv, Careful', Patient, NEW d \in Devices, DeviceStep(d)
    PROVE  MainInv'
<1>1. /\ MainOf(d)' /\ StaysOnMain(d)
      /\ Busy(d) /\ ~LoggingIn(d) => session'[d] = session[d]
  BY DeviceMainOf
<1>2. Held /\ Careful
  BY DEF Safe
<1>3. \A x \in Devices \ {d} :
          /\ session'[x] = session[x] /\ screen'[x] = screen[x]
          /\ listName'[x] = listName[x] /\ login'[x] = login[x]
  BY <1>2, OthersKept
<1>4. UNCHANGED accounts
  BY DEF DeviceStep, AuthStateChanged, ToLogin, ToSignUp, Type, CheckUsername,
         HandleLogin, LoginSucceeds, LoginFails, LogOut
<1>5. \A r \in Requests : Active(r) => task'[r] = task[r]
  BY <1>2, DeviceTasks DEF Shown, Pressed, Active
<1>6. ASSUME NEW x \in Devices \ {d}
      PROVE  MainOf(x)'
  <2>1. MainOf(x)
    BY DEF MainInv
  <2>2. \A r \in Requests : task[r].step = "posting" => task'[r] = task[r]
    BY <1>5 DEF Active
  <2> QED
    BY <1>3, <1>4, <2>1, <2>2 DEF MainOf, OwnName, Nameless, LoggingIn
<1>7. ASSUME NEW r \in Requests, Active(r)
      PROVE  NamesOwn(r)'
  <2>1. task'[r] = task[r] /\ task[r].device \in Devices /\ NamesOwn(r)
    BY <1>2, <1>5, <1>7 DEF Held, Known, TypesInv, TaskOf, MainInv
  <2>2. session'[task[r].device] = session[task[r].device]
    <3>1. CASE task[r].device = d
      <4>1. Busy(d) /\ ~LoggingIn(d)
        BY <1>2, <1>7, <3>1 DEF Careful, Busy
      <4> QED
        BY <1>1, <3>1, <4>1
    <3>2. CASE task[r].device # d
      BY <1>3, <2>1, <3>2
    <3> QED
      BY <3>1, <3>2
  <2>3. ASSUME task[r].step = "naming", NEW x \in Devices \ {task[r].device},
               session'[x] = task[r].email
        PROVE  screen'[x] = "Main" /\ ~LoggingIn(x)'
    <3>1. task[r].email # None
      BY <2>3, NoneAssumption
         DEF Safe, Held, Known, AccountsInv, NamingInv, TypesInv, AccountTypes
    <3> QED
      BY <1>1, <1>3, <2>1, <2>3, <3>1 DEF NamesOwn, StaysOnMain, LoggingIn
  <2> QED
    BY <1>4, <2>1, <2>2, <2>3 DEF NamesOwn, Nameless
<1>8. ASSUME NEW r \in Requests, ~Active(r)
      PROVE  NamesOwn(r)'
  <2>1. CASE UNCHANGED task
    BY <1>8, <2>1 DEF NamesOwn, Active
  <2>2. CASE \E q \in Requests : Shown(d, q)
    BY <1>8, <2>2 DEF Shown, NamesOwn, Active
  <2>3. CASE \E q \in Requests : Pressed(d, q)
    <3>1. PICK q \in Requests : Pressed(d, q)
      BY <2>3
    <3>2. UNCHANGED session /\ screen[d] = "SignUp" /\ MainOf(d)
      BY <3>1 DEF Pressed, CheckUsername, MainInv
    <3>3. \A s \in Requests : task[s].step # "posting"
      BY <3>1 DEF Pressed, Active
    <3>4. Nameless(d)
      BY <3>2, <3>3 DEF MainOf
    <3>5. task'[q].step = "creating" /\ task'[q].device = d
      BY <3>1 DEF Pressed
    <3>6. CASE r = q
      BY <1>4, <3>2, <3>4, <3>5, <3>6 DEF NamesOwn, Nameless
    <3>7. CASE r # q
      BY <1>8, <3>1, <3>7 DEF Pressed, NamesOwn, Active
    <3> QED
      BY <3>6, <3>7
  <2> QED
    BY <1>2, <2>1, <2>2, <2>3, DeviceTasks
<1> QED
  BY <1>1, <1>6, <1>7, <1>8 DEF MainInv

\* The step of a sign-up, when it is the only task in progress
LEMMA SignUpMain ==
    ASSUME Safe, UniqueInv, MainInv, NEW r \in Requests, Active(r), SignUpStep(r), ~Mishap
    PROVE  MainInv'
<1>0. PICK d : d = task[r].device
  OBVIOUS
<1>1. /\ d \in Devices /\ task[r] \in Task /\ task \in [Requests -> Task]
      /\ Held /\ AccountTypes /\ RequestOf(r) /\ NamesOwn(r) /\ ~LoggingIn(d)
      /\ \A x \in Devices : MainOf(x)
      /\ DOMAIN session = Devices /\ DOMAIN screen = Devices /\ DOMAIN listName = Devices
  BY <1>0 DEF Safe, Held, Known, TypesInv, TaskOf, AccountsInv, ScreensOK, ScreenTypes,
              UniqueInv, MainInv, Careful
<1>2. \A s \in Requests \ {r} : ~Active(s) /\ task'[s] = task[s]
  BY <1>1, SignUpGoes DEF Safe, Careful
<1>3. \A s \in Requests \ {r} : NamesOwn(s)'
  BY <1>2 DEF NamesOwn, Active
<1>4. UNCHANGED login
  BY DEF SignUpStep, UsernamesArrive, CreateAccount, CreateFails, UpdateProfile,
         UpdateProfileFails, UserAdded, FetchFails, screens
<1>5. EndTask(r) => task'[r].step = "ended"
  BY <1>1, EndedIsTask DEF EndTask
<1>6. ASSUME task'[r].step = "ended"
      PROVE  NamesOwn(r)'
  BY <1>6 DEF NamesOwn
\* No device but d is in the middle of posting.
<1>7. \A x \in Devices \ {d} : screen[x] \in {"SignUp", "Login"} => Nameless(x)
  BY <1>0, <1>1, <1>2 DEF MainOf, Active
<1>8. task[r].step # "posting" => (screen[d] \in {"SignUp", "Login"} => Nameless(d))
  BY <1>1, <1>2 DEF MainOf, Active
\* Whoever keeps the session, the screen and the name keeps the rest.
<1>9. ASSUME NEW x \in Devices, screen'[x] = screen[x], session'[x] = session[x],
             listName'[x] = listName[x],
             session[x] # None => accounts'[session[x]] = accounts[session[x]],
             screen[x] \in {"SignUp", "Login"} => Nameless(x)
      PROVE  MainOf(x)'
  BY <1>1, <1>4, <1>9 DEF MainOf, OwnName, Nameless, LoggingIn
<1>10. ASSUME UNCHANGED <<session, screen, listName, accounts>>,
              task'[r].step = "ended", task[r].step # "posting"
       PROVE  MainInv'
  <2>1. \A x \in Devices : MainOf(x)'
    BY <1>7, <1>8, <1>9, <1>10
  <2> QED
    BY <1>3, <1>6, <1>10, <2>1 DEF MainInv
<1>11. CASE UsernamesArrive(r) \/ CreateFails(r)
  BY <1>5, <1>10, <1>11 DEF UsernamesArrive, CreateFails, screens
<1>12. CASE FetchFails(r)
  <2>1. pc[r] = "lost" /\ task[r].step \in {"listing", "posting"}
    BY <1>12 DEF FetchFails
  <2> QED
    BY <1>1, <2>1 DEF RequestOf, ListingOf, PostingOf
<1>13. CASE UpdateProfileFails(r)
  BY <1>13 DEF UpdateProfileFails
<1>14. CASE CreateAccount(r)
  <2>1. /\ task[r].step = "creating" /\ task[r].email \notin DOMAIN accounts
        /\ accounts' = WithAccount(task[r].email)
        /\ session' = [session EXCEPT ![d] = task[r].email]
        /\ UNCHANGED <<screen, listName>>
    BY <1>0, <1>14 DEF CreateAccount, screens
  <2>2. /\ task'[r].step = "naming" /\ task'[r].device = d /\ task'[r].email = task[r].email
    BY <1>0, <1>1, <1>14 DEF CreateAccount, Task
  <2>3. /\ accounts'[task[r].email] = None
        /\ \A e \in DOMAIN accounts : accounts'[e] = accounts[e]
    BY <2>1 DEF WithAccount
  <2>4. session'[d] = task[r].email /\ task[r].email # None
    BY <1>1, <2>1, NoneAssumption DEF TaskOf, Held, Known, TypesInv
  <2>5. \A x \in Devices \ {d} : MainOf(x)'
    <3>1. ASSUME NEW x \in Devices \ {d}
          PROVE  /\ session'[x] = session[x]
                 /\ session[x] # None => accounts'[session[x]] = accounts[session[x]]
      BY <1>1, <2>1, <2>3 DEF AccountTypes
    <3> QED
      BY <1>7, <1>9, <2>1, <3>1
  <2>6. Busy(d)
    BY <1>0 DEF Busy
  <2>7. MainOf(d)'
    <3>1. screen[d] # "Loading"
      BY <1>1, <2>6, NobodyIsBusy DEF Safe, MainOf
    <3>2. ASSUME screen[d] = "Main"
          PROVE  session[d] # None
      BY <1>1, <2>6, <3>2, NobodyIsBusy DEF Safe
    <3>3. screen[d] = "Main" => listName[d] = None
      BY <1>0, <1>1, <2>1, <3>2 DEF MainOf, OwnName, NamesOwn, Nameless
    <3>4. Nameless(d)'
      BY <2>3, <2>4 DEF Nameless
    <3> QED
      BY <2>1, <3>1, <3>3, <3>4 DEF MainOf, OwnName
  <2>8. NamesOwn(r)'
    <3>1. \A x \in Devices \ {d} : session'[x] # task[r].email
      BY <1>1, <2>1, <2>4 DEF AccountTypes
    <3> QED
      BY <2>2, <2>4, <3>1 DEF NamesOwn
  <2> QED
    BY <1>3, <2>5, <2>7, <2>8 DEF MainInv
<1>15. CASE UpdateProfile(r)
  <2>1. /\ task[r].step = "naming" /\ SetDisplayName(r)
        /\ UNCHANGED <<session, screen, listName>>
    BY <1>15 DEF UpdateProfile, screens
  <2>2. /\ task[r].email \in DOMAIN accounts /\ accounts[task[r].email] = None
        /\ task[r].name = form[task[r].on].username
    BY <2>1 DEF Safe, Held, Known, AccountsInv, NamingInv, CopiedInv, NamedInv
  <2>3. /\ accounts'[task[r].email] = task[r].name
        /\ \A e \in DOMAIN accounts \ {task[r].email} : accounts'[e] = accounts[e]
    BY <2>1, <2>2 DEF SetDisplayName
  <2>4. task[r].email # None /\ session[d] = task[r].email
    BY <1>0, <1>1, <2>1, <2>2, NoneAssumption DEF AccountTypes, NamesOwn
  <2>5. \A x \in Devices :
            session[x] # None /\ session[x] # task[r].email =>
                accounts'[session[x]] = accounts[session[x]]
    BY <1>1, <2>3 DEF AccountTypes
  <2>6. ASSUME NEW x \in Devices, session[x] = task[r].email, screen[x] = "Main"
        PROVE  listName[x] = None
    BY <1>1, <2>2, <2>4, <2>6 DEF MainOf, OwnName
  <2>7. ASSUME NEW x \in Devices \ {d}
        PROVE  MainOf(x)'
    <3>1. CASE session[x] = task[r].email
      <4>1. screen[x] = "Main" /\ ~LoggingIn(x)
        BY <1>0, <1>1, <2>1, <3>1 DEF NamesOwn
      <4> QED
        BY <1>4, <2>1, <2>6, <3>1, <4>1 DEF MainOf, OwnName, LoggingIn
    <3>2. CASE session[x] # task[r].email
      BY <1>7, <1>9, <2>1, <2>5, <3>2
    <3> QED
      BY <3>1, <3>2
  <2>8. /\ OwnName(d)' /\ ~LoggingIn(d)'
        /\ screen'[d] # "Loading"
    BY <1>1, <1>4, <2>1, <2>4, <2>6 DEF OwnName, MainOf, LoggingIn
  <2>9. CASE form[task[r].on].username = None
    <3>1. task'[r].step = "ended"
      BY <1>5, <1>15, <2>9 DEF UpdateProfile
    <3>2. Nameless(d)'
      BY <2>1, <2>2, <2>3, <2>4, <2>9 DEF Nameless
    <3>3. MainOf(d)'
      BY <2>8, <3>2 DEF MainOf
    <3> QED
      BY <1>3, <1>6, <2>7, <3>1, <3>3 DEF MainInv
  <2>10. CASE form[task[r].on].username # None
    <3>1. task' = [task EXCEPT ![r].step = "posting"]
      BY <1>15, <2>10 DEF UpdateProfile
    <3>2. /\ task'[r].step = "posting" /\ task'[r].device = d
          /\ task'[r].email = task[r].email
      BY <1>0, <1>1, <3>1 DEF Task
    <3>3. MainOf(d)'
      BY <2>8, <3>2 DEF MainOf
    <3>4. NamesOwn(r)'
      BY <2>1, <2>4, <3>2 DEF NamesOwn
    <3> QED
      BY <1>3, <2>7, <3>3, <3>4 DEF MainInv
  <2> QED
    BY <2>9, <2>10
<1>16. CASE UserAdded(r)
  <2>1. /\ task[r].step = "posting" /\ pc[r] = "done" /\ task'[r].step = "ended"
        /\ UNCHANGED <<accounts, session>>
    BY <1>5, <1>16 DEF UserAdded
  <2>2. reply[r].status = "SUCCESS" /\ task[r].email \in Named
    BY <1>1, <2>1 DEF RequestOf, PostingOf
  <2>3. ShowMain(d)
    BY <1>0, <1>16, <2>2 DEF UserAdded
  <2>4. session[d] = task[r].email /\ session[d] # None
    BY <1>0, <1>1, <2>1, <2>2, NoneAssumption DEF AccountTypes, NamesOwn, Named
  <2>5. /\ screen'[d] = "Main"
        /\ listName'[d] = IF screen[d] = "Main" THEN listName[d] ELSE accounts[session[d]]
    BY <1>1, <2>1, <2>3, <2>4 DEF ShowMain, DisplayName
  <2>6. MainOf(d)'
    BY <1>1, <1>4, <2>1, <2>5 DEF MainOf, OwnName, LoggingIn
  <2>7. ASSUME NEW x \in Devices \ {d}
        PROVE  MainOf(x)'
    <3>1. screen'[x] = screen[x] /\ listName'[x] = listName[x]
      BY <1>1, <2>3 DEF ShowMain
    <3> QED
      BY <1>7, <1>9, <2>1, <3>1
  <2> QED
    BY <1>3, <1>6, <2>1, <2>6, <2>7 DEF MainInv
<1> QED
  BY <1>11, <1>12, <1>13, <1>14, <1>15, <1>16 DEF SignUpStep

LEMMA MainInvStep ==
    ASSUME Safe, UniqueInv, MainInv, [CarefulNext]_accountVars
    PROVE  MainInv'
<1>1. ASSUME NEW d \in Devices, DeviceStep(d), Careful', Patient
      PROVE  MainInv'
  BY <1>1, DeviceMain
<1>2. ASSUME NEW r \in Requests, Active(r), SignUpStep(r), ~Mishap
      PROVE  MainInv'
  BY <1>2, SignUpMain
<1>3. ASSUME UNCHANGED <<accounts, session, screen, listName, login, task>>
      PROVE  MainInv'
  <2>1. \A d \in Devices : MainOf(d)'
    BY <1>3 DEF MainInv, MainOf, OwnName, Nameless, LoggingIn
  <2>2. \A r \in Requests : NamesOwn(r)'
    BY <1>3 DEF MainInv, NamesOwn, Nameless, LoggingIn
  <2> QED
    BY <2>1, <2>2 DEF MainInv
<1>4. UNCHANGED <<accounts, session, events, screens, task, mishaps>> \/ UNCHANGED accountVars
          => UNCHANGED <<accounts, session, screen, listName, login, task>>
  BY DEF accountVars, screens
<1> QED
  BY <1>1, <1>2, <1>3, <1>4, QuietSteps DEF Safe

LEMMA MainAlways == NoFailures /\ CarefulSpec => []MainInv
<1>1. AccountsInit => MainInv
  BY MainInit
<1>2. Safe /\ UniqueInv /\ MainInv /\ [AccountsNext /\ Careful' /\ Patient]_accountVars
          => MainInv'
  BY MainInvStep DEF CarefulNext
<1> QED
  BY <1>1, <1>2, SafeAlways, UniqueAlways, PTL DEF CarefulSpec

\* When nothing fails, the message list of careful users asks for the chats of the
\* account that is signed in, or of null when it was opened before the account had
\* a name: the name is read once, and who is signed in changes only where no name
\* has been read.
THEOREM CarefulMainShowsOwnName == NoFailures /\ CarefulSpec => []MainShowsOwnName
<1>1. MainInv => MainShowsOwnName
  BY DEF MainInv, MainOf, OwnName, MainShowsOwnName
<1> QED
  BY <1>1, MainAlways, PTL
=============================================================================
