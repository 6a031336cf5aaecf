------------------------------ MODULE Accounts ------------------------------
(***************************************************************************)
(* Signing up, logging in and out: the screens of                          *)
(* react/Components/Auth/ on several devices, Firebase Auth, and the       *)
(* server of MessageServer, which they ask for the existing usernames and  *)
(* which they tell of a new user.                                          *)
(*                                                                         *)
(* Every request a device makes of the server has an identity r in         *)
(* Requests.  A sign-up screen asks for the usernames when it is mounted,  *)
(* so that request also identifies the screen; a press of "Sign Up" starts *)
(* a task whose identity is that of the POST it may end with.              *)
(***************************************************************************)
EXTENDS MessageServer

CONSTANTS
    Devices,
    Emails,
    None,       \* null; in a form, the empty text
    Forms,      \* what users type into a sign-up screen: a subset of Form
    MaxMishaps, \* bound on failures of Firebase, of the network and of the app
    MaxLogins   \* bound on logins with one email in progress on one device

Form == [username : Names \cup {None}, email : Emails \cup {None}]

ASSUME NoneAssumption  == None \notin Names \cup Emails \cup Requests
ASSUME FormsAssumption == Forms \subseteq Form
ASSUME MishapsAssumption == MaxMishaps \in Nat
ASSUME LoginsAssumption  == MaxLogins \in Nat

VARIABLES
    accounts,  \* Firebase: the display name of every account, by email
    session,   \* firebase.auth().currentUser on a device, by email
    events,    \* "is signed in", for the listener of Loading.js: not seen yet
    screen,    \* the route a device shows
    mounted,   \* the last sign-up screen a device has mounted
    form,      \* username and email in a sign-up screen
    existing,  \* existingUsernames of a sign-up screen
    task,      \* what a device still does about a request
    listName,  \* the username that a device's message list has in its state
    login,     \* how many signInWithEmailAndPassword are in progress, by email
    mishaps    \* failures of Firebase, of the network and of the app so far

server  == vars
screens == <<screen, mounted, form, existing, listName, login>>
accountVars == <<vars, accounts, session, events, screens, task, mishaps>>

Screens   == {"Loading", "SignUp", "Login", "Main", "Failed"}
TaskSteps == {"unused", "listing", "creating", "naming", "posting", "ended"}

NoTask == [step |-> "unused", device |-> None, on |-> None, email |-> None, name |-> None]
Ended  == [NoTask EXCEPT !.step = "ended"]

NoLogin == [e \in Emails |-> 0]

AccountsInit ==
    /\ Init
    /\ accounts = <<>>
    /\ session = [d \in Devices |-> None]
    /\ events = [d \in Devices |-> <<FALSE>>]
    /\ screen = [d \in Devices |-> "Loading"]
    /\ mounted = [d \in Devices |-> None]
    /\ form = [r \in Requests |-> [username |-> None, email |-> None]]
    /\ existing = [r \in Requests |-> {}]
    /\ task = [r \in Requests |-> NoTask]
    /\ listName = [d \in Devices |-> None]
    /\ login = [d \in Devices |-> NoLogin]
    /\ mishaps = 0

Mishap == mishaps < MaxMishaps /\ mishaps' = mishaps + 1

----------------------------------------------------------------------------
(* Navigation.  The switch navigator of App.js mounts the screen it goes   *)
(* to, and does nothing when that screen is already shown.                 *)

Unused(r) == task[r].step = "unused"
Active(r) == task[r].step \notin {"unused", "ended"}

\* Bound: a step the user decides on leaves a request for every sign-up screen
\* that the listener still has to show.
Room ==
    Cardinality({r \in Requests : Unused(r)}) >
        Cardinality(UNION {{d} \X {i \in DOMAIN events[d] : ~events[d][i]} :
                              d \in Devices})

\* fetch(): the request reaches its handler.
Fetch(r, op, name) ==
    /\ Receive(r)
    /\ call'[r].op = op
    /\ op = "addNewUser" => call'[r].from = name

\* componentDidMount of SignUp.js: a new screen asks for the usernames.  The
\* state of the message list is gone when the navigator has left it.
ShowSignUp(d) ==
    \/ /\ screen[d] = "SignUp"
       /\ UNCHANGED <<server, screen, mounted, listName, task>>
    \/ /\ screen[d] # "SignUp"
       /\ \E r \in Requests :
             /\ Unused(r)
             /\ Fetch(r, "getExistingUsernames", None)
             /\ task' = [task EXCEPT ![r].step = "listing", ![r].device = d,
                                     ![r].on = r]
             /\ mounted' = [mounted EXCEPT ![d] = r]
       /\ screen' = [screen EXCEPT ![d] = "SignUp"]
       /\ listName' = [listName EXCEPT ![d] = None]

\* currentUser.displayName, null as long as updateProfile has not set it
DisplayName(d) == IF session'[d] = None THEN None ELSE accounts[session'[d]]

\* Mutant: the name is handed over from the form of the last sign-up screen
ShowMain_Form(d) ==
    /\ screen' = [screen EXCEPT ![d] =
                     IF screen[d] = "Main" \/ session'[d] # None THEN "Main" ELSE "Failed"]
    /\ listName' = [listName EXCEPT ![d] =
                       IF screen[d] = "Main" THEN @ ELSE form[mounted[d]].username]

\* componentDidMount of MessagesAll.js takes the name of currentUser, and throws
\* when nobody is signed in: the app dies.
ShowMain(d) ==
    /\ screen' = [screen EXCEPT ![d] =
                     IF screen[d] = "Main" \/ session'[d] # None THEN "Main" ELSE "Failed"]
    /\ listName' = [listName EXCEPT ![d] =
                       IF screen[d] = "Main" THEN @ ELSE DisplayName(d)]

\* Mutant: the listener is removed when the loading screen is, as
\* componentWillUnmount means to
AuthStateChanged_Removed(d) ==
    /\ events[d] # <<>>
    /\ screen[d] = "Loading"
    /\ events' = [events EXCEPT ![d] = Tail(@)]
    /\ UNCHANGED <<accounts, session, form, existing, login, mishaps>>
    /\ \/ Head(events[d]) /\ ShowMain(d) /\ UNCHANGED <<server, mounted, task>>
       \/ ~Head(events[d]) /\ ShowSignUp(d)

\* The listener of Loading.js: never removed, so it navigates from any screen.
AuthStateChanged(d) ==
    /\ events[d] # <<>>
    /\ events' = [events EXCEPT ![d] = Tail(@)]
    /\ UNCHANGED <<accounts, session, form, existing, login, mishaps>>
    /\ \/ Head(events[d]) /\ ShowMain(d) /\ UNCHANGED <<server, mounted, task>>
       \/ ~Head(events[d]) /\ ShowSignUp(d)

ToLogin(d) ==
    /\ screen[d] = "SignUp"
    /\ screen' = [screen EXCEPT ![d] = "Login"]
    /\ UNCHANGED <<server, accounts, session, events, mounted, form, existing, task,
                   listName, login, mishaps>>

ToSignUp(d) ==
    /\ screen[d] = "Login"
    /\ Room
    /\ ShowSignUp(d)
    /\ UNCHANGED <<accounts, session, events, form, existing, login, mishaps>>

----------------------------------------------------------------------------
(* Sign-up                                                                 *)

EndTask(r) == task' = [task EXCEPT ![r] = Ended]

Type(d) ==
    /\ screen[d] = "SignUp"
    /\ \E f \in Forms : form' = [form EXCEPT ![mounted[d]] = f]
    /\ UNCHANGED <<server, accounts, session, events, screen, mounted, existing, task,
                   listName, login, mishaps>>

\* Mutant: the usernames of the answer are kept as they are
UsernamesArrive_AsSpelt(r) ==
    /\ task[r].step = "listing"
    /\ pc[r] = "done"
    /\ EndTask(r)
    /\ existing' = IF reply[r].status = "SUCCESS"
                     THEN [existing EXCEPT ![task[r].on] = ToSet(reply[r].body)]
                     ELSE existing
    /\ UNCHANGED <<server, accounts, session, events, screen, mounted, form, listName,
                   login, mishaps>>

\* makeRequest: names are compared in lower case; an error leaves the list empty.
UsernamesArrive(r) ==
    /\ task[r].step = "listing"
    /\ pc[r] = "done"
    /\ EndTask(r)
    /\ existing' = IF reply[r].status = "SUCCESS"
                     THEN [existing EXCEPT ![task[r].on] =
                              {Lower[u] : u \in ToSet(reply[r].body)}]
                     ELSE existing
    /\ UNCHANGED <<server, accounts, session, events, screen, mounted, form, listName,
                   login, mishaps>>

\* Mutant: the username is compared as it is typed
CheckUsername_AsTyped(d) ==
    /\ screen[d] = "SignUp"
    /\ Room
    /\ form[mounted[d]].email # None
    /\ form[mounted[d]].username \notin existing[mounted[d]]
    /\ \E r \in Requests :
          /\ Unused(r)
          /\ task' = [task EXCEPT ![r] =
                [step |-> "creating", device |-> d, on |-> mounted[d],
                 email |-> form[mounted[d]].email, name |-> None]]
    /\ UNCHANGED <<server, accounts, session, events, screens, mishaps>>

\* checkUsername and handleSignUp; an empty email is refused by Firebase.
CheckUsername(d) ==
    /\ screen[d] = "SignUp"
    /\ Room
    /\ LET f == form[mounted[d]]
       IN  /\ f.email # None
           /\ f.username # None => Lower[f.username] \notin existing[mounted[d]]
    /\ \E r \in Requests :
          /\ Unused(r)
          /\ task' = [task EXCEPT ![r] =
                [step |-> "creating", device |-> d, on |-> mounted[d],
                 email |-> form[mounted[d]].email, name |-> None]]
    /\ UNCHANGED <<server, accounts, session, events, screens, mishaps>>

\* A new account has no display name.
WithAccount(email) ==
    [e \in DOMAIN accounts \cup {email} |-> IF e = email THEN None ELSE accounts[e]]

\* Mutant: an email that is in use gets a new account
CreateAccount_Again(r) ==
    /\ task[r].step = "creating"
    /\ accounts' = WithAccount(task[r].email)
    /\ session' = [session EXCEPT ![task[r].device] = task[r].email]
    /\ events' = [events EXCEPT ![task[r].device] = Append(@, TRUE)]
    /\ task' = [task EXCEPT ![r].step = "naming", ![r].name = form[task[r].on].username]
    /\ UNCHANGED <<server, screens, mishaps>>

\* createUserWithEmailAndPassword signs the new user in; the callback asks for
\* the display name that is in the form now.
CreateAccount(r) ==
    /\ task[r].step = "creating"
    /\ task[r].email \notin DOMAIN accounts
    /\ accounts' = WithAccount(task[r].email)
    /\ session' = [session EXCEPT ![task[r].device] = task[r].email]
    /\ events' = [events EXCEPT ![task[r].device] = Append(@, TRUE)]
    /\ task' = [task EXCEPT ![r].step = "naming", ![r].name = form[task[r].on].username]
    /\ UNCHANGED <<server, screens, mishaps>>

\* Mutant: the sign-up goes on when the email is in use
CreateFails_GoesOn(r) ==
    /\ task[r].step = "creating"
    /\ task[r].email \in DOMAIN accounts
    /\ task' = [task EXCEPT ![r].step = "naming", ![r].name = form[task[r].on].username]
    /\ UNCHANGED <<server, accounts, session, events, screens, mishaps>>

\* auth/email-already-in-use and the other errors, also one that comes after the
\* account was created
CreateFails(r) ==
    /\ task[r].step = "creating"
    /\ EndTask(r)
    /\ \/ UNCHANGED <<accounts, mishaps>>
       \/ /\ Mishap
          /\ task[r].email \notin DOMAIN accounts
          /\ accounts' = WithAccount(task[r].email)
    /\ UNCHANGED <<server, session, events, screens>>

\* Mutants: the email becomes the display name; no display name is set
SetDisplayName_Email(r) == accounts' = [accounts EXCEPT ![task[r].email] = task[r].email]
SetDisplayName_None(r)  == UNCHANGED accounts

SetDisplayName(r) == accounts' = [accounts EXCEPT ![task[r].email] = task[r].name]

\* updateProfile, and addUserToDB with the username that is in the form then;
\* no route of the server matches an empty one.
UpdateProfile(r) ==
    /\ task[r].step = "naming"
    /\ SetDisplayName(r)
    /\ LET username == form[task[r].on].username
       IN  \/ /\ username # None
              /\ Fetch(r, "addNewUser", username)
              /\ task' = [task EXCEPT ![r].step = "posting"]
           \/ /\ username = None
              /\ EndTask(r)
              /\ UNCHANGED server
    /\ UNCHANGED <<session, events, screens, mishaps>>

\* The error is logged; the display name may have been set.
UpdateProfileFails(r) ==
    /\ Mishap
    /\ task[r].step = "naming"
    /\ SetDisplayName(r) \/ UNCHANGED accounts
    /\ EndTask(r)
    /\ UNCHANGED <<server, session, events, screens>>

UserAdded(r) ==
    /\ task[r].step = "posting"
    /\ pc[r] = "done"
    /\ EndTask(r)
    /\ UNCHANGED <<server, accounts, session, events, mounted, form, existing, login,
                   mishaps>>
    /\ \/ reply[r].status = "SUCCESS" /\ ShowMain(task[r].device)
       \/ reply[r].status # "SUCCESS" /\ UNCHANGED <<screen, listName>>

\* The server has died, or its answer is lost on the way: logged.
FetchFails(r) ==
    /\ task[r].step \in {"listing", "posting"}
    /\ \/ pc[r] = "lost" /\ UNCHANGED mishaps
       \/ Mishap
    /\ EndTask(r)
    /\ UNCHANGED <<server, accounts, session, events, screens>>

----------------------------------------------------------------------------
(* Login, logout, restart of the app                                       *)

\* The button is not disabled meanwhile: any number of logins may be in progress,
\* and be settled in any order.
HandleLogin(d) ==
    /\ screen[d] = "Login"
    /\ \E e \in Emails :
          /\ login[d][e] < MaxLogins
          /\ login' = [login EXCEPT ![d][e] = @ + 1]
    /\ UNCHANGED <<server, accounts, session, events, screen, mounted, form, existing,
                   task, listName, mishaps>>

LoginEnds(d, e) ==
    /\ login[d][e] > 0
    /\ login' = [login EXCEPT ![d][e] = @ - 1]

LoginSucceeds(d) ==
    /\ \E e \in DOMAIN accounts :
          /\ LoginEnds(d, e)
          /\ session' = [session EXCEPT ![d] = e]
    /\ events' = [events EXCEPT ![d] = Append(@, TRUE)]
    /\ ShowMain(d)
    /\ UNCHANGED <<server, accounts, mounted, form, existing, task, mishaps>>

LoginFails(d) ==
    /\ \E e \in Emails : LoginEnds(d, e)
    /\ UNCHANGED <<server, accounts, session, events, screen, mounted, form, existing,
                   task, listName, mishaps>>

\* Mutant: the button goes to the sign-up screen itself
LogOut_Navigates(d) ==
    /\ screen[d] = "Main"
    /\ session[d] # None
    /\ Room
    /\ session' = [session EXCEPT ![d] = None]
    /\ events' = [events EXCEPT ![d] = Append(@, FALSE)]
    /\ ShowSignUp(d)
    /\ UNCHANGED <<accounts, form, existing, login, mishaps>>

LogOut(d) ==
    /\ screen[d] = "Main"
    /\ session[d] # None
    /\ Room
    /\ session' = [session EXCEPT ![d] = None]
    /\ events' = [events EXCEPT ![d] = Append(@, FALSE)]
    /\ UNCHANGED <<server, accounts, screens, task, mishaps>>

\* The app is stopped at any point and opened again; Firebase keeps the session.
RestartApp(d) ==
    /\ Mishap
    /\ Room
    /\ screen' = [screen EXCEPT ![d] = "Loading"]
    /\ events' = [events EXCEPT ![d] = <<session[d] # None>>]
    /\ listName' = [listName EXCEPT ![d] = None]
    /\ login' = [login EXCEPT ![d] = NoLogin]
    /\ task' = [r \in Requests |->
                   IF task[r].device = d THEN Ended ELSE task[r]]
    /\ UNCHANGED <<server, accounts, session, mounted, form, existing>>

----------------------------------------------------------------------------

ServerStep ==
    /\ \/ \E r \in Requests : Step(r) \/ CallFails(r) \/ AckLost(r)
       \/ Crash
    /\ UNCHANGED <<accounts, session, events, screens, task, mishaps>>

SignUpStep(r) ==
    \/ UsernamesArrive(r) \/ CreateAccount(r) \/ CreateFails(r) \/ UpdateProfile(r)
    \/ UpdateProfileFails(r) \/ UserAdded(r) \/ FetchFails(r)

DeviceStep(d) ==
    \/ AuthStateChanged(d) \/ ToLogin(d) \/ ToSignUp(d) \/ Type(d) \/ CheckUsername(d)
    \/ HandleLogin(d) \/ LoginSucceeds(d) \/ LoginFails(d) \/ LogOut(d)

Alive(d) == screen[d] # "Failed"

AccountsNext ==
    \/ \E d \in Devices : RestartApp(d) \/ (Alive(d) /\ DeviceStep(d))
    \/ \E r \in Requests : Active(r) /\ Alive(task[r].device) /\ SignUpStep(r)
    \/ ServerStep

AccountsSpec == AccountsInit /\ [][AccountsNext]_accountVars
=============================================================================
