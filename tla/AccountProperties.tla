------------------------- MODULE AccountProperties --------------------------
(***************************************************************************)
(* What signing up promises, under any interleaving of devices and under   *)
(* sign-ups that do not overlap.                                           *)
(***************************************************************************)
EXTENDS Accounts

Named == {e \in DOMAIN accounts : accounts[e] # None}

\* Every variable of the devices and of Firebase keeps its type.
AccountsTypeOK ==
    /\ DOMAIN accounts \subseteq Emails
    /\ \A e \in DOMAIN accounts : accounts[e] \in Names \cup {None}
    /\ session \in [Devices -> Emails \cup {None}]
    /\ events \in [Devices -> Seq(BOOLEAN)]
    /\ screen \in [Devices -> Screens]
    /\ mounted \in [Devices -> Requests \cup {None}]
    /\ form \in [Requests -> Form]
    /\ existing \in [Requests -> SUBSET Names]
    /\ task \in [Requests -> [step : TaskSteps, device : Devices \cup {None},
                              on : Requests \cup {None}, email : Emails \cup {None},
                              name : Names \cup {None}]]
    /\ listName \in [Devices -> Names \cup {None}]
    /\ login \in [Devices -> [Emails -> 0..MaxLogins]]

\* The name under which a user sends and reads messages is given once and stays,
\* although screens that were left keep running their callbacks.
DisplayNameStays ==
    [][\A e \in Named : e \in Named' /\ accounts'[e] = accounts[e]]_accountVars

\* The server gets at most one user for every Firebase account, whatever fails
\* in between and however often the button is pressed.
OneUserPerAccount ==
    Len(users) <= Len(Registered) + Cardinality(DOMAIN accounts)

\* Someone who is signed in ends up on the message list, whichever screen was
\* shown and whatever was pressed meanwhile.
SignedInReachesMain ==
    \A d \in Devices :
        session[d] # None ~> screen[d] \in {"Main", "Failed"} \/ session[d] = None

\* Someone who has logged out ends up away from the message list.
SignedOutLeavesMain ==
    \A d \in Devices :
        session[d] = None ~> screen[d] # "Main" \/ session[d] # None

\* No username is registered twice, also not in another case.
UniqueUsernames ==
    \A i, j \in DOMAIN users : Lower[users[i]] = Lower[users[j]] => i = j

\* No two accounts send messages under one username.
UniqueDisplayNames ==
    \A e, f \in Named : Lower[accounts[e]] = Lower[accounts[f]] => e = f

\* A user the server lists is the display name of an account.
UsersHaveAccounts ==
    \A u \in ToSet(users) \ ToSet(Registered) : \E e \in Named : accounts[e] = u

----------------------------------------------------------------------------
(* Careful users: sign-ups one at a time, with a list of usernames that     *)
(* has arrived; and nobody types, logs in or logs out on a device that has  *)
(* a sign-up or a login in progress.                                       *)

LoggingIn(d) == \E e \in Emails : login[d][e] > 0

OneLogin(d) ==
    \A e, f \in Emails :
        login[d][e] > 0 /\ login[d][f] > 0 => e = f /\ login[d][e] = 1

Careful ==
    /\ \A d, e \in Devices : screen[d] = "SignUp" /\ screen[e] = "SignUp" => d = e
    /\ \A r, s \in Requests : Active(r) /\ Active(s) => r = s
    /\ \A r \in Requests : Active(r) => ~LoggingIn(task[r].device)
    /\ \A d \in Devices : OneLogin(d)

Busy(d) == LoggingIn(d) \/ \E r \in Requests : Active(r) /\ task[r].device = d

Patient ==
    \A d \in Devices : Busy(d) =>
        /\ mounted[d] # None => form'[mounted[d]] = form[mounted[d]]
        /\ session[d] # None => session'[d] # None

CarefulSpec ==
    AccountsInit /\ [][AccountsNext /\ Careful' /\ Patient]_accountVars

\* The message list is never opened for nobody, which would throw: an event that
\* is late does not navigate to it after a logout.
AppStaysAlive == \A d \in Devices : Alive(d)

\* The message list asks for the chats of the account that is signed in, or of
\* null when it was opened before the account had a name: never for those of
\* somebody who has used the device before.
MainShowsOwnName ==
    \A d \in Devices :
        screen[d] = "Main" /\ session[d] # None /\ listName[d] # None =>
            listName[d] = accounts[session[d]]

\* The listener hears of every change, and Firebase settles what it was asked.
FairAccountsSpec ==
    AccountsSpec /\ \A d \in Devices : WF_accountVars(Alive(d) /\ AuthStateChanged(d))
=============================================================================
