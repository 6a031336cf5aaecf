---------------------------- MODULE MC_Accounts -----------------------------
(***************************************************************************)
(* Instances of sign-up for TLC: a username in two cases, two emails, and  *)
(* the two requests the devices make.                                      *)
(***************************************************************************)
EXTENDS AccountProperties

CONSTANTS ann, ANN, m, e1, e2

MCNames == {ann, ANN}
MCLower == [n \in MCNames |-> ann]
MCNobody == <<>>
MCMessages == {m}

Request(op, name) == [op |-> op, from |-> name, to |-> ann, message |-> m]

MCCalls == {Request("getExistingUsernames", ann),
            Request("addNewUser", ann), Request("addNewUser", ANN)}

Typed(n, e) == [username |-> n, email |-> e]

\* Any name, also none, with either email
MCForms == {Typed(n, e) : n \in {ann, ANN, None}, e \in {e1, e2}}

\* Two people who choose the same name
SameName == {Typed(ann, e1), Typed(ann, e2)}

\* A name that is typed and deleted again, and two names, with one email
Retyped  == {Typed(ann, e1), Typed(None, e1)}
OneEmail == {Typed(ann, e1), Typed(ANN, e1)}

\* The state after every device has opened the sign-up screen and has got the
\* list of usernames, which is empty, and ann has typed her name on each.
Opened(f) ==
    LET used == {f[d] : d \in Devices}
    IN  /\ Cardinality(used) = Cardinality(Devices)
        /\ users = <<>> /\ chat_ids = <<>> /\ chat_messages = <<>> /\ user_messages = <<>>
        /\ now = 0 /\ faults = 0
        /\ pc = [r \in Requests |-> IF r \in used THEN "done" ELSE "idle"]
        /\ call = [r \in Requests |->
                     IF r \in used THEN Request("getExistingUsernames", ann) ELSE NoCall]
        /\ local = [r \in Requests |->
                      [time |-> 0, chat |-> 0, fresh |-> FALSE, rows |-> <<>>]]
        /\ reply = [r \in Requests |->
                      IF r \in used THEN [status |-> "SUCCESS", body |-> <<>>] ELSE NoReply]
        /\ accounts = <<>>
        /\ session = [d \in Devices |-> None]
        /\ events = [d \in Devices |-> <<>>]
        /\ screen = [d \in Devices |-> "SignUp"]
        /\ mounted = f
        /\ form = [r \in Requests |-> IF r \in used THEN Typed(ann, e1) ELSE Typed(None, None)]
        /\ existing = [r \in Requests |-> {}]
        /\ task = [r \in Requests |-> IF r \in used THEN Ended ELSE NoTask]
        /\ listName = [d \in Devices |-> None]
        /\ login = [d \in Devices |-> NoLogin]
        /\ mishaps = 0

OpenedSpec ==
    (\E f \in [Devices -> Requests] : Opened(f)) /\ [][AccountsNext]_accountVars

\* Bound: one thing fails, on the server or on the devices.
OneFailure == faults + mishaps <= 1

AccountSymmetry == Permutations(Requests) \cup Permutations(Devices)
=============================================================================
