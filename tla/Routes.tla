------------------------------- MODULE Routes -------------------------------
(***************************************************************************)
(* The route table of node/server.js.  Express tries the routes in the     *)
(* order in which they were added and takes the first whose method and     *)
(* path fit; a request that fits none is answered with 404 and a page that *)
(* is not JSON.                                                            *)
(***************************************************************************)
EXTENDS Naturals, Sequences, SequencesExt

CONSTANT Empty  \* the empty text

\* A segment of a pattern that stands for a parameter, like :username
Param == ":"

ASSUME SegmentsAssumption ==
    Empty \notin {Param, "users", "existing", "messages", "message", "add", "user"}

Route(method, pattern, op) == [method |-> method, pattern |-> pattern, op |-> op]

\* Mutant: the routes of new messages and of new users change places
Routes_UserFirst ==
    <<Route("GET",  <<>>, "never"),
      Route("GET",  <<"users", "existing">>, "getExistingUsernames"),
      Route("GET",  <<Param>>, "getUserChats"),
      Route("GET",  <<Param, Param, "messages">>, "getUserChatMessages"),
      Route("PUT",  <<Param, Param, "message">>, "sendMessage"),
      Route("POST", <<"add", "user", Param>>, "addNewUser"),
      Route("POST", <<Param, Param, "message">>, "sendNewMessage")>>

\* GET / has a handler that never answers.
Routes ==
    <<Route("GET",  <<>>, "never"),
      Route("GET",  <<"users", "existing">>, "getExistingUsernames"),
      Route("GET",  <<Param>>, "getUserChats"),
      Route("GET",  <<Param, Param, "messages">>, "getUserChatMessages"),
      Route("PUT",  <<Param, Param, "message">>, "sendMessage"),
      Route("POST", <<Param, Param, "message">>, "sendNewMessage"),
      Route("POST", <<"add", "user", Param>>, "addNewUser")>>

\* A parameter takes any segment but an empty one.
Fits(route, method, path) ==
    /\ route.method = method
    /\ Len(route.pattern) = Len(path)
    /\ \A i \in DOMAIN path :
          \/ route.pattern[i] = path[i]
          \/ route.pattern[i] = Param /\ path[i] # Empty

\* The handler a request reaches; "none" stands for 404.
Dispatch(method, path) ==
    LET i == SelectInSeq(Routes, LAMBDA route : Fits(route, method, path))
    IN  IF i = 0 THEN "none" ELSE Routes[i].op
=============================================================================
