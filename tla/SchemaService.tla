--------------------------- MODULE SchemaService ---------------------------
(***************************************************************************)
(* What the schema view promises its callers: every call is answered, in  *)
(* one step, with the answer its request is entitled to (the schema       *)
(* document of the endpoints that request may see, None / 403 when it may *)
(* see none, or the error generation raises).  `expected` is that answer, *)
(* fixed by the URL conf and the caller's user.                            *)
(***************************************************************************)
CONSTANTS
    Callers,   \* the calls made on the service
    Pending    \* the answer of a call that has not returned

VARIABLES
    answer,    \* answer[c]: what call c returned, or Pending
    expected   \* expected[c]: what call c must return

Init == answer = [c \in Callers |-> Pending]

Respond(c) ==
    /\ answer[c] = Pending
    /\ answer' = [answer EXCEPT ![c] = expected[c]]
    /\ UNCHANGED expected

Next == \E c \in Callers : Respond(c)

vars == <<answer, expected>>

\* Every call is answered with what it is owed, and is answered eventually.
Safety == Init /\ [][Next]_vars

Spec == Safety /\ \A c \in Callers : WF_vars(Respond(c))

=============================================================================
