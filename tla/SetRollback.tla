----------------------------- MODULE SetRollback -----------------------------
(***************************************************************************)
(* rest_framework/compat.py: set_rollback, which the exception handler of  *)
(* an APIView calls when it turns an exception into an error response, and *)
(* the Django request transactions it acts on.                             *)
(*                                                                         *)
(* With ATOMIC_REQUESTS set for a database alias, Django runs the view in  *)
(* an atomic block on that alias.  The block commits when the view returns *)
(* a response and rolls back when an exception leaves it, or when the     *)
(* rollback flag of its connection was set.  An API error becomes a        *)
(* response, so only the flag can roll its writes back.                    *)
(*                                                                         *)
(* One request is modelled.  Django's connections are per thread, so the   *)
(* requests of other threads share none of this state.  The view may be    *)
(* called inside an atomic block of its caller on the default alias (a     *)
(* TestCase, or code that runs the view inside transaction.atomic()); the  *)
(* request's own block is then a savepoint of it.                          *)
(***************************************************************************)
EXTENDS FiniteSets

CONSTANTS
    Databases,       \* the aliases of settings.DATABASES
    Default,         \* the alias behind django.db.connection
    AtomicSettings,  \* candidate sets of aliases whose settings have ATOMIC_REQUESTS
    EnclosingAtomic  \* whether the caller may hold an atomic block on Default

VARIABLES
    atomic_requests, \* the aliases whose settings have ATOMIC_REQUESTS
    non_atomic,      \* the view is marked transaction.non_atomic_requests
    in_atomic,       \* in_atomic[db]: connection.in_atomic_block of alias db
    needs_rollback,  \* needs_rollback[db]: the flag transaction.set_rollback sets
    pending,         \* pending[db]: the view wrote to db inside the open block
    committed,       \* committed[db]: a write of the view to db is durable
    pc,              \* where the request is
    outcome,         \* how the view ended
    enclosing        \* the caller holds an atomic block on Default

vars == <<atomic_requests, non_atomic, in_atomic, needs_rollback, pending,
          committed, pc, outcome, enclosing>>

\* The aliases whose request transaction wraps this view.
Wrapped == {db \in atomic_requests : ~non_atomic}

(***************************************************************************)
(* BaseHandler.make_view_atomic: the view runs inside atomic(using=db) for  *)
(* every alias with ATOMIC_REQUESTS, unless it is non_atomic_requests.     *)
(***************************************************************************)
Init ==
    /\ atomic_requests \in AtomicSettings
    /\ non_atomic \in BOOLEAN
    /\ enclosing \in EnclosingAtomic
    /\ in_atomic = [db \in Databases |-> (db \in atomic_requests /\ ~non_atomic)
                                         \/ (db = Default /\ enclosing)]
    /\ needs_rollback = [db \in Databases |-> FALSE]
    /\ pending = [db \in Databases |-> FALSE]
    /\ committed = [db \in Databases |-> FALSE]
    /\ pc = "view"
    /\ outcome = "none"

\* The view writes to db: inside the atomic block, or in autocommit mode.
Write(db) ==
    /\ pc = "view"
    /\ ~pending[db] /\ ~committed[db]
    /\ IF in_atomic[db] THEN pending' = [pending EXCEPT ![db] = TRUE] /\ UNCHANGED committed
       ELSE committed' = [committed EXCEPT ![db] = TRUE] /\ UNCHANGED pending
    /\ UNCHANGED <<atomic_requests, non_atomic, enclosing, in_atomic, needs_rollback, pc, outcome>>

\* The view returns a response.
Respond ==
    /\ pc = "view"
    /\ pc' = "exit"
    /\ outcome' = "ok"
    /\ UNCHANGED <<atomic_requests, non_atomic, enclosing, in_atomic, needs_rollback, pending, committed>>

\* The view raises an APIException (or Http404, PermissionDenied): the
\* exception handler takes it and calls set_rollback.
RaiseAPIException ==
    /\ pc = "view"
    /\ pc' = "handler"
    /\ UNCHANGED <<atomic_requests, non_atomic, enclosing, in_atomic, needs_rollback, pending,
                   committed, outcome>>

\* The view raises anything else: the handler returns None and
\* handle_exception re-raises it.
RaiseOther ==
    /\ pc = "view"
    /\ pc' = "exit"
    /\ outcome' = "unhandled"
    /\ UNCHANGED <<atomic_requests, non_atomic, enclosing, in_atomic, needs_rollback, pending, committed>>

(***************************************************************************)
(* set_rollback, on Django >= 1.6, where transaction.set_rollback exists   *)
(* (this module imports django.apps, which needs 1.7, so the pre-1.6       *)
(* is_managed/leave_transaction_management branches never run).  It        *)
(* reads ATOMIC_REQUESTS and in_atomic_block of `connection`, the default  *)
(* alias only.  transaction.set_rollback(True) raises                      *)
(* TransactionManagementError outside an atomic block; the handler then    *)
(* fails with it.                                                          *)
(***************************************************************************)
MarkRollback(db, flag) ==
    /\ needs_rollback' = [needs_rollback EXCEPT ![db] = IF in_atomic[db] THEN flag ELSE @]
    /\ outcome' = IF in_atomic[db] THEN "handled" ELSE "handler_error"

\* The tests of set_rollback: ATOMIC_REQUESTS in the settings of
\* `connection`, then connection.in_atomic_block.
rollback_needed == Default \in atomic_requests /\ in_atomic[Default]

\* Variant passing False to transaction.set_rollback.
\* ErrorLeavesNoWrites fails with it.
set_rollback_cleared ==
    /\ pc = "handler"
    /\ IF rollback_needed THEN MarkRollback(Default, FALSE)
       ELSE UNCHANGED needs_rollback /\ outcome' = "handled"
    /\ pc' = "exit"
    /\ UNCHANGED <<atomic_requests, non_atomic, enclosing, in_atomic, pending, committed>>

set_rollback ==
    /\ pc = "handler"
    /\ IF rollback_needed THEN MarkRollback(Default, TRUE)
       ELSE UNCHANGED needs_rollback /\ outcome' = "handled"
    /\ pc' = "exit"
    /\ UNCHANGED <<atomic_requests, non_atomic, enclosing, in_atomic, pending, committed>>

(***************************************************************************)
(* The request's atomic blocks exit (Atomic.__exit__): each keeps the      *)
(* view's writes (commits them, or releases its savepoint into the         *)
(* caller's block) unless an exception is leaving it or its rollback flag  *)
(* is set, and clears the flag.  A block of the caller stays open, with    *)
(* its writes and its flag.                                                *)
(***************************************************************************)
AtomicExit ==
    /\ pc = "exit"
    /\ committed' = [db \in Databases |->
                       committed[db] \/ (db \in Wrapped /\ pending[db]
                                         /\ outcome \in {"ok", "handled"} /\ ~needs_rollback[db])]
    /\ pending' = [db \in Databases |-> pending[db] /\ db \notin Wrapped]
    /\ needs_rollback' = [db \in Databases |-> needs_rollback[db] /\ db \notin Wrapped]
    /\ in_atomic' = [db \in Databases |-> db = Default /\ enclosing]
    /\ pc' = "done"
    /\ UNCHANGED <<atomic_requests, non_atomic, enclosing, outcome>>

\* The request is over.
Terminated == pc = "done" /\ UNCHANGED vars

Next ==
    \/ \E db \in Databases : Write(db)
    \/ Respond \/ RaiseAPIException \/ RaiseOther
    \/ set_rollback
    \/ AtomicExit
    \/ Terminated

Spec == Init /\ [][Next]_vars

-----------------------------------------------------------------------------
(***************************************************************************)
(* A request that ends in an error leaves none of its writes in a          *)
(* database whose requests are atomic.  This holds whether the exception   *)
(* reached Django or the exception handler turned it into a response, in   *)
(* which case only set_rollback's flag stops the commit.                   *)
(***************************************************************************)
ErrorLeavesNoWrites ==
    (pc = "done" /\ outcome # "ok") => \A db \in Wrapped : ~committed[db]

(***************************************************************************)
(* "Mark a rollback as required, and allow it to be handled by Django":    *)
(* the flag set_rollback sets is the request's, so once the request is     *)
(* over no connection is left marked for rollback, and the caller's block  *)
(* can still run queries.  set_rollback tests in_atomic_block, which the   *)
(* caller's block also sets, even for a non_atomic_requests view.           *)
(***************************************************************************)
CallerBlockUsable == pc = "done" => \A db \in Databases : ~needs_rollback[db]

=============================================================================
