------------------------------ MODULE MCCompat ------------------------------
(***************************************************************************)
(* The two functions of rest_framework/compat.py that have behaviour of    *)
(* their own, checked in one model.  set_rollback: one request over two    *)
(* database aliases, a view that is atomic or not, called inside a block  *)
(* of its caller or not.  is_simple_callable: every function and bound     *)
(* method with up to five parameters that the running Python version can  *)
(* declare, as the input `obj`, which no step changes.                     *)
(***************************************************************************)
EXTENDS SetRollback, SimpleCallable

CONSTANTS default, other

MCDatabases == {default, other}

\* ATOMIC_REQUESTS on the default alias or on none; or on any alias.
DefaultOnly == {{}, {default}}
AnyAtomic == SUBSET MCDatabases

Param == [kind : ParamKinds, default : BOOLEAN]

\* Python 2 has no keyword-only parameters.
Declarable(ps) ==
    ValidParams(ps) /\ (PythonVersion = "py2" => \A i \in DOMAIN ps : ps[i].kind # "keyword_only")

\* A method's first parameter is its positional `self`.
Callables ==
    {[kind |-> k, params |-> ps] :
        k \in {"function", "method"},
        ps \in {s \in BoundedSeq(Param, 5) : Declarable(s)}}
    \ {o \in [kind : {"method"}, params : Seq(Param)] :
          o.params = <<>> \/ o.params[1].kind # "positional"}

VARIABLE obj

CompatInit == Init /\ obj \in Callables

CompatSpec == CompatInit /\ [][Next /\ UNCHANGED obj]_<<vars, obj>>

(***************************************************************************)
(* is_simple_callable agrees with its docstring on every function and      *)
(* bound method: it is True exactly when the object can be called with no  *)
(* arguments.  This is what the counting of named parameters against       *)
(* defaults, less a method's self, must achieve.                           *)
(***************************************************************************)
SimpleCallableMatchesDocstring == is_simple_callable(obj) = TakesNoArguments(obj)

=============================================================================
