---------------------------- MODULE SimpleCallable ----------------------------
(***************************************************************************)
(* rest_framework/compat.py: is_simple_callable, "True if the object is a  *)
(* callable that takes no arguments".  Serializer fields use it to decide  *)
(* whether to call an attribute.  The code has two branches, chosen by the *)
(* running interpreter: inspect.signature from Python 3.3 on, and          *)
(* inspect.getargspec before.                                              *)
(*                                                                         *)
(* A Python-level callable is a function or a bound method with a          *)
(* parameter list.  A parameter is positional (with or without a default), *)
(* *args, keyword-only (Python 3; with or without a default) or **kwargs.  *)
(* The first parameter of a method is `self`, bound by the method object.  *)
(***************************************************************************)
EXTENDS Integers, Sequences, SequencesExt

CONSTANT PythonVersion   \* "py2" (getargspec branch) or "py3" (signature branch)

ParamKinds == {"positional", "var_positional", "keyword_only", "var_keyword"}

\* The order Python requires: positional, *args, keyword-only, **kwargs.
KindRank(k) ==
    CASE k = "positional" -> 1 [] k = "var_positional" -> 2
      [] k = "keyword_only" -> 3 [] k = "var_keyword" -> 4

\* A parameter list a def statement can declare.
ValidParams(ps) ==
    /\ \A i, j \in DOMAIN ps : i < j => KindRank(ps[i].kind) <= KindRank(ps[j].kind)
    /\ \A i, j \in DOMAIN ps : i < j /\ ps[i].kind = ps[j].kind => ps[i].kind \in {"positional", "keyword_only"}
    /\ \A i \in DOMAIN ps : ps[i].kind \in {"var_positional", "var_keyword"} => ~ps[i].default
    \* a positional parameter with a default is followed by positional ones with defaults
    /\ \A i, j \in DOMAIN ps : i < j /\ ps[i].kind = "positional" /\ ps[j].kind = "positional"
                               /\ ps[i].default => ps[j].default

(***************************************************************************)
(* The parameters a call sees: a bound method's list less `self`.          *)
(* inspect.signature of a bound method drops it, as the method object      *)
(* binds it.                                                               *)
(***************************************************************************)
CallParams(obj) == IF obj.kind = "method" THEN Tail(obj.params) ELSE obj.params

(***************************************************************************)
(* is_simple_callable.  Python 3.3+: the signature's parameters, against   *)
(* those with a default (the star parameters have none).  Earlier:          *)
(* getargspec's named positional args (self included for a method, so one *)
(* is subtracted) against its defaults tuple.                              *)
(***************************************************************************)
is_simple_callable_py3(obj) ==
    LET ps == CallParams(obj)
        defaults == SelectSeq(ps, LAMBDA p : p.default)
    IN  Len(ps) <= Len(defaults)

\* Variant that does not subtract `self` for a method.
\* SimpleCallableMatchesDocstring fails with it.
is_simple_callable_py2_self(obj) ==
    LET args == SelectSeq(obj.params, LAMBDA p : p.kind = "positional")
        len_defaults == Len(SelectSeq(args, LAMBDA p : p.default))
    IN  Len(args) <= len_defaults

is_simple_callable_py2(obj) ==
    LET args == SelectSeq(obj.params, LAMBDA p : p.kind = "positional")
        len_args == IF obj.kind = "function" THEN Len(args) ELSE Len(args) - 1
        len_defaults == Len(SelectSeq(args, LAMBDA p : p.default))
    IN  len_args <= len_defaults

\* The two functions are Python-level callables; anything else is not.
is_simple_callable(obj) ==
    IF obj.kind \notin {"function", "method"} THEN FALSE
    ELSE IF PythonVersion = "py3" THEN is_simple_callable_py3(obj)
    ELSE is_simple_callable_py2(obj)

-----------------------------------------------------------------------------
(***************************************************************************)
(* Reference, from the docstring: obj() succeeds, that is, every named     *)
(* parameter the call must bind has a default.  *args and **kwargs bind    *)
(* nothing.                                                                *)
(***************************************************************************)
TakesNoArguments(obj) ==
    \A p \in ToSet(CallParams(obj)) :
        p.kind \in {"positional", "keyword_only"} => p.default

=============================================================================
