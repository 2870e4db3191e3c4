------------------------- MODULE EndpointInspector -------------------------
(***************************************************************************)
(* rest_framework/schemas.py: the module-level helpers and the             *)
(* EndpointInspector class, which walks the URL conf and returns the       *)
(* sorted list of (path, method, callback) endpoints.                      *)
(*                                                                         *)
(* Data abstraction.                                                       *)
(*   - A URL regex is a sequence of pieces: a literal segment "users/", a  *)
(*     named group "(?P<pk>..)/", an unnamed group "(..)/" or the format   *)
(*     suffix "\.(?P<format>..)/?$" that format_suffix_patterns appends.   *)
(*     A resolver's prefix is joined to its children's regexes by          *)
(*     concatenation, as `prefix + pattern.regex.pattern` does.            *)
(*   - A path (URI template) is a sequence of segments; a segment is       *)
(*     static ("users"), a template variable ("{pk}") or the format        *)
(*     suffix (".{format}").                                               *)
(*   - Python compares path strings character by character.  Segment      *)
(*     names are drawn from letters, digits and "_", all greater than "/", *)
(*     so that order is the lexicographic order of the segment sequences   *)
(*     under the string order of segments, which SegOrder lists.  A        *)
(*     variable "{x}" sorts after every static name ("{" > "z").           *)
(*   - HTTP methods are case-free model strings: .upper() and .lower()     *)
(*     only change their spelling.                                         *)
(***************************************************************************)
EXTENDS Integers, Sequences, SequencesExt, FiniteSets

CONSTANTS
    Classes,     \* view classes: class name -> attributes (see ClassType)
    Callbacks,   \* view callbacks: callback name -> [cls, actions, initkwargs]
    SegOrder,    \* all segment names, in Python string order
    NoClass,     \* the callback has no `cls` attribute (a plain Django view)
    NoActions,   \* the callback has no `actions` attribute (not a viewset)
    None         \* Python None

Methods == {"GET", "POST", "PUT", "PATCH", "DELETE", "HEAD", "OPTIONS", "TRACE"}

Piece == [t : {"lit", "named", "unnamed", "fmt"}, name : STRING]
Segment == [kind : {"static", "var", "fmt"}, name : STRING]

(***************************************************************************)
(* is_api_view: the callback carries a class that subclasses APIView.      *)
(***************************************************************************)
is_api_view(cb) ==
    /\ Callbacks[cb].cls # NoClass
    /\ Classes[Callbacks[cb].cls].api

(***************************************************************************)
(* endpoint_ordering: the sort key (path, method_priority).                *)
(***************************************************************************)
MethodPriority(m) ==
    CASE m = "GET"    -> 0
      [] m = "POST"   -> 1
      [] m = "PUT"    -> 2
      [] m = "PATCH"  -> 3
      [] m = "DELETE" -> 4
      [] OTHER        -> 5

SegRank(s) ==
    LET r == CHOOSE i \in DOMAIN SegOrder : SegOrder[i] = s.name
    IN  IF s.kind = "static" THEN r ELSE Len(SegOrder) + r

\* Python's `<` on two path strings.
PathLess(p, q) ==
    \E i \in 0..Len(p) :
        /\ i <= Len(q)
        /\ SubSeq(p, 1, i) = SubSeq(q, 1, i)
        /\ \/ i = Len(p) /\ i < Len(q)
           \/ i < Len(p) /\ i < Len(q) /\ SegRank(p[i+1]) < SegRank(q[i+1])

\* Python's `<` on the tuples that endpoint_ordering returns.
OrderingLess(e1, e2) ==
    \/ PathLess(e1.path, e2.path)
    \/ e1.path = e2.path /\ MethodPriority(e1.method) < MethodPriority(e2.method)

(***************************************************************************)
(* sorted(api_endpoints, key=endpoint_ordering): a stable sort.  Each      *)
(* element is placed after every element already placed whose key is not  *)
(* greater than its own.                                                  *)
(***************************************************************************)
InsertSorted(t, e) ==
    LET k == Cardinality({i \in DOMAIN t : ~OrderingLess(e, t[i])})
    IN  SubSeq(t, 1, k) \o <<e>> \o SubSeq(t, k + 1, Len(t))

RECURSIVE SortEndpoints(_)
SortEndpoints(s) ==
    IF s = <<>> THEN <<>>
    ELSE LET sortedFront == SortEndpoints(Front(s))
         IN  InsertSorted(sortedFront, Last(s))

(***************************************************************************)
(* EndpointInspector.get_path_from_regex: simplify_regex turns named       *)
(* groups into <name>, unnamed groups into <var>, drops ^ $ ?, and the     *)
(* angle brackets then become braces.                                      *)
(***************************************************************************)
get_path_from_regex(path_regex) ==
    [i \in DOMAIN path_regex |->
        CASE path_regex[i].t = "lit"     -> [kind |-> "static", name |-> path_regex[i].name]
          [] path_regex[i].t = "named"   -> [kind |-> "var", name |-> path_regex[i].name]
          [] path_regex[i].t = "unnamed" -> [kind |-> "var", name |-> "var"]
          [] path_regex[i].t = "fmt"     -> [kind |-> "fmt", name |-> "format"]]

(***************************************************************************)
(* EndpointInspector.should_include_endpoint: REST framework views only,   *)
(* and not the ".{format}" duplicate of a route.                           *)
(***************************************************************************)
should_include_endpoint(path, cb) ==
    /\ is_api_view(cb)
    /\ ~(path # <<>> /\ Last(path).kind = "fmt")

(***************************************************************************)
(* EndpointInspector.get_allowed_methods: the viewset's action-map keys,   *)
(* upper-cased, else the class's allowed_methods less OPTIONS and HEAD.    *)
(***************************************************************************)
get_allowed_methods(cb) ==
    IF Callbacks[cb].actions # NoActions
    THEN [i \in DOMAIN Callbacks[cb].actions |-> Callbacks[cb].actions[i][1]]
    ELSE SelectSeq(Classes[Callbacks[cb].cls].allowed,
                   LAMBDA m : m \notin {"OPTIONS", "HEAD"})

(***************************************************************************)
(* EndpointInspector.get_api_endpoints: the endpoints of one URL pattern   *)
(* list under a regex prefix.  A pattern contributes one endpoint per      *)
(* allowed method when it is included; a resolver contributes its nested   *)
(* list under the extended prefix; any other node is skipped.  The list is *)
(* sorted before it is returned, at every level of the recursion.          *)
(***************************************************************************)
\* Variant with `path_regex = pattern.regex.pattern`: the resolver prefix is
\* lost.  EndpointsOrdered fails with it.
path_regex_noprefix(prefix, node) == node.regex

\* path_regex = prefix + pattern.regex.pattern
path_regex(prefix, node) == prefix \o node.regex

RECURSIVE get_api_endpoints(_, _)
get_api_endpoints(patterns, prefix) ==
    LET NodeEndpoints(node) ==
          LET path == get_path_from_regex(path_regex(prefix, node))
              methods == get_allowed_methods(node.callback)
          IN  CASE node.kind = "pattern" ->
                     IF should_include_endpoint(path, node.callback)
                     THEN [i \in DOMAIN methods |->
                             [path |-> path, method |-> methods[i],
                              callback |-> node.callback]]
                     ELSE <<>>
                [] node.kind = "resolver" ->
                     get_api_endpoints(node.children, path_regex(prefix, node))
                [] OTHER -> <<>>
    IN  SortEndpoints(FlattenSeq([i \in DOMAIN patterns |-> NodeEndpoints(patterns[i])]))

=============================================================================
