-------------------------- MODULE SchemaGenerator --------------------------
(***************************************************************************)
(* rest_framework/schemas.py: SchemaGenerator and the SchemaView that      *)
(* get_schema_view returns.  One generator is built when the URL conf is   *)
(* loaded and is shared by every request the schema view serves; request   *)
(* threads run get_schema concurrently.  The only state they share is the  *)
(* memoised endpoint list `self.endpoints`.                                *)
(*                                                                         *)
(* A Link is abstracted to its url (the path), action (the method), the    *)
(* set of its path variables (uritemplate.variables returns them in set    *)
(* order), its body/form fields, its query fields, its encoding and its   *)
(* description (Description.tla).  The joining of the path onto self.url   *)
(* is not modelled.                                                        *)
(***************************************************************************)
EXTENDS EndpointInspector, Description

CONSTANTS
    Callers,      \* request threads calling get_schema on the shared generator
    Users,        \* users that requests are authenticated as
    NoRequest,    \* get_schema() called without a request
    RouteTables,  \* candidate URL confs (root urlpatterns lists)
    FieldParent   \* serializer field class -> its base class (single inheritance)

(***************************************************************************)
(* types_lookup: ClassLookupDict keyed by serializer field classes; a      *)
(* lookup walks the field's class hierarchy, most-derived class first.     *)
(***************************************************************************)
types_lookup_table ==
    [c \in {"Field", "IntegerField", "FloatField", "DecimalField",
            "BooleanField", "FileField", "MultipleChoiceField",
            "ManyRelatedField", "Serializer", "ListSerializer"} |->
        CASE c = "Field"               -> "string"
          [] c = "IntegerField"        -> "integer"
          [] c \in {"FloatField", "DecimalField"} -> "number"
          [] c = "BooleanField"        -> "boolean"
          [] c = "FileField"           -> "file"
          [] c = "Serializer"          -> "object"
          [] OTHER                     -> "array"]

RECURSIVE types_lookup(_)
types_lookup(cls) ==
    IF cls \in DOMAIN types_lookup_table THEN types_lookup_table[cls]
    ELSE types_lookup(FieldParent[cls])

(***************************************************************************)
(* as_query_fields: plain names become optional query Fields.              *)
(***************************************************************************)
as_query_fields(items) ==
    [i \in DOMAIN items |->
        IF items[i].field
        THEN [name |-> items[i].name, location |-> items[i].location,
              required |-> items[i].required, type |-> ""]
        ELSE [name |-> items[i].name, location |-> "query",
              required |-> FALSE, type |-> ""]]

is_custom_action(action) ==
    action \notin {"retrieve", "list", "create", "update", "partial_update", "destroy"}

(***************************************************************************)
(* is_list_view: a viewset's explicit action, else a GET whose last path   *)
(* component holds no template variable.                                   *)
(***************************************************************************)
is_list_view(path, method, view) ==
    IF view.hasAction THEN view.action = "list"
    ELSE /\ method = "GET"
         /\ ~(path # <<>> /\ Last(path).kind = "var")

\* SchemaGenerator.default_mapping
default_mapping ==
    [m \in {"GET", "POST", "PUT", "PATCH", "DELETE"} |->
        CASE m = "GET" -> "retrieve" [] m = "POST" -> "create"
          [] m = "PUT" -> "update"   [] m = "PATCH" -> "partial_update"
          [] m = "DELETE" -> "destroy"]

(***************************************************************************)
(* SchemaGenerator.create_view: a fresh view instance with the callback's  *)
(* initkwargs applied, the action map attached and the action resolved,    *)
(* and a clone of the request, with the endpoint's method, when there is   *)
(* one.  The only initkwarg that changes what is modelled is              *)
(* exclude_from_schema.                                                    *)
(***************************************************************************)
ActionOf(actions, method) ==
    IF \E i \in DOMAIN actions : actions[i][1] = method
    THEN actions[CHOOSE i \in DOMAIN actions : actions[i][1] = method][2]
    ELSE None

create_view(cb, method, request) ==
    LET c == Callbacks[cb]
    IN  [cls       |-> c.cls,
         exclude   |-> IF "exclude_from_schema" \in DOMAIN c.initkwargs
                       THEN c.initkwargs["exclude_from_schema"]
                       ELSE Classes[c.cls].exclude,
         actionMap |-> c.actions,
         hasAction |-> c.actions # NoActions,
         action    |-> IF c.actions = NoActions THEN None
                       ELSE IF method = "OPTIONS" THEN "metadata"
                       ELSE ActionOf(c.actions, method),
         request   |-> IF request = NoRequest THEN None
                       ELSE [user |-> request, method |-> method]]

(***************************************************************************)
(* SchemaGenerator.should_include_view: not excluded, and either no        *)
(* request or check_permissions(request) does not raise.  The permission  *)
(* classes see the cloned request's method: a class grants its `read`      *)
(* users the safe methods and its `write` users the others.                *)
(***************************************************************************)
check_permissions_passes(view) ==
    view.request.user \in
        IF view.request.method \in {"GET", "HEAD", "OPTIONS"}
        THEN Classes[view.cls].perm.read ELSE Classes[view.cls].perm.write

\* Variant testing for a request before the exclusion flag.
\* DocumentMatchesVisible fails with it.
should_include_view_unordered(path, method, view) ==
    IF view.request = None THEN TRUE
    ELSE IF view.exclude THEN FALSE
    ELSE check_permissions_passes(view)

should_include_view(path, method, view) ==
    IF view.exclude THEN FALSE
    ELSE IF view.request = None THEN TRUE
    ELSE check_permissions_passes(view)

(***************************************************************************)
(* The field sources of get_link.                                          *)
(***************************************************************************)
\* Variant that types a form field by its class name, without
\* types_lookup.  TypeOK fails with it.
form_field_untyped(f, method) ==
    [name |-> f.source, location |-> "form",
     required |-> f.required /\ method # "PATCH", type |-> f.cls]

\* The coreapi.Field of one writable serializer field.
form_field(f, method) ==
    [name |-> f.source, location |-> "form",
     required |-> f.required /\ method # "PATCH", type |-> types_lookup(f.cls)]

get_serializer_fields(path, method, view) ==
    LET k == Classes[view.cls]
    IN  IF method \notin {"PUT", "PATCH", "POST"} \/ k.serializer = "none" THEN <<>>
        ELSE IF k.serializer = "list"
        THEN <<[name |-> "data", location |-> "body", required |-> TRUE, type |-> "array"]>>
        ELSE IF k.serializer # "object" THEN <<>>
        ELSE LET writable == SelectSeq(k.fields,
                               LAMBDA f : ~f.read_only /\ f.cls # "HiddenField")
             IN  [i \in DOMAIN writable |-> form_field(writable[i], method)]

get_pagination_fields(path, method, view) ==
    IF ~is_list_view(path, method, view) \/ Classes[view.cls].pagination = None
    THEN <<>>
    ELSE as_query_fields(Classes[view.cls].pagination)

get_filter_fields(path, method, view) ==
    IF ~is_list_view(path, method, view) THEN <<>>
    ELSE LET backends == Classes[view.cls].filters
         IN  FlattenSeq([i \in DOMAIN backends |-> as_query_fields(backends[i])])

\* get_encoding: the first parser whose media type Core API supports.
get_encoding(path, method, view) ==
    LET parsers == Classes[view.cls].parsers
        hits == {i \in DOMAIN parsers :
                   parsers[i] \in {"application/json", "application/x-www-form-urlencoded",
                                   "multipart/form-data", "*/*"}}
        first == CHOOSE i \in hits : \A j \in hits : i <= j
    IN  IF hits = {} THEN None
        ELSE IF parsers[first] = "*/*" THEN "application/octet-stream"
        ELSE parsers[first]

\* get_path_fields: one required path Field per template variable.
get_path_fields(path, method, view) ==
    {path[i].name : i \in {j \in DOMAIN path : path[j].kind = "var"}}

\* method.lower()
lower == [m \in Methods |->
            CASE m = "GET" -> "get" [] m = "POST" -> "post" [] m = "PUT" -> "put"
              [] m = "PATCH" -> "patch" [] m = "DELETE" -> "delete"
              [] m = "HEAD" -> "head" [] m = "OPTIONS" -> "options" [] m = "TRACE" -> "trace"]

(***************************************************************************)
(* get_description: the method name is the viewset's action, else the     *)
(* lower-cased method; the class gives its methods' docstrings (`docs`)    *)
(* and its own docstring (`doc`, '' when it has none).  The result depends *)
(* on the class and the name only; DescriptionTable tabulates it (TLC      *)
(* computes it once, not at every evaluation of the fairness conditions).  *)
(***************************************************************************)
MethodNames ==
    {lower[m] : m \in Methods} \cup {"metadata"}
      \cup UNION {ToSet([i \in DOMAIN Callbacks[b].actions |-> Callbacks[b].actions[i][2]]) :
                   b \in {x \in DOMAIN Callbacks : Callbacks[x].actions # NoActions}}

DescriptionTable ==
    [k \in DOMAIN Classes, n \in MethodNames |->
        describe(Classes[k].docs, n, Classes[k].doc)]

get_description(path, method, view) ==
    DescriptionTable[view.cls, IF view.hasAction THEN view.action ELSE lower[method]]

(***************************************************************************)
(* view.get_serializer() runs the class's serializer hooks with           *)
(* view.request = None when get_schema has no request (create_view sets   *)
(* it so); a class whose get_serializer_class or serializer context reads *)
(* self.request then raises AttributeError, out of get_link.               *)
(***************************************************************************)
get_serializer_raises(path, method, view) ==
    /\ method \in {"PUT", "PATCH", "POST"}
    /\ Classes[view.cls].serializer # "none"
    /\ view.request = None
    /\ Classes[view.cls].reads_request

get_link(path, method, view) ==
    LET body  == get_serializer_fields(path, method, view)
        query == get_pagination_fields(path, method, view)
                   \o get_filter_fields(path, method, view)
        all   == ToSet(body) \cup ToSet(query)
    IN  [url      |-> path,
         action   |-> method,
         pathVars |-> get_path_fields(path, method, view),
         body     |-> body,
         query    |-> query,
         encoding |-> IF \E f \in all : f.location \in {"form", "body"}
                      THEN get_encoding(path, method, view) ELSE None,
         description |-> get_description(path, method, view)]

(***************************************************************************)
(* SchemaGenerator.get_keys: the static path components followed by the    *)
(* action.  A custom action of a one-method route replaces the last static *)
(* component; of a several-method route it is re-derived from the method. *)
(* path.strip('/').split('/') of "/" is [''], so the root path gives "".   *)
(***************************************************************************)
NamedPathComponents(path) ==
    IF path = <<>> THEN <<"">>
    ELSE LET named == SelectSeq(path, LAMBDA s : s.kind = "static")
         IN  [i \in DOMAIN named |-> named[i].name]

get_keys_action(path, method, view) ==
    IF view.hasAction THEN view.action
    ELSE IF is_list_view(path, method, view) THEN "list"
    ELSE default_mapping[method]

\* Variant that appends a one-method custom action instead of replacing the
\* last static component (`keys = named_path_components + [action]`).
get_keys_append(path, method, view) ==
    LET action == get_keys_action(path, method, view)
        named  == NamedPathComponents(path)
    IN  IF is_custom_action(action) /\ Len(view.actionMap) > 1
        THEN named \o <<default_mapping[method]>>
        ELSE named \o <<action>>

get_keys(path, method, view) ==
    LET action == get_keys_action(path, method, view)
        named  == NamedPathComponents(path)
    IN  IF is_custom_action(action)
        THEN IF Len(view.actionMap) > 1
             THEN named \o <<default_mapping[method]>>
             ELSE (IF named = <<>> THEN <<>> ELSE Front(named)) \o <<action>>
        ELSE named \o <<action>>

\* get_keys raises KeyError where it indexes default_mapping with a method
\* outside it.
get_keys_raises(path, method, view) ==
    /\ method \notin DOMAIN default_mapping
    /\ \/ ~view.hasAction /\ ~is_list_view(path, method, view)
       \/ view.hasAction /\ is_custom_action(view.action) /\ Len(view.actionMap) > 1

(***************************************************************************)
(* insert_into over the nested dict, represented as the map from the key   *)
(* path of every leaf Link to that Link.  Descending through a key that    *)
(* holds a Link raises TypeError (a coreapi.Link is not a dict); otherwise *)
(* the final assignment replaces whatever the last key held, a Link or a   *)
(* whole sub-dict.                                                         *)
(***************************************************************************)
insert_into_raises(target, keys) ==
    \E k \in DOMAIN target : IsStrictPrefix(k, keys)

insert_into(target, keys, value) ==
    [k \in {p \in DOMAIN target : ~IsPrefix(keys, p)} \cup {keys} |->
        IF k = keys THEN value ELSE target[k]]

-----------------------------------------------------------------------------
(***************************************************************************)
(* The shared generator and the request threads that call it.             *)
(***************************************************************************)
VARIABLES
    urlconf,    \* the URL conf the generator inspects (fixed)
    req,        \* req[c]: the user of caller c's request, or NoRequest
    endpoints,  \* self.endpoints: None until the first get_schema computes it
    pc,         \* pc[c]: where caller c is in get_schema
    eps,        \* eps[c]: the endpoint list get_links is iterating over
    idx,        \* idx[c]: the next endpoint get_links processes
    links,      \* links[c]: the OrderedDict get_links is building
    resp        \* resp[c]: what the call returned

vars == <<urlconf, req, endpoints, pc, eps, idx, links, resp>>

NoResponse == [kind |-> "pending", links |-> <<>>]

Init ==
    /\ urlconf \in RouteTables
    /\ req \in [Callers -> Users \cup {NoRequest}]
    /\ endpoints = None
    /\ pc = [c \in Callers |-> "start"]
    /\ eps = [c \in Callers |-> <<>>]
    /\ idx = [c \in Callers |-> 1]
    /\ links = [c \in Callers |-> <<>>]
    /\ resp = [c \in Callers |-> NoResponse]

\* get_schema: `if self.endpoints is None` reads the shared memo.
get_schema_check(c) ==
    /\ pc[c] = "start"
    /\ pc' = [pc EXCEPT ![c] = IF endpoints = None THEN "compute" ELSE "links"]
    /\ UNCHANGED <<urlconf, req, endpoints, eps, idx, links, resp>>

(***************************************************************************)
(* get_schema: build an inspector and store its endpoint list in the memo. *)
(* The inspector's result depends on the URL conf only; InspectedEndpoints *)
(* tabulates it per URL conf (TLC computes the table once, and does not    *)
(* unfold the recursion when it processes the fairness conditions).       *)
(***************************************************************************)
InspectedEndpoints == [p \in RouteTables |-> get_api_endpoints(p, <<>>)]

get_schema_compute(c) ==
    /\ pc[c] = "compute"
    /\ endpoints' = InspectedEndpoints[urlconf]
    /\ pc' = [pc EXCEPT ![c] = "links"]
    /\ UNCHANGED <<urlconf, req, eps, idx, links, resp>>

\* get_links: a fresh OrderedDict, and the loop reads self.endpoints.
get_links_begin(c) ==
    /\ pc[c] = "links"
    /\ eps' = [eps EXCEPT ![c] = endpoints]
    /\ idx' = [idx EXCEPT ![c] = 1]
    /\ links' = [links EXCEPT ![c] = <<>>]
    /\ pc' = [pc EXCEPT ![c] = "loop"]
    /\ UNCHANGED <<urlconf, req, endpoints, resp>>

(***************************************************************************)
(* One iteration of the get_links loop: create_view, should_include_view,  *)
(* get_link, get_keys and insert_into.  An excluded view is skipped; an   *)
(* AttributeError in get_link's serializer hook, a KeyError in get_keys or *)
(* a TypeError in insert_into propagates out of get_schema and the request *)
(* fails.                                                                  *)
(***************************************************************************)
\* `continue`: the loop moves on to the next endpoint.
skip_endpoint(c) ==
    /\ idx' = [idx EXCEPT ![c] = @ + 1]
    /\ UNCHANGED <<pc, links, resp>>

get_links_step(c) ==
    /\ pc[c] = "loop"
    /\ idx[c] <= Len(eps[c])
    /\ LET e    == eps[c][idx[c]]
           view == create_view(e.callback, e.method, req[c])
           keys == get_keys(e.path, e.method, view)
       IN  \/ /\ ~should_include_view(e.path, e.method, view)
              /\ skip_endpoint(c)
           \/ /\ should_include_view(e.path, e.method, view)
              /\ ~get_serializer_raises(e.path, e.method, view)
              /\ ~get_keys_raises(e.path, e.method, view)
              /\ ~insert_into_raises(links[c], keys)
              /\ links' = [links EXCEPT ![c] =
                              insert_into(@, keys, get_link(e.path, e.method, view))]
              /\ idx' = [idx EXCEPT ![c] = @ + 1]
              /\ UNCHANGED <<pc, resp>>
           \/ /\ should_include_view(e.path, e.method, view)
              /\ IF \/ get_serializer_raises(e.path, e.method, view)
                    \/ get_keys_raises(e.path, e.method, view) THEN TRUE
                 ELSE insert_into_raises(links[c], keys)
              /\ resp' = [resp EXCEPT ![c] = [kind |-> "error", links |-> <<>>]]
              /\ pc' = [pc EXCEPT ![c] = "done"]
              /\ UNCHANGED <<idx, links>>
    /\ UNCHANGED <<urlconf, req, endpoints, eps>>

(***************************************************************************)
(* get_schema returns None when no link survived, else the Document; the   *)
(* SchemaView answers None with PermissionDenied.  A direct call (no       *)
(* request) gets the None itself.                                          *)
(***************************************************************************)
schema_view_response(request, document) ==
    IF document # None THEN [kind |-> "document", links |-> document]
    ELSE IF request = NoRequest THEN [kind |-> "none", links |-> <<>>]
    ELSE [kind |-> "denied", links |-> <<>>]

\* Variant testing `if links is None`: an empty dict becomes an empty
\* Document.  ServiceImplemented fails with it.
get_schema_document_empty(l) == l

\* `if not links: return None`, else the Document of the links.
get_schema_document(l) == IF l # <<>> THEN l ELSE None

get_schema_return(c) ==
    /\ pc[c] = "loop"
    /\ idx[c] > Len(eps[c])
    /\ resp' = [resp EXCEPT ![c] =
                  schema_view_response(req[c], get_schema_document(links[c]))]
    /\ pc' = [pc EXCEPT ![c] = "done"]
    /\ UNCHANGED <<urlconf, req, endpoints, eps, idx, links>>

Step(c) ==
    \/ get_schema_check(c)
    \/ get_schema_compute(c)
    \/ get_links_begin(c)
    \/ get_links_step(c)
    \/ get_schema_return(c)

\* Every call has returned; the model stops here.
Terminated ==
    /\ \A c \in Callers : pc[c] = "done"
    /\ UNCHANGED vars

Next == (\E c \in Callers : Step(c)) \/ Terminated

(***************************************************************************)
(* Request threads are scheduled by the OS and the interpreter's lock      *)
(* switches between them, so a thread that can run keeps running: weak    *)
(* fairness for each step of each caller.  Only caller c disables its own  *)
(* steps, so this is weak fairness of Step(c).                             *)
(***************************************************************************)
Fairness(c) ==
    /\ WF_vars(get_schema_check(c))
    /\ WF_vars(get_schema_compute(c))
    /\ WF_vars(get_links_begin(c))
    /\ WF_vars(get_links_step(c))
    /\ WF_vars(get_schema_return(c))

Spec == Init /\ [][Next]_vars /\ \A c \in Callers : Fairness(c)

-----------------------------------------------------------------------------
(***************************************************************************)
(* Reference definitions, written from what the spec promises rather than *)
(* from how the code computes it.                                          *)
(***************************************************************************)

\* The URL conf's patterns in tree order, each with its full regex.
RECURSIVE LeafRoutes(_, _)
LeafRoutes(pats, prefix) ==
    FlattenSeq([i \in DOMAIN pats |->
        CASE pats[i].kind = "pattern" ->
               <<[regex |-> prefix \o pats[i].regex, callback |-> pats[i].callback]>>
          [] pats[i].kind = "resolver" ->
               LeafRoutes(pats[i].children, prefix \o pats[i].regex)
          [] OTHER -> <<>>])

\* Position of s[j] once s is sorted stably: the elements ordered before
\* it, and the equal ones that come earlier, precede it.
StablePosition(s, j) ==
    Cardinality({k \in DOMAIN s :
                   \/ OrderingLess(s[k], s[j])
                   \/ k < j /\ ~OrderingLess(s[j], s[k])}) + 1

StablySorted(s) ==
    [i \in DOMAIN s |-> s[CHOOSE j \in DOMAIN s : StablePosition(s, j) = i]]

\* Every included route with every allowed method, tree order, then sorted.
ReferenceEndpoints(pats) ==
    LET leaves == LeafRoutes(pats, <<>>)
        RouteEndpoints(l) ==
          LET path == get_path_from_regex(l.regex)
              ms == get_allowed_methods(l.callback)
          IN  IF should_include_endpoint(path, l.callback)
              THEN [i \in DOMAIN ms |-> [path |-> path, method |-> ms[i], callback |-> l.callback]]
              ELSE <<>>
    IN  StablySorted(FlattenSeq([i \in DOMAIN leaves |-> RouteEndpoints(leaves[i])]))

\* An endpoint a request may see: not excluded, and no request or one whose
\* user the view's permissions admit for the endpoint's method.
Visible(e, r) ==
    LET cb == Callbacks[e.callback]
        excluded == IF "exclude_from_schema" \in DOMAIN cb.initkwargs
                    THEN cb.initkwargs["exclude_from_schema"]
                    ELSE Classes[cb.cls].exclude
        perm == Classes[cb.cls].perm
    IN  /\ ~excluded
        /\ \/ r = NoRequest
           \/ r \in IF e.method \in {"GET", "HEAD", "OPTIONS"} THEN perm.read ELSE perm.write

EndpointKeys(e, r) == get_keys(e.path, e.method, create_view(e.callback, e.method, r))
EndpointLink(e, r) == get_link(e.path, e.method, create_view(e.callback, e.method, r))
EndpointRaises(e, r) ==
    LET v == create_view(e.callback, e.method, r)
    IN  get_serializer_raises(e.path, e.method, v) \/ get_keys_raises(e.path, e.method, v)

\* Two key paths that cannot both be leaves of one nested dict.
Conflict(k1, k2) == IsPrefix(k1, k2) \/ IsPrefix(k2, k1)

\* The answer a call with request r is owed: the visible endpoints, in
\* order, inserted one after the other into one document.
ExpectedResponse(pats, r) ==
    LET vis == SelectSeq(ReferenceEndpoints(pats), LAMBDA e : Visible(e, r))
        Add(acc, e) ==
          IF acc.kind = "error" THEN acc
          ELSE IF EndpointRaises(e, r) \/ insert_into_raises(acc.links, EndpointKeys(e, r))
          THEN [kind |-> "error", links |-> <<>>]
          ELSE [kind |-> "document",
                links |-> insert_into(acc.links, EndpointKeys(e, r), EndpointLink(e, r))]
        final == FoldLeft(Add, [kind |-> "document", links |-> <<>>], vis)
    IN  IF final.kind = "error" \/ final.links # <<>> THEN final
        ELSE IF r = NoRequest THEN [kind |-> "none", links |-> <<>>]
        ELSE [kind |-> "denied", links |-> <<>>]

\* Both tables depend on constants only, so TLC computes them once.
ReferenceTable == [p \in RouteTables |-> ReferenceEndpoints(p)]
ExpectedTable == [p \in RouteTables, r \in Users \cup {NoRequest} |-> ExpectedResponse(p, r)]

-----------------------------------------------------------------------------
(***************************************************************************)
(* Properties.                                                             *)
(***************************************************************************)
\* Core API field types: the values of types_lookup, and '' when unset.
CoreTypes == {"", "string", "integer", "number", "boolean", "file", "array", "object"}
FieldType == [name : STRING, location : {"path", "query", "form", "body"},
              required : BOOLEAN, type : CoreTypes]
EndpointType == [path : Seq(Segment), method : Methods, callback : DOMAIN Callbacks]
LinkType == [url : Seq(Segment), action : Methods, pathVars : SUBSET STRING,
             body : Seq(FieldType), query : Seq(FieldType),
             encoding : STRING \cup {None}, description : Seq(STRING)]

TypeOK ==
    /\ endpoints \in Seq(EndpointType) \cup {None}
    /\ pc \in [Callers -> {"start", "compute", "links", "loop", "done"}]
    /\ \A c \in Callers :
          /\ eps[c] \in Seq(EndpointType)
          /\ idx[c] \in 1..(Len(eps[c]) + 1)
          /\ \A k \in DOMAIN links[c] :
                /\ k \in Seq(STRING) /\ k # <<>>
                /\ links[c][k] \in LinkType
          /\ resp[c].kind \in {"pending", "document", "none", "denied", "error"}

(***************************************************************************)
(* The memoised endpoint list is exactly the URL conf's REST framework     *)
(* endpoints, every allowed method of every included route, sorted by      *)
(* (path, method priority) with ties kept in URL-conf order: the result    *)
(* of get_api_endpoints' recursion through resolvers, its prefixing, its   *)
(* filtering and its per-level sorting.                                    *)
(***************************************************************************)
EndpointsOrdered ==
    endpoints # None => endpoints = ReferenceTable[urlconf]

(***************************************************************************)
(* The document get_links is building holds, at every key, the link of the *)
(* last endpoint processed so far that the request may see and whose keys  *)
(* are that key, and no later visible endpoint has overwritten it; and     *)
(* every visible endpoint already processed has its link in the document   *)
(* unless a later one overwrote it.  This is what should_include_view,     *)
(* get_keys and insert_into must together achieve.                         *)
(***************************************************************************)
DocumentMatchesVisible ==
    \A c \in Callers :
      (pc[c] = "loop" \/ (pc[c] = "done" /\ resp[c].kind # "error")) =>
        LET done == 1..(idx[c] - 1)
            e(i) == eps[c][i]
            vis(i) == Visible(e(i), req[c])
            overwritten(i) ==
              \E j \in done : j > i /\ vis(j)
                              /\ Conflict(EndpointKeys(e(j), req[c]), EndpointKeys(e(i), req[c]))
        IN  /\ \A k \in DOMAIN links[c] :
                 \E i \in done : /\ vis(i)
                                 /\ EndpointKeys(e(i), req[c]) = k
                                 /\ links[c][k] = EndpointLink(e(i), req[c])
                                 /\ ~overwritten(i)
            /\ \A i \in done : vis(i) =>
                 (EndpointKeys(e(i), req[c]) \in DOMAIN links[c] \/ overwritten(i))

(***************************************************************************)
(* Refinement: the shared generator implements SchemaService.  However the *)
(* request threads interleave on the generator and its memo, every call    *)
(* to get_schema returns exactly once, and returns the answer              *)
(* SchemaService says its request is owed (a document, None /             *)
(* PermissionDenied, or the exception generation raises); and every call   *)
(* does return, so no thread is left waiting on the memo or looping in     *)
(* get_links.  This is Service!Spec, fairness included, under the mapping. *)
(***************************************************************************)
Service == INSTANCE SchemaService WITH
    Pending  <- NoResponse,
    answer   <- [c \in Callers |-> IF pc[c] = "done" THEN resp[c] ELSE NoResponse],
    expected <- [c \in Callers |-> ExpectedTable[urlconf, req[c]]]

ServiceImplemented == Service!Spec

(***************************************************************************)
(* What the design says of a call (spec sections 4.2 and 5): get_schema    *)
(* either returns a Document or returns None; no call ends in an           *)
(* exception.  get_keys indexing default_mapping and insert_into           *)
(* descending into a Link both raise.                                      *)
(***************************************************************************)
NoCrash == \A c \in Callers : resp[c].kind # "error"

(***************************************************************************)
(* What the get_keys docstring says: a detail route /users/{pk}/ is laid   *)
(* out as ("users", "read"), ("users", "update"), ("users", "delete"), so  *)
(* no link of a document sits under a "retrieve" or "destroy" key.         *)
(***************************************************************************)
KeysMatchDocstring ==
    \A c \in Callers : \A k \in DOMAIN links[c] : Last(k) \notin {"retrieve", "destroy"}

=============================================================================
