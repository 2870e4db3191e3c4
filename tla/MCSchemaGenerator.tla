------------------------- MODULE MCSchemaGenerator -------------------------
(***************************************************************************)
(* Model-checking instance of SchemaGenerator: three view classes of a     *)
(* typical router-built API, and URL confs that exercise resolvers,        *)
(* format-suffix routes, non-REST views, excluded views, custom actions,   *)
(* custom actions that collide with a nested resource, and a custom       *)
(* action routed for HEAD.                                                 *)
(***************************************************************************)
EXTENDS SchemaGenerator

CONSTANTS u1, u2   \* u1: staff user; u2: read-only user

MCUsers == {u1, u2}

\* Python string order of every segment name used below.
MCSegOrder == <<"accounts", "admin", "api", "format", "groups", "internal", "ping", "pk",
                "schema", "star", "users", "var">>

MCFieldParent ==
    [c \in {"CharField", "ImageField", "ChoiceField", "HiddenField"} |->
        IF c = "ImageField" THEN "FileField" ELSE "Field"]

NoFilters == <<>>
NoDocs == <<>>

\* The words of the docstrings below; each matches [a-zA-Z][0-9A-Za-z_]*.
MCIdentifiers == {"Users", "list", "All", "retrieve", "One", "Star", "Root", "Entry", "Ping"}

\* """
\*     Users
\*
\*     list: All
\*     retrieve:
\*     One
\*     """
UserDoc == <<NL, Space, "Users", NL, NL, Space, "list", Colon, Space, "All",
             NL, Space, "retrieve", Colon, NL, Space, "One", NL, Space>>
SerField(src, cls, ro, rq) == [source |-> src, cls |-> cls, read_only |-> ro, required |-> rq]
Name(n) == [field |-> FALSE, name |-> n, location |-> "query", required |-> FALSE]

MCClasses ==
    [k \in {"UserViewSet", "GroupViewSet", "ApiRoot", "SchemaView", "PingView",
                "AccountViewSet"} |->
        CASE k = "UserViewSet" ->
               [api |-> TRUE, allowed |-> <<>>, exclude |-> FALSE,
                perm |-> [read |-> {u1, u2}, write |-> {u1}],
                serializer |-> "object",
                fields |-> <<SerField("id", "IntegerField", TRUE, FALSE),
                             SerField("username", "CharField", FALSE, TRUE),
                             SerField("avatar", "ImageField", FALSE, FALSE),
                             SerField("owner", "HiddenField", FALSE, TRUE)>>,
                pagination |-> <<Name("page")>>,
                filters |-> << <<Name("search")>>,
                               <<[field |-> TRUE, name |-> "ordering",
                                  location |-> "query", required |-> FALSE]>> >>,
                parsers |-> <<"application/json", "multipart/form-data">>,
                doc |-> UserDoc, docs |-> ("star" :> <<"Star">>), reads_request |-> FALSE]
          [] k = "GroupViewSet" ->
               [api |-> TRUE, allowed |-> <<>>, exclude |-> FALSE,
                perm |-> [read |-> {u1}, write |-> {u1}],
                serializer |-> "list", fields |-> <<>>,
                pagination |-> None, filters |-> NoFilters,
                parsers |-> <<"text/csv", "*/*">>,
                doc |-> <<>>, docs |-> NoDocs, reads_request |-> FALSE]
          [] k = "AccountViewSet" ->
               [api |-> TRUE, allowed |-> <<>>, exclude |-> FALSE,
                perm |-> [read |-> {u1, u2}, write |-> {u1, u2}],
                serializer |-> "list", fields |-> <<>>,
                pagination |-> None, filters |-> NoFilters,
                parsers |-> <<"application/json">>,
                doc |-> <<>>, docs |-> NoDocs, reads_request |-> TRUE]
          [] k = "ApiRoot" ->
               [api |-> TRUE, allowed |-> <<"GET", "OPTIONS">>, exclude |-> FALSE,
                perm |-> [read |-> {u1, u2}, write |-> {}],
                serializer |-> "none", fields |-> <<>>,
                pagination |-> None, filters |-> NoFilters,
                parsers |-> <<"application/json">>,
                doc |-> <<"Root">>, docs |-> ("get" :> <<NL, Space, "Entry">>),
                reads_request |-> FALSE]
          [] k = "SchemaView" ->
               [api |-> TRUE, allowed |-> <<"GET", "OPTIONS">>, exclude |-> TRUE,
                perm |-> [read |-> {u1, u2}, write |-> {}],
                serializer |-> "none", fields |-> <<>>,
                pagination |-> None, filters |-> NoFilters,
                parsers |-> <<"application/json">>,
                doc |-> <<>>, docs |-> NoDocs, reads_request |-> FALSE]
          [] k = "PingView" ->
               [api |-> TRUE, allowed |-> <<"GET", "TRACE", "OPTIONS">>, exclude |-> FALSE,
                perm |-> [read |-> {u1, u2}, write |-> {u1}],
                serializer |-> "none", fields |-> <<>>,
                pagination |-> None, filters |-> NoFilters,
                parsers |-> <<"application/json">>,
                doc |-> <<"Ping">>, docs |-> NoDocs, reads_request |-> FALSE]]

NoInit == <<>>
Cb(cls, actions) == [cls |-> cls, actions |-> actions, initkwargs |-> NoInit]

MCCallbacks ==
    [b \in {"root", "schema", "admin", "user_list", "user_detail", "user_star",
            "user_groups", "group_list", "group_readonly", "group_ping",
            "hidden_groups", "ping", "account_list"} |->
        CASE b = "root"        -> Cb("ApiRoot", NoActions)
          [] b = "schema"      -> Cb("SchemaView", NoActions)
          [] b = "admin"       -> Cb(NoClass, NoActions)
          [] b = "user_list"   -> Cb("UserViewSet", <<<<"GET", "list">>, <<"POST", "create">>>>)
          [] b = "user_detail" -> Cb("UserViewSet", <<<<"GET", "retrieve">>, <<"PUT", "update">>,
                                      <<"PATCH", "partial_update">>, <<"DELETE", "destroy">>>>)
          [] b = "user_star"   -> Cb("UserViewSet", <<<<"GET", "star">>, <<"POST", "star">>>>)
          [] b = "user_groups" -> Cb("UserViewSet", <<<<"GET", "groups">>>>)
          [] b = "group_list"  -> Cb("GroupViewSet", <<<<"GET", "list">>, <<"POST", "create">>>>)
          [] b = "group_readonly" -> Cb("GroupViewSet", <<<<"GET", "list">>>>)
          [] b = "group_ping"  -> Cb("GroupViewSet", <<<<"GET", "ping">>, <<"HEAD", "ping">>>>)
          [] b = "ping"        -> Cb("PingView", NoActions)
          [] b = "account_list" -> Cb("AccountViewSet", <<<<"GET", "list">>, <<"POST", "create">>>>)
          [] b = "hidden_groups" ->
               [cls |-> "GroupViewSet", actions |-> <<<<"GET", "list">>>>,
                initkwargs |-> ("exclude_from_schema" :> TRUE)]]

\* URL regex pieces and URL conf nodes.
Lit(n)   == [t |-> "lit", name |-> n]
Named(n) == [t |-> "named", name |-> n]
Unnamed  == [t |-> "unnamed", name |-> ""]
Fmt      == [t |-> "fmt", name |-> ""]
Pat(regex, cb)    == [kind |-> "pattern", regex |-> regex, callback |-> cb, children |-> <<>>]
Res(regex, nodes) == [kind |-> "resolver", regex |-> regex, callback |-> "", children |-> nodes]

\* A DefaultRouter-style API under /api/, the API root, the schema view and
\* a non-REST admin view; the detail routes of a user sit under a second
\* resolver, so the star action's path takes two prefixes.
RouterConf ==
    << Pat(<<>>, "root"),
       Pat(<<Lit("schema")>>, "schema"),
       Pat(<<Lit("admin")>>, "admin"),
       Res(<<Lit("api")>>,
           << Pat(<<Lit("users")>>, "user_list"),
              Pat(<<Lit("users"), Named("pk")>>, "user_detail"),
              Pat(<<Lit("users"), Named("pk"), Fmt>>, "user_detail"),
              Res(<<Lit("users"), Named("pk")>>,
                  << Pat(<<Lit("star")>>, "user_star") >>) >>) >>

\* A read-only nested group list and a custom detail action of the user
\* viewset routed at the same path: the action's link replaces the list's
\* whole "groups" sub-dict.  An excluded route besides.
NestedConf ==
    << Pat(<<Lit("users"), Named("pk"), Lit("groups")>>, "group_readonly"),
       Pat(<<Lit("users"), Named("pk"), Lit("groups")>>, "user_groups"),
       Pat(<<Lit("internal"), Lit("groups")>>, "hidden_groups") >>

\* The same collision with a writable group list: its POST link is inserted
\* under the Link the custom action left at "groups".
CollisionConf ==
    << Pat(<<Lit("users"), Named("pk"), Lit("groups")>>, "group_list"),
       Pat(<<Lit("users"), Named("pk"), Lit("groups")>>, "user_groups") >>

\* A custom action routed for GET and HEAD, under an unnamed group.
PingConf ==
    << Pat(<<Lit("groups")>>, "group_list"),
       Pat(<<Lit("groups"), Unnamed, Lit("ping")>>, "group_ping") >>

\* A plain view that also answers TRACE.
TraceConf == << Pat(<<Lit("ping")>>, "ping") >>

\* A list whose serializer hook picks the serializer by the request's user.
AccountConf == << Pat(<<Lit("accounts")>>, "account_list") >>

MCRouteTables == {RouterConf, NestedConf, CollisionConf, PingConf, TraceConf,
                  AccountConf}

\* Single URL confs, for the runs that look at one of them.
RouterTables == {RouterConf}
CollisionTables == {CollisionConf}
PingTables == {PingConf}
TraceTables == {TraceConf}
AccountTables == {AccountConf}

(***************************************************************************)
(* The key layout of the design's worked examples (spec section 8, with    *)
(* the group viewsets of this model): a list route's GET and POST go under *)
(* its static components then "list" / "create"; a one-method custom       *)
(* action replaces the trailing static component; a several-method custom  *)
(* action keeps the components and is named by its method.  Each is a      *)
(* case of the branches of get_keys, the slice that drops the last static  *)
(* component included.  It is stated of every generator that has          *)
(* inspected its URL conf, since get_keys is only called after that.       *)
(***************************************************************************)
KeysFollowSpecExamples ==
    LET Keys(path, method, cb) == get_keys(path, method, create_view(cb, method, NoRequest))
        Seg(n)  == [kind |-> "static", name |-> n]
        Var(n)  == [kind |-> "var", name |-> n]
        groups  == <<Seg("users"), Var("pk"), Seg("groups")>>
        star    == <<Seg("users"), Var("pk"), Seg("star")>>
    IN  endpoints # None =>
        /\ Keys(groups, "GET", "group_list") = <<"users", "groups", "list">>
        /\ Keys(groups, "POST", "group_list") = <<"users", "groups", "create">>
        /\ Keys(groups, "GET", "user_groups") = <<"users", "groups">>
        /\ Keys(star, "POST", "user_star") = <<"users", "star", "create">>

=============================================================================
