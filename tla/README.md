# TLA+ models of the REST framework schema generator

This directory holds TLA+ models of `src/rest_framework/schemas.py` and of the
two parts of `src/rest_framework/compat.py` that have behaviour of their own
(`set_rollback` and `is_simple_callable`), with the TLC configurations that
check them. The design it is checked against is in `spec.md`. The rest of
`compat.py` is import and version shims, listed under "Not modelled".

## The system

`schemas.py` has three parts that work together.

* **EndpointInspector** walks a Django URL conf. The conf is a tree: a
  *pattern* is a leaf with a callback, and a *resolver* is an interior node
  whose regex prefixes its children's regexes. The inspector returns a sorted
  list of `(path, method, callback)` endpoints.
  - A callback is kept only if its class is a REST framework view, and only if
    its path is not the `.{format}` duplicate of another route.
  - The methods are the viewset's action-map keys. For a plain view they are
    the class's `allowed_methods`, without OPTIONS and HEAD.
  - Every level of the recursion sorts its list stably by
    `endpoint_ordering = (path string, method priority)`.
* **SchemaGenerator** is built once per schema view and shared by every request
  that view serves. `get_schema(request)` works in three stages:
  - It fills the memo `self.endpoints` on first use. This is a check followed
    by a set, with no lock.
  - `get_links` loops over the memoised list. For each endpoint it builds a
    throw-away view (`create_view`), which gets a clone of the request with
    the endpoint's method. It drops the endpoint if the view is excluded, or
    if the view's permissions reject that request (`should_include_view`).
    Otherwise it builds a Link from four field sources (path variables,
    serializer, pagination, filters), an encoding and a description
    (`get_description`: the method's docstring, else the `name:` section of
    the class docstring named after the action or method, else the text
    before the first section). It computes the key
    path (`get_keys`) and inserts the Link into a nested dict (`insert_into`).
  - It returns `None` if the dict is empty, and a Document otherwise.
* **SchemaView** (`get_schema_view`) calls `generator.get_schema(request)` and
  turns `None` into `PermissionDenied`.

`compat.set_rollback` is called by the exception handler of every APIView
when it turns an exception into an error response; it marks Django's request
transaction for rollback. `compat.is_simple_callable` decides whether a
serializer field calls an attribute.

The generator is the only shared state. Request threads interleave on it at
the memo. Everything else `get_schema` touches is local to the call.

## Modules

| Module | Models | State and actions |
|---|---|---|
| `EndpointInspector` | `is_api_view`, `endpoint_ordering`, `EndpointInspector.*` | Pure operators. `get_api_endpoints` is RECURSIVE over the URL-conf tree. `SortEndpoints` is a stable insertion sort by `OrderingLess`, which is Python's tuple `<` on `(path, priority)`. |
| `SchemaGenerator` | `SchemaGenerator.*`, the module helpers, `SchemaView.get` | See below. |
| `Description` | `header_regex`, `SchemaGenerator.get_description` | Pure operators over token sequences: `splitlines`, `strip`, the section loop (`SectionStep`, folded by `sections`), and `describe`. `dedent` and `get_view_description` (outside `src/`) are modelled from their documented behaviour. A reference `ExpectedDescription` is written from spec section 4, step 5. |
| `MCDescription` | every small view | The inputs (method docstrings, class docstring, method name) are the state; `Next` leaves them unchanged. |
| `SetRollback` | `compat.set_rollback` and the Django request transaction around it | One request: `Write(db)`, `Respond`, `RaiseAPIException` (then `set_rollback`), `RaiseOther`, `AtomicExit`. The view may run inside an atomic block of its caller on the default alias (`enclosing`), which stays open after the request. |
| `SimpleCallable` | `compat.is_simple_callable` | Both interpreter branches, and the docstring's meaning as `TakesNoArguments`. |
| `MCCompat` | model values | both compat functions in one model: two database aliases for `set_rollback`, and every parameter list of up to five parameters as the input `obj` of `is_simple_callable`, which no step changes. |
| `SchemaService` | the promise of a schema call, from spec §4.2/§7 | `answer[c]` goes from Pending to `expected[c]` in one `Respond(c)` step. |
| `MCSchemaGenerator` | model values for TLC | View classes, callbacks and four URL confs (see Bounds). |

State of `SchemaGenerator`:

| Variable | Code |
|---|---|
| `endpoints` | the memo `self.endpoints` |
| `urlconf` | the URL conf the generator inspects |
| `req[c]` | the user of caller `c`'s request, or `NoRequest` for `get_schema()` called with no request |
| `pc[c]` | where caller `c` is in `get_schema` |
| `eps[c]` | the list `get_links` is iterating |
| `idx[c]` | the loop position |
| `links[c]` | the OrderedDict being built |
| `resp[c]` | what the call returned |

The nested dict is represented as a map from each leaf's key path to its
Link. In that representation:
* an insertion removes every key path that the new key extends; this is
  Python's silent overwrite of a sub-dict;
* a key path that extends an existing leaf is the TypeError, because
  insert_into would have to index into a `coreapi.Link`.

Actions, one per step of the code. Each is the whole of that step.

| Action | Code |
|---|---|
| `get_schema_check(c)` | `if self.endpoints is None` (line 216) |
| `get_schema_compute(c)` | build the inspector and assign the memo (217-218) |
| `get_links_begin(c)` | the new OrderedDict and the read of `self.endpoints` (229-231) |
| `get_links_step(c)` | one loop iteration (232-237), see below; the Link it inserts carries `get_description`'s text, read from `DescriptionTable` (a constant table of `describe` per class and method name) |
| `get_schema_return(c)` | `if not links: return None` / Document (220-223), then `schema_view_response`, which is SchemaView.get (502-506) |

`get_links_step(c)` has three disjuncts:
* the endpoint is skipped (`skip_endpoint`, the `continue`);
* the endpoint is inserted;
* the serializer hook raises AttributeError (requestless mode, a class whose
  `get_serializer_class` reads `self.request`), `get_keys` raises KeyError, or
  `insert_into` raises TypeError, and the call ends with an exception.

Data is abstracted as follows:
* A regex is a sequence of pieces: a literal, a named group, an unnamed group
  or the format suffix.
* A path is a sequence of segments. A segment is static, `{var}` or
  `.{format}`. Python's string order on paths is the lexicographic order of
  segments under `SegOrder`.
* A Link keeps its url, its action, the set of its path variables, its body
  and query fields, its encoding and its description. The joining onto
  `self.url` is left out.
* Text is a sequence of tokens: words, `:`, `" "` (a run of spaces) and
  `"\n"`. `Identifiers` is the set of words that header_regex's
  `[a-zA-Z][0-9A-Za-z_]*` matches whole. A word is a maximal run of other
  characters, so two words side by side in a result mean the code glued two
  lines together.
* Permission classes are abstracted to a set of users allowed safe methods and
  a set allowed the other methods.

## Properties and runs

| Run | cfg | Expect | Checks |
|---|---|---|---|
| `schema_generation` | `MCSchemaGenerator.cfg` | pass | `TypeOK`, `EndpointsOrdered`, `DocumentMatchesVisible`, `KeysFollowSpecExamples`, `ServiceImplemented` |
| `head_key_error` | `MCHeadKeyError.cfg` | violation | `NoCrash` on a GET+HEAD custom action |
| `trace_key_error` | `MCTraceKeyError.cfg` | violation | `NoCrash` on a plain view answering TRACE |
| `link_collision` | `MCLinkCollision.cfg` | violation | `NoCrash` on a custom action at a nested list's path |
| `docstring_keys` | `MCDocstringKeys.cfg` | violation | `KeysMatchDocstring` on the router conf |
| `requestless_serializer` | `MCRequestlessSerializer.cfg` | violation | `NoCrash` on a list whose serializer hook reads the request |
| `description_sections` | `MCDescription.cfg` | pass | `DescriptionChoosesSection` over 312,354 views |
| `description_line_breaks` | `MCDescriptionLines.cfg` | violation | `DescriptionKeepsLineBreaks` |
| `compat` | `MCCompat.cfg` | pass | `ErrorLeavesNoWrites` (ATOMIC_REQUESTS on the default alias or none, with or without a caller's block), `SimpleCallableMatchesDocstring` (getargspec branch) |
| `multi_db_rollback` | `MCMultiDbRollback.cfg` | violation | `ErrorLeavesNoWrites`, ATOMIC_REQUESTS on any alias |
| `enclosing_atomic` | `MCEnclosingAtomic.cfg` | violation | `CallerBlockUsable`, a caller's block around the view |
| `simple_callable_py3` | `MCSimpleCallablePy3.cfg` | violation | `SimpleCallableMatchesDocstring`, signature branch |

### What the passing properties say

* **EndpointsOrdered**: the memo equals an independent reference. The
  reference flattens the tree, applies the filters and stably sorts the whole
  list once. Matching it checks the recursion, the prefixing (through two
  nested resolvers in RouterConf), the filtering and the fact that sorting
  at each level gives the same result as one global stable sort.
* **DocumentMatchesVisible**: at every point of the loop, the document holds
  exactly the links of the endpoints processed so far that this request may
  see. The one exception is a link that a later visible endpoint with a
  conflicting key path has overwritten. Visibility is an independent
  definition of exclusion plus method-specific permissions.
* **KeysFollowSpecExamples**: `get_keys` gives the key layouts of the
  design's worked examples (spec section 8) with this model's viewsets:
  `users/{pk}/groups/` with GET and POST on a list, the same path as a
  one-method custom action (the trailing static component is replaced,
  the `[:-1]` slice), and a two-method custom action at
  `users/{pk}/star/`, which is named by its method. `DocumentMatchesVisible`
  and `ServiceImplemented` take keys from `get_keys` on both sides, so
  this is the property that pins the layout itself.
* **ServiceImplemented**: the generator implements `SchemaService`, checked
  as `Service!Spec` (fairness included) under the refinement mapping. Every
  step of the two-caller system is a `SchemaService` step or leaves the
  mapped answers unchanged: a returned call's answer is
  `ExpectedTable[urlconf, user]`, and a call answers only once.
  - `ExpectedTable` folds the visible endpoints into a document the way the
    spec describes: overwrite on identical keys, error on a descent into a
    Link, and None/denied when the document is empty.
  - `Service!Init` holds in every initial state, because no call has returned
    yet.
  - `Service!Spec`'s weak fairness of `Respond(c)` becomes, under the
    mapping, "every call returns". It holds under the weak fairness of each
    caller's steps that the generator's `Spec` assumes.
  The two callers race on the unsynchronised first use of the memo (spec
  §5), and every answer is still the one owed.
* **DescriptionChoosesSection**: the characters of `get_description`'s
  result, whitespace aside, are those of the design's section for every
  input: a non-empty method docstring wins; otherwise the last section
  named after the action or method, or the text before the first header.
  Indented headers count (lines are stripped first), a non-identifier word
  before a colon does not, and a repeated header resets its section.
* **ErrorLeavesNoWrites**: a request that ends in an error keeps none of
  its writes in an alias whose requests are atomic. This holds when the
  exception reaches Django, and when the handler turns it into a response
  and only `set_rollback`'s flag stops the commit.
  With a block of the caller around the view, the request's block is a
  savepoint. Its flag rolls back to the savepoint and is cleared there.
* **SimpleCallableMatchesDocstring**: `is_simple_callable` is True exactly
  when the object can be called with no arguments.

Each passing property has a mutant in `PROJECT.json`. A mutant is a variant
operator defined next to the definition it replaces, and TLC finds the
property violated when it is swapped in:

| Property | Mutant |
|---|---|
| `TypeOK` | serializer fields typed by their class name instead of through `types_lookup` |
| `EndpointsOrdered` | the resolver prefix is dropped |
| `DocumentMatchesVisible` | the request check comes before the exclusion check |
| `KeysFollowSpecExamples` | a one-method custom action is appended instead of replacing the last static component |
| `ServiceImplemented` | `if links is None` instead of `if not links` |
| `DescriptionChoosesSection` | a repeated header appends to its section instead of resetting it |
| `ErrorLeavesNoWrites` | `transaction.set_rollback(False)` |
| `SimpleCallableMatchesDocstring` | getargspec's `self` is not subtracted for a method |

### Findings

Each violation run shows one finding:

* `head_key_error` (code bug, schemas.py:475): a custom action routed for GET
  and HEAD makes `default_mapping['head']` raise KeyError. The whole schema
  request then fails. The spec says a call returns a Document or None.
* `trace_key_error` (code bug, schemas.py:464): a plain view that answers
  TRACE and is not list-shaped takes its action from
  `default_mapping['trace']`, which does not exist; KeyError again.
* `link_collision` (code bug, schemas.py:70): a single-method custom detail
  action `groups` at `/users/{pk}/groups/` puts a Link at `users → groups`.
  The nested list's POST link then descends into that Link, and the final
  assignment `target[keys[-1]] = value` raises TypeError. In the other order (NestedConf, in the passing run) the
  action's link silently replaces the list's sub-dict.
* `docstring_keys` (divergence, schemas.py:451): the get_keys docstring shows
  `read`/`delete` keys, but the code produces `retrieve`/`destroy`.
* `requestless_serializer` (spec gap, schemas.py:387): `create_view` sets
  `view.request = None` without a request, and `get_serializer()` still
  runs for PUT/PATCH/POST. A `get_serializer_class` that reads
  `self.request` raises AttributeError and the whole call fails.
* `description_line_breaks` (code bug, schemas.py:332): the stripped lead
  after `name:` and the next line are concatenated with no newline, so
  `list: list` followed by `:` gives `list:`.
* `multi_db_rollback` (code bug, compat.py:269): `set_rollback` looks only
  at `connection`, the default alias. With ATOMIC_REQUESTS on another alias,
  a handled API error commits the writes the view made there.
* `simple_callable_py3` (code bug, compat.py:251): the signature branch
  counts `*args`/`**kwargs` as parameters without defaults, so
  `def m(self, *args)` is reported as needing arguments. The docstring and
  the Python 2 branch say it takes none.
* `enclosing_atomic` (code bug, compat.py:272): `set_rollback` tests
  `connection.in_atomic_block`, which a block of the view's caller also
  sets. The setup: ATOMIC_REQUESTS is on, the view is `non_atomic_requests`,
  and the caller runs it inside `transaction.atomic()` (as a TestCase does).
  An API error then marks the caller's block for rollback. The block stays
  marked after the request, so the caller's next query raises
  TransactionManagementError. The comment says the rollback is the
  request's, for Django to handle.

## Bounds

`MCSchemaGenerator` has:
* two users: `u1` is staff, and `u2` may read users only;
* `NoRequest`;
* four view classes: a user viewset with an object serializer, pagination and
  two filter backends; a group viewset with a list serializer and `*/*`
  parsing; an API root; and the schema view, which is excluded;
* ten callbacks, including a non-REST admin view and an excluded instance
  (via `initkwargs`);
* a plain `PingView` that answers TRACE, and an `AccountViewSet` whose
  serializer hook reads the request;
* docstrings: a user viewset with an unlabelled section and `list:` and
  `retrieve:` sections (the latter with its text on the next line), a `star`
  action docstring, an API root `get` docstring, and classes without any.

It has six URL confs:
* **RouterConf**: a resolver under `api/` holding a second resolver under
  `users/{pk}/` (so a prefix accumulates over two levels), a detail route with its
  `.{format}` twin, a GET+POST custom action, the root path and the admin
  view.
* **NestedConf**: a silent overwrite.
* **CollisionConf**: the TypeError.
* **PingConf**: an unnamed group and the HEAD KeyError.
* **TraceConf**: the TRACE KeyError of a plain view.
* **AccountConf**: the requestless AttributeError.

These confs reach every branch of every modelled function:
* resolver, pattern and other nodes;
* each filter;
* list-shaped or not;
* the serializer kinds and PATCH;
* custom single- and multi-method actions;
* the root path's `""` key;
* every outcome of the loop step.

Two callers suffice for the memo: the interesting interleavings are of two
threads around one check-then-set. The main run reaches 4,471 distinct
states in about 11 seconds.

`MCDescription` enumerates every class docstring of up to three lines. Lines
come from short token runs over `list`, `get` (identifiers), `9x` (not one),
`:` and indentation, plus header lines with a lead and indented headers.
It combines these with three method-docstring maps and two method names,
one of which names a section. That reaches a header with and without a
lead, repeated headers, two section names, a header-like line with a
non-identifier, indentation and blank lines.

`MCCompat` has, for `set_rollback`:
* two aliases;
* a view that is atomic or non-atomic;
* a caller's block on the default alias, or none;
* any writes;
* all three ways a view ends.

For `is_simple_callable` it enumerates every function and bound method
with up to five parameters that the interpreter can declare: 118 of them
for Python 2. The `compat` run reaches 29,264 states. Five parameters are
needed to combine self, defaults, `*args` and `**kwargs`.

## Fairness

Request threads are OS threads scheduled under the interpreter lock. A
runnable thread is eventually scheduled, and no step of one caller can
disable another caller's step. This justifies weak fairness on each action of
each caller, which is `Fairness(c)`. `Terminated` is a stuttering step once
every call has returned, so deadlock checking stays on.

The request in `SetRollback` is sequential. Django gives each thread its
own connection, so requests do not interleave on this state. The model
checks safety only, and `Terminated` stutters after `AtomicExit`. A block
of the view's caller is modelled only on the default alias. That is the
alias `set_rollback` reads, and the one `transaction.atomic()` opens by
default. The view's own nested `atomic()` blocks are left out: they have
exited before the exception handler runs.

## Not modelled

* The `urljoin` onto `self.url`, the OrderedDict key order of the document,
  and HTML (markdown) descriptions.
* Renderer selection in `get_schema_view` (schemas.py:488-495), which is
  why SchemaView is only partly modelled. It picks a fixed renderer list
  once, from settings, when the view is built, and no request changes it.
  Which renderer a response uses is decided by content negotiation outside
  this repository. No property of the schema depends on it.
* `EndpointInspector.__init__`'s import of the URL conf module. This is I/O,
  replaced by the `urlconf` constant.
* User code that `get_serializer` runs is reduced to one class flag:
  whether it reads `self.request`.
* The rest of `compat.py`:
  - import fallbacks and optional packages;
  - JSON separators and the `http_method_names` patch;
  - one-call version switches: `unicode_repr`, `unicode_to_repr`,
    `unicode_http_header`, `distinct`, `get_names_and_managers`,
    `get_remote_field`, `_resolve_model`, `is_authenticated`,
    `get_related_model`, `value_from_object`, `apply_markdown`,
    `template_render`;
  - `total_seconds`, which is float arithmetic.

  None of these keeps state or has control flow that the models depend on.
* The pre-1.6 branches of `set_rollback` (`is_managed`/`rollback`). They
  cannot run, because `compat.py` imports `django.apps`, which needs
  Django 1.7.
* `is_simple_callable` on builtins, classes and callable objects. The code
  answers False for them, and the docstring's question is not posed for
  them.
