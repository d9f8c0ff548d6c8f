------------------------------- MODULE ApiOps -------------------------------
(***************************************************************************)
(* What a method of the API does with its arguments.  The methods are      *)
(* generated and differ in data only, which modules ApiDocuments ...       *)
(* ApiSearch give:                                                         *)
(*   required  the parameters whose absence is an error                    *)
(*   needs     the parts of the url that make others required              *)
(*   urls      the branches that build method and path, in their order;    *)
(*             the last one is the `else`                                  *)
(*   body      how the body is passed to the transport                     *)
(* A part of a url is written ":index"; the caller gives its value.        *)
(*                                                                         *)
(* Abstractions.  A value is one that is truthy, or one that is not null   *)
(* but falsy, as '' or 0; which of the spellings `job_id` and `jobId` it   *)
(* is given by matters to the falsy ones.  Other querystring parameters    *)
(* than required ones are left out, and so is the wording of errors.       *)
(***************************************************************************)
EXTENDS Naturals, Sequences, Functions

Url(methods, path) == [methods |-> methods, path |-> path]

\* Mutation of HEAD: the verb of the method that returns the thing.
HEADasGET(path) == Url({"GET"}, path)

GET(path) == Url({"GET"}, path)
HEAD(path) == Url({"HEAD"}, path)
POST(path) == Url({"POST"}, path)
PUT(path) == Url({"PUT"}, path)
DELETE(path) == Url({"DELETE"}, path)

\* `body == null ? 'GET' : 'POST'`
GETorPOST(path) == Url({"GET", "POST"}, path)

\* `if (params[part] != null && (one of others is null))`
Needs(part, others) == [part |-> part, others |-> others]

Validated(required, needs, urls, body) ==
  [required |-> required, needs |-> needs, urls |-> urls, body |-> body]

Method(required, urls, body) == Validated(required, {}, urls, body)

Verbs == {"GET", "HEAD", "POST", "PUT", "DELETE"}

-----------------------------------------------------------------------------

\* Parts with an underscore have a second spelling in camel case.
Aliased ==
  {":action_id", ":calendar_id", ":category_id", ":datafeed_id", ":event_id", ":filter_id",
   ":forecast_id", ":index_metric", ":index_uuid", ":job_id", ":model_id", ":new_index",
   ":node_id", ":policy_id", ":rollup_index", ":scroll_id", ":snapshot_id",
   ":target_snapshot", ":task_id", ":thread_pool_patterns", ":transform_id", ":watch_id",
   "requests_per_second"}

PartNames ==
  (Aliased \ {"requests_per_second"}) \cup
  {":alias", ":application", ":block", ":context", ":fields", ":id", ":ids", ":index",
   ":metric", ":name", ":policy", ":realms", ":repository", ":snapshot", ":target",
   ":timestamp", ":type", ":user", ":username"}

PartsOf(url) == Range(url.path) \cap PartNames

UrlsOf(m) == Range(m.urls)

\* The names the method looks for in params, besides `method` and `body`.
NamesOf(m) == UNION {PartsOf(url) : url \in UrlsOf(m)} \cup (m.required \ {"body"})

\* How one parameter is given: "snake" and "camel" tell the spelling of a truthy value.
Spellings(name) ==
  {"absent", "snake", "snakeFalsy"} \cup (IF name \in Aliased THEN {"camel", "camelFalsy"} ELSE {})

Falsy == {"snakeFalsy", "camelFalsy"}

BodyArguments == {"absent", "falsy", "given"}

\* The params object of a call: the parameters by name, the body, and `method`, which
\* overrides the verb.
Arguments(m, overrides) ==
  [parts : {parts \in [NamesOf(m) -> {"absent", "snake", "snakeFalsy", "camel", "camelFalsy"}] :
              \A name \in NamesOf(m) : parts[name] \in Spellings(name)},
   body : BodyArguments,
   method : overrides]

NoArguments(m) ==
  [parts |-> [name \in NamesOf(m) |-> "absent"], body |-> "absent", method |-> "absent"]

\* params[name] != null || params[camelCase of name] != null
Given(args, name) ==
  IF name = "body" THEN args.body # "absent" ELSE args.parts[name] # "absent"

\* Mutation of Refused: required parameters are not looked for.
RefusedByPath(m, args) ==
  \E n \in m.needs : Given(args, n.part) /\ \E other \in n.others : ~Given(args, other)

\* The checks at the head of the method: "Missing required parameter".
Refused(m, args) ==
  \/ \E name \in m.required : ~Given(args, name)
  \/ \E n \in m.needs :
        Given(args, n.part) /\ \E other \in n.others : ~Given(args, other)

\* What `task_id || taskId` evaluates to.  A falsy value by the first name gives way to the
\* second, which is not there.
ValueOf(args, part) ==
  CASE args.parts[part] = "absent" -> "undefined"
    [] args.parts[part] \in {"snake", "camel"} -> "value"
    [] args.parts[part] = "camelFalsy" -> "falsy"
    [] OTHER -> IF part \in Aliased THEN "undefined" ELSE "falsy"

\* The condition of a branch: `(node_id || nodeId) != null && (metric) != null`.
Fits(url, args) == \A part \in PartsOf(url) : ValueOf(args, part) # "undefined"

\* Mutation of Takes: an `else` is missing.
TakesAlso(m, args, i) ==
  /\ i \in DOMAIN m.urls
  /\ i = Len(m.urls) \/ Fits(m.urls[i], args)

\* The branch a call takes.
Takes(m, args, i) ==
  /\ i \in DOMAIN m.urls
  /\ i = Len(m.urls) \/ Fits(m.urls[i], args)
  /\ \A j \in DOMAIN m.urls : j < i => ~Fits(m.urls[j], args)

Verb(url, args) ==
  CASE args.method # "absent" -> args.method
    [] url.methods = {"GET", "POST"} -> IF args.body = "absent" THEN "GET" ELSE "POST"
    [] OTHER -> CHOOSE verb \in url.methods : TRUE

\* The segments of the path, each with what encodeURIComponent makes of it.
Path(url, args) ==
  [k \in DOMAIN url.path |->
     [name |-> url.path[k],
      value |-> IF url.path[k] \in PartNames THEN ValueOf(args, url.path[k]) ELSE "literal"]]

\* `body: body || ''`, `body: null` and `bulkBody: body`
Body(m, args) ==
  CASE m.body = "none" -> "null"
    [] m.body = "body" -> IF args.body = "given" THEN "given" ELSE "''"
    [] m.body = "bulkBody" -> args.body

\* snakeCaseKeys: what is left of params goes to the querystring, by its snake case name.
Query(m, args) ==
  {name \in NamesOf(m) \ PartNames : Given(args, name)}

\* The request object handed to transport.request.
Request(m, args, i) ==
  LET url == m.urls[i]
  IN  [verb |-> Verb(url, args), path |-> Path(url, args), body |-> Body(m, args),
       query |-> Query(m, args)]

-----------------------------------------------------------------------------
(***************************************************************************)
(* The ways a method is called: what stands at the place of params,        *)
(* options and callback.                                                   *)
(***************************************************************************)

Shapes ==
  [params : {"given", "null", "function"}, options : {"given", "null", "function"},
   callback : {"null", "function"}]

\* Mutation of NormalizeArguments: a callback at the place of the options is taken for options.
NormalizeArgumentsInOrder(shape) ==
  CASE shape.params = "function" -> [params |-> "{}", options |-> "{}", callback |-> "first"]
    [] shape.params = "null" -> [params |-> "{}", options |-> "{}", callback |-> "none"]
    [] shape.params = "given" ->
         [params |-> "given", options |-> shape.options,
          callback |-> IF shape.callback = "function" THEN "third" ELSE "none"]

\* normalizeArguments.  The callback is named by where the caller put it.
NormalizeArguments(shape) ==
  LET second == shape.options = "function"
      callback == IF second THEN "second"
                  ELSE IF shape.callback = "function" THEN "third" ELSE "none"
  IN  CASE shape.params = "function" ->
             [params |-> "{}", options |-> "{}", callback |-> "first"]
        [] shape.params = "null" ->
             [params |-> "{}", options |-> "{}", callback |-> "none"]
        [] shape.params = "given" ->
             [params |-> "given",
              options |-> IF second THEN "{}" ELSE shape.options, callback |-> callback]
=============================================================================
