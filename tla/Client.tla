------------------------------- MODULE Client -------------------------------
(***************************************************************************)
(* A client, its children and their extensions, and the calls of the       *)
(* methods of its API, up to the request handed to the transport.          *)
(*                                                                         *)
(* JavaScript objects are shared, so the headers option is the identity of *)
(* an object: the client whose constructor or child() call was given it.   *)
(* What matters of its contents is `authorization`.  The authorization a   *)
(* request carries is that of its transport, which copied the headers when *)
(* it was made, or else the one of the connection, made by the root.       *)
(***************************************************************************)
EXTENDS ApiOps, FiniteSets, FiniteSetsExt

CONSTANTS
  ClientId,         \* the root client and those child() may make
  Root,
  Api,              \* the sets of methods of a client, by namespace
  Probe,            \* the methods called in every way, and on every client
  Auth,             \* values of the option auth
  NoAuth,
  ExtensionName,    \* names given to extend()
  Builtin,          \* those of them a client already has
  Fn,               \* functions given to extend()
  MaxExtensions     \* bound: successful calls of extend()

Methods == UNION Range(Api)

\* The last branch of a method has no condition: the parts of its url are required, as
\* the generator of the methods sees to.
ASSUME WellFormed ==
  \A m \in Methods :
    /\ Len(m.urls) \in Nat \ {0}
    /\ DOMAIN m.urls = 1 .. Len(m.urls)
    /\ PartsOf(m.urls[Len(m.urls)]) \subseteq m.required

ASSUME ProbeAssumption == Probe \subseteq Methods

ASSUME ClientAssumption ==
  /\ Root \in ClientId
  /\ NoAuth \notin Auth
  /\ Builtin \subseteq ExtensionName
  /\ "none" \notin Fn
  /\ MaxExtensions \in Nat

VARIABLES
  clients,        \* the clients there are
  options,        \* their kInitialOptions: auth, and the identity of the headers
  authorization,  \* the field of each headers object
  transport,      \* the authorization in the headers of each client's transport
  extensions,     \* their kExtensions
  methods,        \* the function that extend() bound to a name, and the client it calls
  last            \* the last call of a method: "none", or what was passed and what was sent

vars == <<clients, options, authorization, transport, extensions, methods, last>>
clientVars == <<clients, options, authorization, transport, extensions, methods>>

-----------------------------------------------------------------------------

NoCall == [of |-> "none"]

Unbound == [fn |-> "none", via |-> Root]

NoExtensions == [name \in ExtensionName |-> Unbound]

\* Connection.internals.prepareHeaders: the headers object itself is changed.
PrepareHeaders(headers, auth) ==
  IF auth # NoAuth /\ authorization[headers] = NoAuth
    THEN [authorization EXCEPT ![headers] = auth]
    ELSE authorization

\* Mutation of Authorization: that of the connection, if it has one.
AuthorizationOfConnection(c) ==
  IF options[Root].auth # NoAuth THEN options[Root].auth ELSE transport[c]

\* What a request of client c carries.
Authorization(c) == IF transport[c] # NoAuth THEN transport[c] ELSE options[Root].auth

\* `this[method] != null`, of a client with these extensions.
Exists(bound, name) == name \in Builtin \/ bound[name] # Unbound

Bind(bound, extension, c) == [bound EXCEPT ![extension.name] = [fn |-> extension.fn, via |-> c]]

\* Could the extensions be applied to a new client, one after the other?
Replays(list) ==
  \A k \in DOMAIN list :
    list[k].force \/ (list[k].name \notin Builtin
                        /\ \A j \in 1 .. (k - 1) : list[j].name # list[k].name)

\* Mutation of Replay: the first of a name stays.
ReplayFirst(list, c) ==
  [name \in ExtensionName |->
     LET given == {k \in DOMAIN list : list[k].name = name}
     IN  IF given = {} THEN Unbound ELSE [fn |-> list[Min(given)].fn, via |-> c]]

\* Applied one after the other, the last of a name stays.
Replay(list, c) ==
  [name \in ExtensionName |->
     LET given == {k \in DOMAIN list : list[k].name = name}
     IN  IF given = {} THEN Unbound ELSE [fn |-> list[Max(given)].fn, via |-> c]]

-----------------------------------------------------------------------------

Init ==
  /\ clients = {Root}
  /\ options \in {[c \in ClientId |-> [auth |-> auth, headers |-> Root]] :
                    auth \in Auth \cup {NoAuth}}
  /\ authorization = [c \in ClientId |-> NoAuth]
  /\ transport = [c \in ClientId |-> NoAuth]
  /\ extensions = [c \in ClientId |-> <<>>]
  /\ methods = [c \in ClientId |-> NoExtensions]
  /\ last = NoCall

\* child({ auth, headers }), both optional: without headers the child is given the very object its
\* parent has, and prepareHeaders does not overwrite what an earlier child put there.
Child(parent, c) ==
  /\ parent \in clients
  /\ c \notin clients
  /\ \E auth \in Auth \cup {options[parent].auth} :
     \E headers \in {c, options[parent].headers} :
       /\ options' = [options EXCEPT ![c] = [auth |-> auth, headers |-> headers]]
       /\ authorization' = PrepareHeaders(headers, auth)
       /\ transport' = [transport EXCEPT ![c] = authorization'[headers]]
  /\ Replays(extensions[parent])
  /\ clients' = clients \cup {c}
  /\ extensions' = [extensions EXCEPT ![c] = extensions[parent]]
  /\ methods' = [methods EXCEPT ![c] = Replay(extensions[parent], c)]
  /\ last' = NoCall

\* extend(name, { force }, fn).
Extend(c, extension) ==
  /\ c \in clients
  /\ Cardinality(UNION {{d} \X DOMAIN extensions[d] : d \in clients}) < MaxExtensions
  /\ extension.force \/ ~Exists(methods[c], extension.name)
  /\ methods' = [methods EXCEPT ![c] = Bind(@, extension, c)]
  /\ extensions' = [extensions EXCEPT ![c] = Append(@, extension)]
  /\ last' = NoCall
  /\ UNCHANGED <<clients, options, authorization, transport>>

\* A method of the API is called; without params it looks up its names in {}.
CallApi(c, m, given, shape) ==
  LET normalized == NormalizeArguments(shape)
      args == IF normalized.params = "given" THEN given
              ELSE NoArguments(m)
  IN  /\ c \in clients
      /\ \E i \in DOMAIN m.urls :
           /\ Takes(m, args, i)
           /\ last' = [of |-> "api", client |-> c, method |-> m, args |-> args, shape |-> shape,
                       options |-> normalized.options, callback |-> normalized.callback,
                       refused |-> Refused(m, args), url |-> m.urls[i],
                       request |-> Request(m, args, i), authorization |-> Authorization(c)]
      /\ UNCHANGED clientVars

\* A function bound by extend() is called: makeRequest is the transport's it was bound with.
CallExtension(c, name) ==
  /\ last = NoCall
  /\ c \in clients
  /\ methods[c][name] # Unbound
  /\ last' = [of |-> "extension", client |-> c,
              authorization |-> Authorization(methods[c][name].via)]
  /\ UNCHANGED clientVars

\* The call is over.
Answered ==
  /\ last # NoCall
  /\ last' = NoCall
  /\ UNCHANGED clientVars

PlainShape == [params |-> "given", options |-> "null", callback |-> "null"]

\* While the root is alone all of the API is called in the plain way and without an override
\* of the verb, and the methods of Probe in every way.
CallAlone ==
  /\ last = NoCall /\ clients = {Root} /\ extensions[Root] = <<>>
  /\ \/ \E m \in Methods : \E args \in Arguments(m, {"absent"}) :
          CallApi(Root, m, args, PlainShape)
     \/ \E m \in Probe : \E args \in Arguments(m, Verbs \cup {"absent"}), shape \in Shapes :
          CallApi(Root, m, args, shape)

\* Every client calls the methods of Probe, without parameters.
CallProbe ==
  /\ last = NoCall
  /\ \E c \in ClientId, m \in Probe : CallApi(c, m, NoArguments(m), PlainShape)

Next ==
  \/ \E parent, c \in ClientId : Child(parent, c)
  \/ \E c \in ClientId, extension \in [name : ExtensionName, force : BOOLEAN, fn : Fn] :
       Extend(c, extension)
  \/ CallAlone
  \/ CallProbe
  \/ \E c \in ClientId, name \in ExtensionName : CallExtension(c, name)
  \/ Answered

Spec == Init /\ [][Next]_vars

-----------------------------------------------------------------------------

IsSent == last.of = "api" /\ ~last.refused

\* The parameters given are truthy.
Truthy(args) == \A name \in DOMAIN args.parts : args.parts[name] \notin Falsy

\* The path of a request holds the values the caller gave, never "undefined": the branch a
\* method takes uses only parts that were checked, by its condition or as required parameters.
PathComplete ==
  IsSent /\ Truthy(last.args) =>
    \A k \in DOMAIN last.request.path : last.request.path[k].value \in {"literal", "value"}

\* No callback and no options are lost on the way to the transport, whichever of the optional
\* arguments are left out, if params are given.
ArgumentsKept ==
  last.of = "api" /\ last.shape.params # "null" =>
    /\ (\E place \in {"params", "options", "callback"} : last.shape[place] = "function")
         => last.callback # "none"
    /\ last.shape.params = "given" /\ last.shape.options = "given" => last.options = "given"

\* The root, and the children made with the headers object this one has.  The transport of the
\* root copied its headers before there were children.
Sharers(c) ==
  IF c = Root THEN {Root}
  ELSE {d \in clients \ {Root} : options[d].headers = options[c].headers}

\* Whether by a method, by an extension or by one inherited from the parent, a client sends with
\* its own auth or with that of a child that was made with the same headers object: the root
\* always with its own, a child as well if it was given headers of its own or if all who have
\* them have the same auth.
AuthorizationOfSharers ==
  last.of # "none" => \E d \in Sharers(last.client) : last.authorization = options[d].auth

\* A client sends with the auth it was given, or its parent's if it was given none.  "You can pass
\* to the `child` every client option you would pass to a normal client", auth among them, and a
\* test expects a child with an auth and no headers to send its own.
OwnAuthorization ==
  last.of # "none" => last.authorization = options[last.client].auth

\* child() never fails because of an extension: what its parent accepted applies to a new client.
\* A child begins with its parent's extensions, the functions that force put there included, and
\* from then on neither sees what is added to the other.
ChildExtends ==
  [][ /\ \A c \in clients' : Replays(extensions'[c])
      /\ \A c \in ClientId :
           methods'[c] # methods[c] =>
             \/ /\ c \in clients
                /\ \A d \in ClientId \ {c} : methods'[d] = methods[d]
                /\ Len(extensions'[c]) = Len(extensions[c]) + 1
             \/ /\ c \notin clients
                /\ \E parent \in clients : \A name \in ExtensionName :
                     methods'[c][name].fn = methods[parent][name].fn ]_vars
=============================================================================
