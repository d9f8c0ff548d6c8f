---------------------------- MODULE Client_proof ----------------------------
(***************************************************************************)
(* Calls and children of a client: no method of any well formed API sends  *)
(* "undefined" in a path, a call keeps its callback and its options,       *)
(* children send as themselves and have the extensions of their parents.   *)
(***************************************************************************)
EXTENDS Client, WellFoundedInduction, TLAPS

\* Arguments a call may have: every parameter has one of the spellings.
IsArguments(m, args) ==
  args.parts \in [NamesOf(m) -> {"absent", "snake", "snakeFalsy", "camel", "camelFalsy"}]

\* The parts of a branch are names its method looks for.
LEMMA PartsAreNames ==
  ASSUME NEW m \in Methods, NEW i \in DOMAIN m.urls, NEW part \in PartsOf(m.urls[i])
  PROVE  part \in NamesOf(m)
<1>1. m.urls[i] \in UrlsOf(m)
  BY DEF UrlsOf, Range
<1> QED
  BY <1>1 DEF NamesOf

\* A parameter that was given, and truthy, is sent as it is.
LEMMA GivenIsValue ==
  ASSUME NEW m, NEW args, NEW part \in NamesOf(m), IsArguments(m, args), Truthy(args),
         args.parts[part] # "absent"
  PROVE  ValueOf(args, part) = "value"
<1>1. DOMAIN args.parts = NamesOf(m)
  BY DEF IsArguments
<1>2. args.parts[part] \in {"snake", "camel"}
  BY <1>1 DEF IsArguments, Truthy, Falsy
<1> QED
  BY <1>2 DEF ValueOf

\* The branch a method takes uses parts that were given only: those of its condition, or, in the
\* last branch, those that are required.
LEMMA BranchIsGiven ==
  ASSUME NEW m \in Methods, NEW args, IsArguments(m, args), ~Refused(m, args),
         NEW i, Takes(m, args, i), NEW part \in PartsOf(m.urls[i])
  PROVE  args.parts[part] # "absent"
<1>1. CASE i = Len(m.urls)
  <2>1. part \in m.required
    BY <1>1, WellFormed
  <2>2. part # "body"
    BY DEF PartsOf, PartNames, Aliased
  <2> QED
    BY <2>1, <2>2 DEF Refused, Given
<1>2. CASE Fits(m.urls[i], args)
  <2>1. ValueOf(args, part) # "undefined"
    BY <1>2 DEF Fits
  <2> QED
    BY <2>1 DEF ValueOf
<1> QED
  BY <1>1, <1>2 DEF Takes

\* So every segment of the path is a literal or the value of an argument.
LEMMA RequestComplete ==
  ASSUME NEW m \in Methods, NEW args, IsArguments(m, args), Truthy(args), ~Refused(m, args),
         NEW i, Takes(m, args, i), NEW k \in DOMAIN Request(m, args, i).path
  PROVE  Request(m, args, i).path[k].value \in {"literal", "value"}
<1> DEFINE url == m.urls[i]
<1>1. Request(m, args, i).path = Path(url, args)
  BY DEF Request
<1>2. k \in DOMAIN url.path
  BY <1>1 DEF Path
<1>3. Path(url, args)[k].value =
        IF url.path[k] \in PartNames THEN ValueOf(args, url.path[k]) ELSE "literal"
  BY <1>2 DEF Path
<1>4. CASE url.path[k] \in PartNames
  <2>1. url.path[k] \in PartsOf(url)
    BY <1>2, <1>4 DEF PartsOf, Range
  <2>2. i \in DOMAIN m.urls
    BY DEF Takes
  <2>3. url.path[k] \in NamesOf(m)
    BY <2>1, <2>2, PartsAreNames
  <2>4. args.parts[url.path[k]] # "absent"
    BY <2>1, BranchIsGiven
  <2>5. ValueOf(args, url.path[k]) = "value"
    BY <2>3, <2>4, GivenIsValue
  <2> QED
    BY <1>1, <1>3, <1>4, <2>5
<1>5. CASE url.path[k] \notin PartNames
  BY <1>1, <1>3, <1>5
<1> QED
  BY <1>4, <1>5

\* Whatever the methods of the API are, if their last branches use required parts only: a request
\* is sent to a path whose every part is a value the caller gave.
THEOREM PathIsComplete == Spec => []PathComplete
<1>1. Init => PathComplete
  BY DEF Init, PathComplete, IsSent, NoCall
<1>2. PathComplete /\ [Next]_vars => PathComplete'
  <2> SUFFICES ASSUME PathComplete, [Next]_vars
               PROVE  PathComplete'
    OBVIOUS
  <2>1. ASSUME last'.of # "api"
        PROVE  PathComplete'
    BY <2>1 DEF PathComplete, IsSent
  <2>2. ASSUME NEW c, NEW m \in Methods, NEW given, NEW shape, IsArguments(m, given),
               CallApi(c, m, given, shape)
        PROVE  PathComplete'
    <3>1. PICK args, i : /\ IsArguments(m, args)
                         /\ Takes(m, args, i)
                         /\ last'.args = args
                         /\ last'.refused = Refused(m, args)
                         /\ last'.request = Request(m, args, i)
      <4>1. IsArguments(m, NoArguments(m))
        BY DEF IsArguments, NoArguments
      <4> QED
        BY <2>2, <4>1 DEF CallApi
    <3> SUFFICES ASSUME IsSent', Truthy(args), NEW k \in DOMAIN Request(m, args, i).path
                 PROVE  Request(m, args, i).path[k].value \in {"literal", "value"}
      BY <3>1 DEF PathComplete
    <3>2. ~Refused(m, args)
      BY <3>1 DEF IsSent
    <3> QED
      BY <3>1, <3>2, RequestComplete
  <2>3. ASSUME NEW parent, NEW c, Child(parent, c)
        PROVE  PathComplete'
    BY <2>1, <2>3 DEF Child, NoCall
  <2>4. ASSUME NEW c, NEW extension, Extend(c, extension)
        PROVE  PathComplete'
    BY <2>1, <2>4 DEF Extend, NoCall
  <2>5. CASE CallAlone
    <3>1. \A m, overrides : \A args \in Arguments(m, overrides) : IsArguments(m, args)
      BY DEF Arguments, IsArguments
    <3>2. PICK m, given, shape : /\ m \in Methods /\ IsArguments(m, given)
                                /\ CallApi(Root, m, given, shape)
      BY <2>5, <3>1, ProbeAssumption DEF CallAlone
    <3> QED
      BY <2>2, <3>2
  <2>6. CASE CallProbe
    <3>1. \A m : IsArguments(m, NoArguments(m))
      BY DEF IsArguments, NoArguments
    <3>2. PICK c \in ClientId, m \in Probe : CallApi(c, m, NoArguments(m), PlainShape)
      BY <2>6 DEF CallProbe
    <3> QED
      BY <2>2, <3>1, <3>2, ProbeAssumption
  <2>7. ASSUME NEW c, NEW name, CallExtension(c, name)
        PROVE  PathComplete'
    BY <2>1, <2>7 DEF CallExtension
  <2>8. CASE Answered
    BY <2>1, <2>8 DEF Answered, NoCall
  <2>9. CASE UNCHANGED vars
    BY <2>9 DEF vars, PathComplete, IsSent
  <2> QED
    BY <2>3, <2>4, <2>5, <2>6, <2>7, <2>8, <2>9 DEF Next
<1> QED
  BY <1>1, <1>2, PTL DEF Spec
-----------------------------------------------------------------------------

\* What makes AuthorizationOfSharers inductive.  An authorization in a headers object, and in the
\* headers a transport copied from it, is the auth of a child that was made with this object;
\* only the root and children without an auth have none in their transport, and who has no auth
\* descends from a root that has none; a function is bound to the transport of the client it was
\* bound on.
AuthInv ==
  /\ options \in [ClientId -> [auth : Auth \cup {NoAuth}, headers : ClientId]]
  /\ authorization \in [ClientId -> Auth \cup {NoAuth}]
  /\ transport \in [ClientId -> Auth \cup {NoAuth}]
  /\ DOMAIN methods = ClientId /\ \A c \in ClientId : DOMAIN methods[c] = ExtensionName
  /\ Root \in clients /\ clients \subseteq ClientId
  /\ transport[Root] = NoAuth
  /\ \A h \in ClientId : authorization[h] # NoAuth =>
       \E d \in clients \ {Root} : options[d].headers = h /\ options[d].auth = authorization[h]
  /\ \A c \in clients \ {Root} :
       IF transport[c] = NoAuth
         THEN options[c].auth = NoAuth
         ELSE \E d \in Sharers(c) : options[d].auth = transport[c]
  /\ \A c \in clients : options[c].auth = NoAuth => options[Root].auth = NoAuth
  /\ \A c \in clients : \A name \in ExtensionName :
       methods[c][name] # Unbound => methods[c][name].via = c
  /\ last.of # "none" => last.client \in clients

LEMMA AuthInvInit == Init => AuthInv
BY ClientAssumption DEF Init, AuthInv, NoCall, NoExtensions, Unbound

LEMMA AuthInvStep ==
  ASSUME AuthInv, [Next]_vars
  PROVE  AuthInv'
<1> USE ClientAssumption
<1>1. ASSUME clientVars' = clientVars, last'.of # "none" => last'.client \in clients
      PROVE  AuthInv'
  BY <1>1 DEF AuthInv, clientVars, Sharers
<1>2. ASSUME NEW parent \in ClientId, NEW c \in ClientId, Child(parent, c)
      PROVE  AuthInv'
  <2>1. PICK auth \in Auth \cup {options[parent].auth}, headers \in {c, options[parent].headers} :
          /\ options' = [options EXCEPT ![c] = [auth |-> auth, headers |-> headers]]
          /\ authorization' = PrepareHeaders(headers, auth)
          /\ transport' = [transport EXCEPT ![c] = authorization'[headers]]
    BY <1>2 DEF Child
  <2>2. /\ parent \in clients /\ c \notin clients
        /\ clients' = clients \cup {c}
        /\ methods' = [methods EXCEPT ![c] = Replay(extensions[parent], c)]
        /\ last' = NoCall
    BY <1>2 DEF Child
  <2>3. c # Root /\ auth \in Auth \cup {NoAuth} /\ headers \in ClientId
    BY <2>1, <2>2 DEF AuthInv
  <2>4. /\ authorization' \in [ClientId -> Auth \cup {NoAuth}]
        /\ \A h \in ClientId : h # headers => authorization'[h] = authorization[h]
        /\ authorization'[headers] =
             IF authorization[headers] = NoAuth THEN auth ELSE authorization[headers]
    BY <2>1, <2>3 DEF PrepareHeaders, AuthInv
  <2>5. auth = NoAuth => options[Root].auth = NoAuth
    BY <2>1, <2>2 DEF AuthInv
  <2>6. /\ DOMAIN methods' = ClientId /\ \A d \in ClientId : DOMAIN methods'[d] = ExtensionName
        /\ \A name \in ExtensionName :
             methods'[c][name] # Unbound => methods'[c][name].via = c
        /\ \A d \in clients : methods'[d] = methods[d]
    BY <2>2 DEF Replay, AuthInv
  <2>7. /\ options' \in [ClientId -> [auth : Auth \cup {NoAuth}, headers : ClientId]]
        /\ transport' \in [ClientId -> Auth \cup {NoAuth}]
    BY <2>1, <2>3, <2>4 DEF AuthInv
  <2>8. /\ options'[c] = [auth |-> auth, headers |-> headers]
        /\ transport'[c] = authorization'[headers]
        /\ \A d \in clients : transport'[d] = transport[d] /\ options'[d] = options[d]
    BY <2>1, <2>2, <2>3 DEF AuthInv
  <2>9. Root \in clients' /\ clients' \subseteq ClientId /\ last'.of = "none"
    BY <2>2 DEF AuthInv, NoCall
  <2>10. ASSUME NEW h \in ClientId, authorization'[h] # NoAuth
         PROVE  \E d \in clients' \ {Root} :
                  options'[d].headers = h /\ options'[d].auth = authorization'[h]
    <3>1. CASE h = headers /\ authorization[headers] = NoAuth
      BY <2>2, <2>3, <2>4, <2>8, <3>1 DEF AuthInv
    <3>2. CASE h # headers \/ authorization[headers] # NoAuth
      <4>1. authorization'[h] = authorization[h]
        BY <2>4, <3>2 DEF AuthInv
      <4>2. PICK d \in clients \ {Root} :
              options[d].headers = h /\ options[d].auth = authorization[h]
        BY <2>10, <4>1 DEF AuthInv
      <4> QED
        BY <2>2, <2>8, <4>1, <4>2
    <3> QED
      BY <3>1, <3>2
  <2>11. ASSUME NEW d \in clients' \ {Root}
         PROVE  IF transport'[d] = NoAuth
                  THEN options'[d].auth = NoAuth
                  ELSE \E e \in Sharers(d)' : options'[e].auth = transport'[d]
    <3>1. CASE d = c /\ transport'[c] = NoAuth
      BY <2>3, <2>4, <2>8, <3>1 DEF AuthInv
    <3>2. CASE d = c /\ transport'[c] # NoAuth
      <4>1. PICK e \in clients' \ {Root} :
              options'[e].headers = headers /\ options'[e].auth = authorization'[headers]
        BY <2>3, <2>8, <2>10, <3>2
      <4>2. e \in Sharers(d)'
        BY <2>3, <2>8, <3>2, <4>1 DEF Sharers
      <4> QED
        BY <2>8, <3>2, <4>1, <4>2
    <3>3. CASE d # c /\ transport[d] = NoAuth
      BY <2>2, <2>8, <3>3 DEF AuthInv
    <3>4. CASE d # c /\ transport[d] # NoAuth
      <4>1. PICK e \in Sharers(d) : options[e].auth = transport[d]
        BY <2>2, <3>4 DEF AuthInv
      <4>2. e \in clients /\ e \in Sharers(d)'
        BY <2>2, <2>8, <3>4, <4>1 DEF Sharers
      <4> QED
        BY <2>2, <2>8, <3>4, <4>1, <4>2
    <3> QED
      BY <3>1, <3>2, <3>3, <3>4
  <2>12. \A d \in clients' : options'[d].auth = NoAuth => options'[Root].auth = NoAuth
    BY <2>2, <2>5, <2>8 DEF AuthInv
  <2>13. transport'[Root] = NoAuth
    BY <2>8 DEF AuthInv
  <2>14. \A d \in clients' : \A name \in ExtensionName :
           methods'[d][name] # Unbound => methods'[d][name].via = d
    BY <2>2, <2>6 DEF AuthInv
  <2> QED
    BY <2>4, <2>6, <2>7, <2>9, <2>10, <2>11, <2>12, <2>13, <2>14 DEF AuthInv
<1>3. ASSUME NEW c \in ClientId, NEW extension \in [name : ExtensionName, force : BOOLEAN, fn : Fn],
             Extend(c, extension)
      PROVE  AuthInv'
  <2>1. /\ methods' = [methods EXCEPT ![c] = Bind(methods[c], extension, c)]
        /\ UNCHANGED <<clients, options, authorization, transport>>
        /\ last'.of = "none"
    BY <1>3 DEF Extend, NoCall, AuthInv
  <2>2. /\ DOMAIN methods' = ClientId /\ \A d \in ClientId : DOMAIN methods'[d] = ExtensionName
        /\ \A d \in clients : \A name \in ExtensionName :
             methods'[d][name] # Unbound => methods'[d][name].via = d
    BY <2>1 DEF Bind, AuthInv
  <2> QED
    BY <2>1, <2>2 DEF AuthInv, Sharers
<1>4. ASSUME NEW c \in ClientId, NEW m, NEW given, NEW shape, CallApi(c, m, given, shape)
      PROVE  AuthInv'
  BY <1>1, <1>4 DEF CallApi, clientVars
<1>5. CASE CallAlone
  BY <1>4, <1>5 DEF CallAlone
<1>6. CASE CallProbe
  BY <1>4, <1>6 DEF CallProbe
<1>7. ASSUME NEW c \in ClientId, NEW name \in ExtensionName, CallExtension(c, name)
      PROVE  AuthInv'
  BY <1>1, <1>7 DEF CallExtension, clientVars
<1>8. CASE Answered
  BY <1>1, <1>8 DEF Answered, NoCall, clientVars
<1>9. CASE UNCHANGED vars
  BY <1>1, <1>9 DEF AuthInv, vars, clientVars
<1> QED
  BY <1>2, <1>3, <1>5, <1>6, <1>7, <1>8, <1>9 DEF Next

\* A client of AuthInv sends with the auth of one that shares its headers, by its transport or,
\* without any, by the connection of a root that has the same.
LEMMA AuthorizationIsShared ==
  ASSUME AuthInv, NEW c \in clients
  PROVE  \E d \in Sharers(c) : Authorization(c) = options[d].auth
<1>1. c \in Sharers(c)
  BY DEF Sharers
<1>2. CASE c = Root
  BY <1>1, <1>2 DEF AuthInv, Authorization
<1>3. CASE c # Root /\ transport[c] = NoAuth
  BY <1>1, <1>3 DEF AuthInv, Authorization
<1>4. CASE c # Root /\ transport[c] # NoAuth
  BY <1>4 DEF AuthInv, Authorization
<1> QED
  BY <1>2, <1>3, <1>4

\* Every request of every client, made by a method, an extension or an inherited extension, carries
\* the auth of that client or of a child made with the same headers object.
THEOREM ClientsSendTheirAuth == Spec => []AuthorizationOfSharers
<1>1. Init => AuthInv /\ AuthorizationOfSharers
  BY AuthInvInit DEF Init, NoCall, AuthorizationOfSharers
<1>2. AuthInv /\ AuthorizationOfSharers /\ [Next]_vars => AuthInv' /\ AuthorizationOfSharers'
  <2> SUFFICES ASSUME AuthInv, AuthorizationOfSharers, [Next]_vars
               PROVE  AuthInv' /\ AuthorizationOfSharers'
    OBVIOUS
  <2>1. AuthInv'
    BY AuthInvStep
  <2> SUFFICES AuthorizationOfSharers'
    BY <2>1
  <2>2. ASSUME last'.of = "none"
        PROVE  AuthorizationOfSharers'
    BY <2>2 DEF AuthorizationOfSharers
  <2>3. ASSUME NEW c \in ClientId, NEW m, NEW given, NEW shape, CallApi(c, m, given, shape)
        PROVE  AuthorizationOfSharers'
    <3>1. c \in clients /\ last'.client = c /\ last'.authorization = Authorization(c)
          /\ options' = options /\ clients' = clients
      BY <2>3 DEF CallApi, clientVars
    <3> QED
      BY <3>1, AuthorizationIsShared DEF AuthorizationOfSharers, Sharers
  <2>4. ASSUME NEW c \in ClientId, NEW name \in ExtensionName, CallExtension(c, name)
        PROVE  AuthorizationOfSharers'
    <3>1. /\ c \in clients /\ methods[c][name] # Unbound
          /\ last'.client = c /\ last'.authorization = Authorization(methods[c][name].via)
          /\ options' = options /\ clients' = clients
      BY <2>4 DEF CallExtension, clientVars
    <3>2. methods[c][name].via = c
      BY <3>1 DEF AuthInv
    <3> QED
      BY <3>1, <3>2, AuthorizationIsShared DEF AuthorizationOfSharers, Sharers
  <2>5. ASSUME NEW parent \in ClientId, NEW c \in ClientId, Child(parent, c)
        PROVE  AuthorizationOfSharers'
    BY <2>2, <2>5 DEF Child, NoCall
  <2>6. ASSUME NEW c \in ClientId, NEW extension, Extend(c, extension)
        PROVE  AuthorizationOfSharers'
    BY <2>2, <2>6 DEF Extend, NoCall
  <2>7. CASE CallAlone
    BY <2>3, <2>7, ClientAssumption DEF CallAlone
  <2>8. CASE CallProbe
    BY <2>3, <2>8 DEF CallProbe
  <2>9. CASE Answered
    BY <2>2, <2>9 DEF Answered, NoCall
  <2>10. CASE UNCHANGED vars
    BY <2>10 DEF vars, AuthorizationOfSharers, Sharers
  <2> QED
    BY <2>4, <2>5, <2>6, <2>7, <2>8, <2>9, <2>10 DEF Next
<1> QED
  BY <1>1, <1>2, PTL DEF Spec
-----------------------------------------------------------------------------

\* normalizeArguments finds the callback wherever it stands, and keeps the options.
LEMMA NormalizeKeeps ==
  ASSUME NEW shape \in Shapes, shape.params # "null"
  PROVE  /\ (\E place \in {"params", "options", "callback"} : shape[place] = "function")
              => NormalizeArguments(shape).callback # "none"
         /\ shape.params = "given" /\ shape.options = "given"
              => NormalizeArguments(shape).options = "given"
<1>1. CASE shape.params = "function"
  BY <1>1 DEF NormalizeArguments
<1>2. CASE shape.params = "given"
  BY <1>2 DEF NormalizeArguments, Shapes
<1> QED
  BY <1>1, <1>2 DEF Shapes

\* Whatever the methods of the API are, no call loses its callback or its options.
THEOREM CallbackAndOptionsKept == Spec => []ArgumentsKept
<1>1. Init => ArgumentsKept
  BY DEF Init, ArgumentsKept, NoCall
<1>2. ArgumentsKept /\ [Next]_vars => ArgumentsKept'
  <2> SUFFICES ASSUME ArgumentsKept, [Next]_vars
               PROVE  ArgumentsKept'
    OBVIOUS
  <2>1. ASSUME last'.of # "api"
        PROVE  ArgumentsKept'
    BY <2>1 DEF ArgumentsKept
  <2>2. ASSUME NEW c, NEW m, NEW given, NEW shape \in Shapes, CallApi(c, m, given, shape)
        PROVE  ArgumentsKept'
    <3>1. /\ last'.shape = shape
          /\ last'.options = NormalizeArguments(shape).options
          /\ last'.callback = NormalizeArguments(shape).callback
      BY <2>2 DEF CallApi
    <3> QED
      BY <3>1, NormalizeKeeps DEF ArgumentsKept
  <2>3. PlainShape \in Shapes
    BY DEF PlainShape, Shapes
  <2>4. ASSUME NEW parent, NEW c, Child(parent, c)
        PROVE  ArgumentsKept'
    BY <2>1, <2>4 DEF Child, NoCall
  <2>5. ASSUME NEW c, NEW extension, Extend(c, extension)
        PROVE  ArgumentsKept'
    BY <2>1, <2>5 DEF Extend, NoCall
  <2>6. CASE CallAlone
    BY <2>2, <2>3, <2>6 DEF CallAlone
  <2>7. CASE CallProbe
    BY <2>2, <2>3, <2>7 DEF CallProbe
  <2>8. ASSUME NEW c, NEW name, CallExtension(c, name)
        PROVE  ArgumentsKept'
    BY <2>1, <2>8 DEF CallExtension
  <2>9. CASE Answered
    BY <2>1, <2>9 DEF Answered, NoCall
  <2>10. CASE UNCHANGED vars
    BY <2>10 DEF vars, ArgumentsKept
  <2> QED
    BY <2>4, <2>5, <2>6, <2>7, <2>8, <2>9, <2>10 DEF Next
<1> QED
  BY <1>1, <1>2, PTL DEF Spec
-----------------------------------------------------------------------------

\* A set of natural numbers has a least one, so one that is bounded has a greatest.
LEMMA Least ==
  ASSUME NEW T, T \subseteq Nat, T # {}
  PROVE  \E x \in T : \A y \in T : x <= y
<1> DEFINE R == OpToRel(<, Nat)
<1>1. IsWellFoundedOn(R, Nat)
  BY NatLessThanWellFounded
<1>2. \A x, y \in Nat : x < y => <<x, y>> \in R
  BY DEF OpToRel
<1> HIDE DEF R
<1>3. PICK x \in T : \A y \in T : ~ (<<y, x>> \in R)
  BY <1>1, WFMin
<1>4. \A y \in T : y \in Nat /\ x \in Nat /\ ~(y < x)
  BY <1>2, <1>3
<1>5. \A y \in T : x <= y
  BY <1>4
<1> QED
  BY <1>5

LEMMA Greatest ==
  ASSUME NEW n \in Nat, NEW T, T \subseteq 1 .. n, T # {}
  PROVE  Max(T) \in T /\ \A y \in T : Max(T) >= y
<1> DEFINE D == {n - y : y \in T}
<1>0. \A y \in T : y \in Nat /\ n - y \in Nat
  OBVIOUS
<1>1. D \subseteq Nat /\ D # {}
  BY <1>0
<1>2. PICK d \in D : \A e \in D : d <= e
  BY <1>1, Least
<1>3. PICK x \in T : d = n - x
  OBVIOUS
<1>4. ASSUME NEW y \in T
      PROVE  x >= y
  <2>1. n - y \in D
    OBVIOUS
  <2>2. n - x <= n - y
    BY <1>2, <1>3, <2>1
  <2> QED
    BY <1>0, <2>2
<1>5. x \in T /\ \A y \in T : x >= y
  BY <1>4
<1> QED
  BY <1>5 DEF Max

Extensions == [name : ExtensionName, force : BOOLEAN, fn : Fn]

\* What makes ChildExtends hold: the functions of a client are what its extensions give when
\* they are applied again, one after the other, and applying them again is possible.
ExtensionsInv ==
  /\ clients \subseteq ClientId
  /\ extensions \in [ClientId -> Seq(Extensions)]
  /\ DOMAIN methods = ClientId
  /\ \A c \in clients : methods[c] = Replay(extensions[c], c) /\ Replays(extensions[c])

\* Extending a client once more is the same as applying the longer list to a new one.
LEMMA ReplayAppend ==
  ASSUME NEW list \in Seq(Extensions), NEW extension \in Extensions, NEW c
  PROVE  Bind(Replay(list, c), extension, c) = Replay(Append(list, extension), c)
<1> DEFINE longer == Append(list, extension)
           before(name) == {k \in DOMAIN list : list[k].name = name}
           after(name) == {k \in DOMAIN longer : longer[k].name = name}
<1>1. /\ DOMAIN list = 1 .. Len(list) /\ DOMAIN longer = 1 .. (Len(list) + 1)
      /\ Len(list) \in Nat
      /\ longer[Len(list) + 1] = extension
      /\ \A k \in DOMAIN list : longer[k] = list[k]
  OBVIOUS
<1> SUFFICES ASSUME NEW name \in ExtensionName
             PROVE  Bind(Replay(list, c), extension, c)[name] = Replay(longer, c)[name]
  BY DEF Bind, Replay
<1>2. Replay(longer, c)[name] =
        IF after(name) = {} THEN Unbound ELSE [fn |-> longer[Max(after(name))].fn, via |-> c]
  BY DEF Replay
<1>3. CASE name = extension.name
  <2>1. Len(list) + 1 \in after(name) /\ \A k \in after(name) : Len(list) + 1 >= k
    BY <1>1, <1>3
  <2>2. \A k \in after(name) : (\A j \in after(name) : k >= j) => k = Len(list) + 1
    BY <1>1, <2>1
  <2>3. Max(after(name)) = Len(list) + 1
    BY <2>1, <2>2 DEF Max
  <2>4. Bind(Replay(list, c), extension, c)[name] = [fn |-> extension.fn, via |-> c]
    BY <1>3 DEF Bind, Replay
  <2> QED
    BY <1>1, <1>2, <2>1, <2>3, <2>4
<1>4. CASE name # extension.name
  <2>1. after(name) = before(name)
    BY <1>1, <1>4
  <2>2. Bind(Replay(list, c), extension, c)[name] =
          IF before(name) = {} THEN Unbound ELSE [fn |-> list[Max(before(name))].fn, via |-> c]
    BY <1>4 DEF Bind, Replay
  <2>3. ASSUME before(name) # {}
        PROVE  Max(before(name)) \in DOMAIN list
    <3>1. Max(before(name)) \in before(name)
      BY <1>1, <2>3, Greatest
    <3> QED
      BY <3>1
  <2> QED
    BY <1>1, <1>2, <2>1, <2>2, <2>3
<1> QED
  BY <1>3, <1>4

\* An extension that is accepted can be applied again.
LEMMA ReplaysAppend ==
  ASSUME NEW list \in Seq(Extensions), NEW extension \in Extensions, NEW c, Replays(list),
         extension.force \/ ~Exists(Replay(list, c), extension.name)
  PROVE  Replays(Append(list, extension))
<1> DEFINE longer == Append(list, extension)
<1>1. /\ DOMAIN list = 1 .. Len(list) /\ DOMAIN longer = 1 .. (Len(list) + 1)
      /\ Len(list) \in Nat
      /\ longer[Len(list) + 1] = extension
      /\ \A k \in DOMAIN list : longer[k] = list[k]
  OBVIOUS
<1> SUFFICES ASSUME NEW k \in DOMAIN longer
             PROVE  \/ longer[k].force
                    \/ /\ longer[k].name \notin Builtin
                       /\ \A j \in 1 .. (k - 1) : longer[j].name # longer[k].name
  BY DEF Replays
<1>2. CASE k \in DOMAIN list
  <2>1. \A j \in 1 .. (k - 1) : j \in DOMAIN list
    BY <1>1, <1>2
  <2> QED
    BY <1>1, <1>2, <2>1 DEF Replays
<1>3. CASE k = Len(list) + 1 /\ ~extension.force
  <2> DEFINE given == {j \in DOMAIN list : list[j].name = extension.name}
  <2>1. extension.name \in ExtensionName
    BY DEF Extensions
  <2>2. extension.name \notin Builtin /\ Replay(list, c)[extension.name] = Unbound
    BY <1>3 DEF Exists
  <2>3. given = {}
    <3> SUFFICES ASSUME given # {} PROVE FALSE
      OBVIOUS
    <3>1. Max(given) \in DOMAIN list
      <4>1. Max(given) \in given
        BY <1>1, Greatest
      <4> QED
        BY <4>1
    <3>2. list[Max(given)].fn \in Fn
      <4>1. list[Max(given)] \in Extensions
        BY <1>1, <3>1
      <4> QED
        BY <4>1 DEF Extensions
    <3>3. Replay(list, c)[extension.name].fn = list[Max(given)].fn
      BY <2>1 DEF Replay
    <3> QED
      BY <2>2, <3>2, <3>3, ClientAssumption DEF Unbound
  <2> QED
    BY <1>1, <1>3, <2>2, <2>3
<1> QED
  BY <1>1, <1>2, <1>3

LEMMA ExtensionsInvInit == Init => ExtensionsInv
<1> SUFFICES ASSUME Init PROVE ExtensionsInv
  OBVIOUS
<1>1. clients = {Root} /\ Root \in ClientId
  BY ClientAssumption DEF Init
<1>2. extensions = [c \in ClientId |-> <<>>] /\ methods = [c \in ClientId |-> NoExtensions]
  BY DEF Init
<1>3. NoExtensions = Replay(<<>>, Root)
  BY DEF NoExtensions, Replay
<1>4. Replays(<<>>)
  BY DEF Replays
<1> QED
  BY <1>1, <1>2, <1>3, <1>4 DEF ExtensionsInv

\* A step of a child or of an extension: the invariant again, and what ChildExtends says.
Extended ==
  /\ \A c \in clients' : Replays(extensions'[c])
  /\ \A c \in ClientId :
       methods'[c] # methods[c] =>
         \/ /\ c \in clients
            /\ \A d \in ClientId \ {c} : methods'[d] = methods[d]
            /\ Len(extensions'[c]) = Len(extensions[c]) + 1
         \/ /\ c \notin clients
            /\ \E parent \in clients : \A name \in ExtensionName :
                 methods'[c][name].fn = methods[parent][name].fn

LEMMA ExtensionsInvStep ==
  ASSUME ExtensionsInv, [Next]_vars
  PROVE  ExtensionsInv' /\ Extended
<1>1. ASSUME clients' = clients, extensions' = extensions, methods' = methods
      PROVE  ExtensionsInv' /\ Extended
  BY <1>1 DEF ExtensionsInv, Extended
<1>2. ASSUME NEW parent \in ClientId, NEW c \in ClientId, Child(parent, c)
      PROVE  ExtensionsInv' /\ Extended
  <2> DEFINE list == extensions[parent]
  <2>1. /\ parent \in clients /\ c \notin clients /\ clients' = clients \cup {c}
        /\ extensions' = [extensions EXCEPT ![c] = list]
        /\ methods' = [methods EXCEPT ![c] = Replay(list, c)]
    BY <1>2 DEF Child
  <2>2. list \in Seq(Extensions) /\ Replays(list) /\ methods[parent] = Replay(list, parent)
    BY <2>1 DEF ExtensionsInv
  <2>3. ExtensionsInv'
    BY <2>1, <2>2 DEF ExtensionsInv
  <2>4. \A name \in ExtensionName : Replay(list, c)[name].fn = Replay(list, parent)[name].fn
    BY DEF Replay, Unbound
  <2>5. /\ methods'[c] = Replay(list, c)
        /\ \A d \in ClientId \ {c} : methods'[d] = methods[d]
    BY <2>1 DEF ExtensionsInv
  <2> QED
    BY <2>1, <2>2, <2>3, <2>4, <2>5 DEF Extended, ExtensionsInv
<1>3. ASSUME NEW c \in ClientId, NEW extension \in Extensions, Extend(c, extension)
      PROVE  ExtensionsInv' /\ Extended
  <2> DEFINE list == extensions[c]
  <2>1. /\ c \in clients /\ clients' = clients
        /\ extension.force \/ ~Exists(methods[c], extension.name)
        /\ extensions' = [extensions EXCEPT ![c] = Append(list, extension)]
        /\ methods' = [methods EXCEPT ![c] = Bind(methods[c], extension, c)]
    BY <1>3 DEF Extend, ExtensionsInv
  <2>2. list \in Seq(Extensions) /\ Replays(list) /\ methods[c] = Replay(list, c)
    BY <2>1 DEF ExtensionsInv
  <2>3. Replays(Append(list, extension))
    BY <2>1, <2>2, ReplaysAppend
  <2>4. Bind(methods[c], extension, c) = Replay(Append(list, extension), c)
    BY <2>2, ReplayAppend
  <2>5. Append(list, extension) \in Seq(Extensions)
        /\ Len(Append(list, extension)) = Len(list) + 1
    BY <2>2
  <2>6. /\ extensions' \in [ClientId -> Seq(Extensions)]
        /\ extensions'[c] = Append(list, extension)
        /\ \A d \in ClientId \ {c} : extensions'[d] = extensions[d]
    BY <2>1, <2>5 DEF ExtensionsInv
  <2>7. /\ DOMAIN methods' = ClientId
        /\ methods'[c] = Replay(Append(list, extension), c)
        /\ \A d \in ClientId \ {c} : methods'[d] = methods[d]
    BY <2>1, <2>4 DEF ExtensionsInv
  <2>8. ExtensionsInv'
    BY <2>1, <2>3, <2>6, <2>7 DEF ExtensionsInv
  <2> QED
    BY <2>1, <2>5, <2>6, <2>7, <2>8 DEF Extended, ExtensionsInv
<1>4. ASSUME NEW c, NEW m, NEW given, NEW shape, CallApi(c, m, given, shape)
      PROVE  ExtensionsInv' /\ Extended
  BY <1>1, <1>4 DEF CallApi, clientVars
<1>5. CASE CallAlone
  BY <1>4, <1>5 DEF CallAlone
<1>6. CASE CallProbe
  BY <1>4, <1>6 DEF CallProbe
<1>7. ASSUME NEW c, NEW name, CallExtension(c, name)
      PROVE  ExtensionsInv' /\ Extended
  BY <1>1, <1>7 DEF CallExtension, clientVars
<1>8. CASE Answered
  BY <1>1, <1>8 DEF Answered, clientVars
<1>9. CASE UNCHANGED vars
  BY <1>1, <1>9 DEF vars
<1> QED
  BY <1>2, <1>3, <1>5, <1>6, <1>7, <1>8, <1>9 DEF Next, Extensions

\* Whatever is put on clients, by force or not, before and after they have children: child()
\* succeeds, and a child has the functions of its parent and from then on its own.
THEOREM ChildrenExtend == Spec => ChildExtends
<1>1. Init => ExtensionsInv
  BY ExtensionsInvInit
<1>2. ExtensionsInv /\ [Next]_vars => ExtensionsInv'
  BY ExtensionsInvStep
<1>3. ExtensionsInv /\ [Next]_vars => [Extended]_vars
  BY ExtensionsInvStep
<1>4. Spec => [][Extended]_vars
  BY <1>1, <1>2, <1>3, PTL DEF Spec
<1> QED
  BY <1>4 DEF ChildExtends, Extended
=============================================================================
