----------------------------- MODULE CamRoutes ------------------------------
(***************************************************************************)
(* A publication, before and after: its manifest and its ABI are checked by *)
(* cam-conformance, parsed by cam-core and cam-evm-viem, and then a user    *)
(* opens its routes.  A read route is called, what the contract answers is  *)
(* normalized and handed to a node of the screen; a write route is prepared,*)
(* signed, and continues to another route.                                  *)
(*                                                                         *)
(* A publication has an entry, namespaces with their types, routes, the ABI *)
(* of its contract, and the nodes of its UI with the names they require.    *)
(***************************************************************************)
EXTENDS CamAbi

CONSTANTS
  Publications,      \* bound: what the author may have written
  InputValues,       \* bound: what a user may give for an input
  Account,           \* the address of the account, when there is one
  Raws(_),           \* what viem may decode for an output of the given type
  HostAddress

VARIABLES
  pub, issues,                \* the publication, and what conformance says of it
  phase, route, from,         \* the route that is open, and the write route it continues
  inputs, account, sent,      \* what it was given, for whom, and what was sent to the contract
  raw, outputs,               \* what was decoded, and what was made of it
  failure

vars == <<pub, issues, phase, route, from, inputs, account, sent, raw, outputs, failure>>

RouteRoots == {"host", "account", "inputs", "outputs"}      \* CAM_ROUTE_CONTEXT_KEYS

-----------------------------------------------------------------------------
(* The manifest: facts of cam-protocol, used by both sides.                  *)

\* collectCamInvocationFact.
InvocationIsUsable(p, invocation, types) ==
  /\ invocation.namespace \in DOMAIN p.namespaces
  /\ p.namespaces[invocation.namespace] \in types
  /\ "" \notin DOMAIN invocation.args

CallTypes == {"contract"}
ThenTypes(kind) == IF kind = "read" THEN {"ui"} ELSE {"routes"}

\* collectCamRouteInputsFact.
InputsAreUsable(names) == IsInjective(names) /\ \A i \in DOMAIN names : names[i] \in Identifiers
InputNames(r) == {r.inputs[i] : i \in DOMAIN r.inputs}

RouteIsUsable(p, r) ==
  /\ r.kind \in {"read", "write"}
  /\ InputsAreUsable(r.inputs)
  /\ InvocationIsUsable(p, r.call, CallTypes)
  /\ InvocationIsUsable(p, r.then, ThenTypes(r.kind))

\* collectCamRouteExpressionDiagnostics: there is something wrong with an expression.
ExpressionsAreWrong(args, names, allowOutputs) ==
  LET found == collectExpressionReferences(Obj(args))
  IN \/ found.syntaxErrors # {}
     \/ \E ref \in found.references :
          \/ ref.root \notin RouteRoots
          \/ ref.root = "inputs" /\ ref.path # <<>> /\ ref.path[1] \notin names \cap Identifiers
          \/ ref.root = "outputs" /\ ~ allowOutputs

\* parseCam of cam-core.
parseCam(p) ==
  /\ p.entry \in DOMAIN p.routes
  /\ \A name \in DOMAIN p.routes :
       LET r == p.routes[name]
       IN RouteIsUsable(p, r) /\ IsPayload(Obj(r.call.args), RouteRoots) /\ IsPayload(Obj(r.then.args), RouteRoots)

-----------------------------------------------------------------------------
(* Conformance.  An issue names its rule, its route and what it is about.   *)

Issue(rule, name, about) == [rule |-> rule, route |-> name, about |-> about]

\* validateRouteDeclarations.
DeclaredRoutes(p) == {name \in DOMAIN p.routes : RouteIsUsable(p, p.routes[name])}
DeclarationIssues(p) ==
  (IF p.entry \in DOMAIN p.routes THEN {} ELSE {Issue("entry", p.entry, "entry")}) \cup
  {Issue("declaration", name, "route") : name \in DOMAIN p.routes \ DeclaredRoutes(p)} \cup
  {Issue("expression", name, "call") :
     name \in {n \in DeclaredRoutes(p) : LET r == p.routes[n] IN ExpressionsAreWrong(r.call.args, InputNames(r), FALSE)}} \cup
  {Issue("expression", name, "then") :
     name \in {n \in DeclaredRoutes(p) : LET r == p.routes[n] IN ExpressionsAreWrong(r.then.args, InputNames(r), r.kind = "read")}}

\* resolveRouteFunction: the one function of the ABI a route calls, if it is one.
TheOnly(matches) == IF Cardinality(matches) = 1 THEN CHOOSE fn \in matches : TRUE ELSE None
FunctionOf(p, r) == TheOnly(Matching(parseAbiFunctions(p.abi).functions, r.call.function))

\* validateRouteMutability.
MutabilityFits(kind, fn) == fn.mutability \in (IF kind = "read" THEN {"view", "pure"} ELSE {"nonpayable"})

\* validateRouteOutputRefs: the references to outputs the function cannot produce.
BadOutputRefs(r, fn) ==
  {ref \in collectExpressionReferences(Obj(r.then.args)).references :
     /\ ref.root = "outputs" /\ ref.path # <<>>
     /\ ~ /\ Head(ref.path) \in DOMAIN Indexes
          /\ Indexes[Head(ref.path)] < Len(fn.outputs)
          /\ OutputHasPath(fn.outputs[Indexes[Head(ref.path)] + 1], Tail(ref.path))}

\* validateRouteCallAbi for one route: the function, its arguments, and its outputs.
AbiIssuesOf(name, r, fn) ==
  LET Wrong == {input \in DOMAIN fn.inputs :
                  /\ fn.inputs[input].name \in DOMAIN r.call.args
                  /\ abiArgValueMismatches(r.call.args[fn.inputs[input].name], fn.inputs[input]) # {}}
      About == (IF MutabilityFits(r.kind, fn) THEN {} ELSE {"call"}) \cup
               (IF DOMAIN r.call.args # NameSet(fn.inputs) \/ Wrong # {} THEN {"call"} ELSE {}) \cup
               (IF BadOutputRefs(r, fn) # {} THEN {"outputs"} ELSE {})
  IN IF fn = None THEN {Issue("abi", name, "call")} ELSE {Issue("abi", name, about) : about \in About}
RouteAbiIssues(p, name) == AbiIssuesOf(name, p.routes[name], FunctionOf(p, p.routes[name]))

\* materializeTemplateValues: what is known of the continuation's arguments, the inputs of
\* the route being looked up among the arguments of its call; active are the paths being
\* followed.
RECURSIVE materialize(_, _, _)
materialize(v, defaults, active) ==
  LET Sub(item) == materialize(item, defaults, active)
  IN CASE IsExpression(v) ->
            LET ref == References[v.s]
                next == rawValueAtSegments(defaults, ref.path)
            IN IF ref.root # "inputs" \/ ref.path \in active \/ next = Undefined THEN UNKNOWN_ROUTE_CALL_VALUE
               ELSE materialize(next, defaults, active \cup {ref.path})
       [] IsArr(v) -> MapItems(Sub, v)
       [] IsObj(v) -> MapFields(Sub, v)
       [] OTHER -> v

\* A mismatch of an argument that came in through an input, the values of the inputs
\* being known as far as the function inputs says.
InputMismatch(v, inputs_, param) ==
  LET known == knownRouteCallValue(v, inputs_)
  IN known # Undefined /\ \E path \in abiArgValueMismatches(known, param) : OwnedByInput(v, inputs_, path)

\* The loop of validateRouteHandoffAbi.
HandoffMismatch(v, defaults, param) ==
  InputMismatch(v, [path \in KnownPaths(v) |-> rawValueAtSegments(defaults, path)], param)

\* validateRouteHandoffs: the node or the route exists, is given exactly what it needs,
\* and a route is given nothing its function cannot take.
HandoffValuesAreWrong(nextRoute, fn, defaults) ==
  fn # None /\ \E i \in DOMAIN fn.inputs :
    /\ fn.inputs[i].name \in DOMAIN nextRoute.call.args
    /\ HandoffMismatch(nextRoute.call.args[fn.inputs[i].name], defaults, fn.inputs[i])
HandoffIssues(p, name) ==
  LET r == p.routes[name]
      nextRoute == p.routes[r.then.function]
      Named_ == DOMAIN r.then.args
      About ==
        IF r.kind = "read"
        THEN IF r.then.function \notin DOMAIN p.nodes THEN {"node"}
             ELSE IF p.nodes[r.then.function] \notin {None, Named_} THEN {"names"} ELSE {}
        ELSE IF r.then.function \notin DeclaredRoutes(p) THEN {"next"}
             ELSE (IF InputNames(nextRoute) # Named_ THEN {"names"} ELSE {}) \cup
                  (IF HandoffValuesAreWrong(nextRoute, FunctionOf(p, nextRoute), materialize(Obj(r.then.args), Obj(r.call.args), {}))
                   THEN {"values"} ELSE {})
  IN {Issue("handoff", name, about) : about \in About}

\* declaredUiNodes of cam-conformance, and parseUi of cam-screen: every node says what it requires.
NodesAreDeclared(p) == \A node \in DOMAIN p.nodes : p.nodes[node] # None

\* validateCamBundle, as far as the manifest and its ABI are concerned.
Issues(p) ==
  DeclarationIssues(p) \cup
  (IF parseAbiFunctions(p.abi).clean THEN {} ELSE {Issue("abi", None, "parse")}) \cup
  (IF NodesAreDeclared(p) THEN {} ELSE {Issue("ui", None, "node")}) \cup
  UNION {HandoffIssues(p, name) \cup RouteAbiIssues(p, name) : name \in DeclaredRoutes(p)}

-----------------------------------------------------------------------------
(* Run time.                                                                *)

\* createContext: there is no account when there is none.
Context(ins, outs, acc) ==
  LET host == Obj([chainId |-> Str(ChainId), address |-> Str(HostAddress)])
      base == [host |-> host, inputs |-> Obj(ins), outputs |-> Arr(outs)]
  IN Obj(IF acc = None THEN base ELSE base @@ ("account" :> Obj([address |-> Str(acc)])))

\* Mutated form of routeRequiresAccount: only the call is looked at.
routeRequiresAccountToCall(r) ==
  \E ref \in collectExpressionReferences(Obj(r.call.args)).references : ref.root = "account"

\* routeRequiresAccount of cam-core.
routeRequiresAccount(r) ==
  \E ref \in collectExpressionReferences(Arr(<<Obj(r.call.args), Obj(r.then.args)>>)).references : ref.root = "account"

\* assertViewerRouteAccountAvailable.
AccountIsMissing(r) == account = None /\ routeRequiresAccount(r)

\* findUniqueAbiFunction over the whole ABI, which parseAbiBytes accepted.
RuntimeFunction(r) == TheOnly(Matching(Range(pub.abi), r.call.function))

\* resolveRouteCall up to the arguments that viem is given: why it fails, or None; args and
\* fn are what the arguments and the function of the call resolve to.
FailureOf(r, ins, args, fn) ==
  CASE AccountIsMissing(r) -> "account"
    [] ~ AccountIsMissing(r) /\ DOMAIN ins # InputNames(r) -> "inputs"
    [] ~ AccountIsMissing(r) /\ DOMAIN ins = InputNames(r) /\ args = Undefined -> "unresolved"
    [] OTHER -> CASE fn = None -> "function"
                  [] fn # None /\ ~ MutabilityFits(r.kind, fn) -> "mutability"
                  [] fn # None /\ MutabilityFits(r.kind, fn) /\ ~ Sent(normalizeAbiArgs(fn.inputs, args.fields)) -> "argument"
                  [] OTHER -> None
CallFailure(r, ins) == FailureOf(r, ins, resolveArgs(r.call.args, Context(ins, <<>>, account)), RuntimeFunction(r))

SentArgs(r, ins) ==
  normalizeAbiArgs(RuntimeFunction(r).inputs, resolveArgs(r.call.args, Context(ins, <<>>, account)).fields)

\* resolveRouteThen.
ThenArgs(r, ins, outs) == resolveArgs(r.then.args, Context(ins, outs, account))

Fails(why) ==
  /\ phase' = "failed" /\ failure' = why
  /\ UNCHANGED <<pub, issues, account, sent, raw, outputs>>

Init ==
  /\ pub \in Publications /\ issues = {} /\ phase = "authored"
  /\ route = None /\ from = None /\ inputs = <<>> /\ account = None
  /\ sent = <<>> /\ raw = Undefined /\ outputs = <<>> /\ failure = None

\* validateCamBundle, before publication.
Check ==
  /\ phase = "authored" /\ phase' = "checked" /\ issues' = Issues(pub)
  /\ UNCHANGED <<pub, route, from, inputs, account, sent, raw, outputs, failure>>

\* The viewer loads the application, whatever conformance said of it.
Load ==
  /\ phase = "checked"
  /\ phase' = IF parseCam(pub) /\ parseAbiBytes(pub.abi) /\ NodesAreDeclared(pub) THEN "open" ELSE "refused"
  /\ account' \in {None, Account}
  /\ UNCHANGED <<pub, issues, route, from, inputs, sent, raw, outputs, failure>>

\* resolveViewerReadRoute up to the eth_call; it is where a continuation leads as well.
Navigate(name, ins) ==
  /\ route' = name /\ inputs' = ins
  /\ LET r == pub.routes[name]
     IN IF name \notin DOMAIN pub.routes THEN Fails("kind")
        ELSE IF r.kind # "read" THEN Fails("kind")
        ELSE IF CallFailure(r, ins) # None THEN Fails(CallFailure(r, ins))
        ELSE /\ phase' = "called" /\ sent' = SentArgs(r, ins)
             /\ UNCHANGED <<pub, issues, account, raw, outputs, failure>>

\* prepareViewerContractCall, which resolves the continuation as well, and writeRequest
\* when the call is simulated and sent.
Dispatch(name, ins) ==
  /\ route' = name /\ inputs' = ins
  /\ LET r == pub.routes[name]
     IN IF r.kind # "write" THEN Fails("kind")
        ELSE IF CallFailure(r, ins) \in {"account", "inputs", "unresolved"} THEN Fails(CallFailure(r, ins))
        ELSE IF ThenArgs(r, ins, <<>>) = Undefined THEN Fails("then")
        ELSE IF CallFailure(r, ins) # None THEN Fails(CallFailure(r, ins))
        ELSE /\ phase' = "sent" /\ sent' = SentArgs(r, ins)
             /\ UNCHANGED <<pub, issues, account, raw, outputs, failure>>

\* What the user may give: the inputs of the route, or without one, or with one too many.
Offers(r) ==
  LET names == InputNames(r)
  IN [names -> InputValues] \cup {[n \in names \cup {"extra"} |-> Null]} \cup
     {[n \in names \ {missing} |-> Null] : missing \in names}

Open ==
  /\ phase = "open" /\ UNCHANGED from
  /\ \E name \in DOMAIN pub.routes : \E ins \in Offers(pub.routes[name]) :
       IF pub.routes[name].kind = "write" THEN Dispatch(name, ins) ELSE Navigate(name, ins)

\* The contract answers a call, and the answer is shown.
Answer ==
  LET r == pub.routes[route]
      params == RuntimeFunction(r).outputs
      One == Raws(params[1])
      Many == {Arr(<<a, b>>) : a \in Raws(params[1]), b \in Raws(params[2])}
  IN /\ phase = "called"
     /\ raw' \in CASE Len(params) = 0 -> {Undefined} [] Len(params) = 1 -> One [] OTHER -> Many
     /\ outputs' = normalizeRouteResult(raw', params)
     /\ LET then == ThenArgs(r, inputs, outputs')
            node == r.then.function
        IN /\ failure' = CASE ~ Sent(outputs') -> "result"
                           [] Sent(outputs') /\ then = Undefined -> "then"
                           [] Sent(outputs') /\ then # Undefined /\
                              (node \notin DOMAIN pub.nodes \/ pub.nodes[node] # DOMAIN then.fields) -> "node"
                           [] OTHER -> None
           /\ phase' = IF failure' = None THEN "shown" ELSE "failed"
     /\ UNCHANGED <<pub, issues, route, from, inputs, account, sent>>

\* The transaction is mined and the application goes where the route continues.
Continue ==
  /\ phase = "sent" /\ from' = route
  /\ LET r == pub.routes[route] IN Navigate(r.then.function, ThenArgs(r, inputs, <<>>).fields)

\* The user leaves what is shown, or the error, and opens another route.
Leave ==
  /\ phase \in {"shown", "failed"}
  /\ phase' = "open" /\ route' = None /\ from' = None /\ inputs' = <<>>
  /\ sent' = <<>> /\ raw' = Undefined /\ outputs' = <<>> /\ failure' = None
  /\ UNCHANGED <<pub, issues, account>>

-----------------------------------------------------------------------------
(* Properties                                                               *)

Declared == pub.routes[route]
Open_ == {"called", "sent", "shown", "failed"}

\* A reference of which not even the type is known before the route runs.
IsOpenRef(ref) ==
  ref \notin {[root |-> "account", path |-> <<"address">>], [root |-> "host", path |-> <<"address">>],
              [root |-> "host", path |-> <<"chainId">>]}
IsOpen(v) == \E ref \in collectExpressionReferences(v).references : IsOpenRef(ref)

\* The arguments of the open route that did not resolve or were not of their type.
FailingArgs ==
  LET fn == RuntimeFunction(Declared)
      args == Declared.call.args
      Resolved(name) == ResolveNode(args[name], Context(inputs, <<>>, account))
  IN {name \in DOMAIN args :
        \/ Resolved(name) = Undefined
        \/ fn # None /\ name \in NameSet(fn.inputs) /\ normalizeAbiArg(Resolved(name), Named(fn.inputs, name)) = Failed}

(* A route conformance has nothing to say against calls a function that       *)
(* exists with arguments of its types, and shows what it is answered: where   *)
(* it fails, the user gave other inputs than the route has, or the argument   *)
(* at fault holds something only the user or the contract knows.  In a        *)
(* continuation it came in open: what is written out there was checked        *)
(* against the function it ends up in (manifest/routes.ts, abi/routes.ts and  *)
(* routes/handoffs.ts of cam-conformance).                                    *)
CleanFailsOnWhatIsUnknown ==
  issues = {} /\ phase = "failed" /\ (route \in DOMAIN pub.routes \/ from # None) =>
    /\ failure \in {"inputs", "account"} => from = None
    /\ failure \in {"inputs", "account", "unresolved", "argument", "then"}
    /\ failure = "then" => \E name \in DOMAIN Declared.then.args : IsOpen(Declared.then.args[name])
    /\ failure \in {"unresolved", "argument"} => \A name \in FailingArgs :
         \E ref \in collectExpressionReferences(Declared.call.args[name]).references :
           IF from # None /\ ref.root = "inputs" /\ ref.path # <<>>
           THEN collectExpressionReferences(pub.routes[from].then.args[ref.path[1]]).references # {}
           ELSE IsOpenRef(ref)

(* What conformance reports of a route is a proven fact: no account, input or *)
(* answer makes the route, or its continuation, work after all; and it        *)
(* accepts the ABIs the run time accepts (abi/routes.ts, abi.ts).             *)
ReportedNeverRuns ==
  /\ phase # "authored" => (parseAbiBytes(pub.abi) <=> Issue("abi", None, "parse") \notin issues)
  /\ Issue("abi", route, "call") \in issues => phase \notin {"called", "sent", "shown"}
  /\ Issue("abi", route, "outputs") \in issues => phase # "shown"
  /\ \A about \in {"node", "names"} : Issue("handoff", route, about) \in issues => phase # "shown"
  /\ \A about \in {"next", "names", "values"} : Issue("handoff", from, about) \in issues => phase \notin {"called", "shown"}

\* What viem decoded, written as JSON.
RECURSIVE AsJson(_, _)
AsJson(v, p) ==
  LET Item(item) == AsJson(item, Element(p))
      Place(name) == CHOOSE i \in DOMAIN p.components : p.components[i].name = name
      Component(name) == AsJson(IF IsObj(v) THEN v.fields[name] ELSE v.items[Place(name)], Named(p.components, name))
  IN CASE IsDynamicArray(p) -> MapItems(Item, v)
       [] p.dims = <<>> /\ p.base = "tuple" -> Obj([name \in NameSet(p.components) |-> Component(name)])
       [] v.t = "bigint" -> Num(v.n)
       [] OTHER -> v

(* What a contract answers can be sent back to it: normalizing the answer and *)
(* passing it on as an argument of the same type gives what it answered.      *)
AnswersAreArguments ==
  phase = "shown" =>
    LET params == RuntimeFunction(Declared).outputs
        raws == IF Len(params) = 1 THEN <<raw>> ELSE IF Len(params) = 0 THEN <<>> ELSE raw.items
    IN \A i \in DOMAIN params :
         /\ normalizeAbiArg(outputs[i], params[i]) # Failed
         /\ normalizeAbiArg(outputs[i], params[i]) = normalizeAbiArg(AsJson(raws[i], params[i]), params[i])

(* The preflight asks for an account exactly when the route cannot do without *)
(* one: what fails without an account would fail with it, and what is refused *)
(* for want of one does not resolve.                                          *)
AccountIsAskedWhenNeeded ==
  phase = "failed" /\ account = None =>
    LET With(args, outs) == resolveArgs(args, Context(inputs, outs, Account))
        Without(args, outs) == resolveArgs(args, Context(inputs, outs, None))
        r == Declared
    IN /\ failure = "unresolved" => With(r.call.args, <<>>) = Undefined
       /\ failure = "then" => With(r.then.args, outputs) = Undefined
       /\ failure = "account" /\ r.kind = "write" => Undefined \in {Without(r.call.args, <<>>), Without(r.then.args, <<>>)}

(* A value that came in from a user, a chain or another route is data: one    *)
(* that looks like an expression is sent as it is, never resolved.            *)
InputsAreData ==
  phase \in {"called", "sent"} =>
    LET fn == RuntimeFunction(Declared)
    IN \A i \in DOMAIN fn.inputs :
         LET v == Declared.call.args[fn.inputs[i].name]
         IN IsExpression(v) /\ References[v.s].root = "inputs" /\ Len(References[v.s].path) = 1 /\ fn.inputs[i].base = "string"
            => sent[i] = inputs[References[v.s].path[1]]
=============================================================================
