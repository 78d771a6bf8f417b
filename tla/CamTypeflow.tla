----------------------------- MODULE CamTypeflow -----------------------------
(***************************************************************************)
(* What cam-conformance proves of a UI before publication: nodes.ts,        *)
(* dataflow.ts and typeflow.ts.  For every read route the values handed to  *)
(* its node are followed into the nodes it includes, as shapes: a literal,  *)
(* the type of an output, an aggregate of shapes, or unknown.               *)
(***************************************************************************)
EXTENDS CamRoutes, CamScreen

Unknown == [type |-> "unknown"]              \* UNKNOWN_VALUE
Missing == [type |-> "missing"]
LiteralString(s) == [type |-> "literal-string", text |-> s]
SomeString == [type |-> "literal-string"]    \* an element of a list of them, without its value
LiteralStrings(texts) == [type |-> "literal-string[]", texts |-> texts]
Literal(type, v) == [type |-> type, value |-> v]
ArrayShape(items) == [type |-> "array", items |-> items]
TupleShape(fields) == [type |-> "tuple", fields |-> fields]
AbiShape(p) == [type |-> "abi", param |-> p]

IsStatic(v) == IsStr(v) /\ StaticString(v.s) # Undefined

\* abiOutputAtSegments, for one segment of a shape that is known.
abiOutputAtSegments(shape, segment) ==
  LET p == shape.param
  IN CASE shape.type = "abi" /\ IsDynamicArray(p) /\ segment \in DOMAIN Indexes -> AbiShape(Element(p))
       [] shape.type = "abi" /\ p.dims = <<>> /\ p.base = "tuple" /\ segment \in NameSet(p.components) ->
            AbiShape(Named(p.components, segment))
       [] shape.type = "literal-string[]" /\ segment \in DOMAIN Indexes -> SomeString
       [] shape.type = "tuple" /\ segment \in DOMAIN shape.fields -> shape.fields[segment]
       [] OTHER -> Missing

\* valueAtSegments.
valueAtSegments(shape, segments) ==
  LET Step(at, segment) == IF at \in {Unknown, Missing} THEN at ELSE abiOutputAtSegments(at, segment)
  IN FoldLeft(Step, shape, segments)

\* valueAtReference: a root that is not in the context is not known.
valueAtReference(ref, context) ==
  IF ref.root \in DOMAIN context THEN valueAtSegments(context[ref.root], ref.path) ELSE Unknown
Lookup(v, context) == valueAtReference(References[v.s], context)

\* abiFunctionOutputForExpression.
OutputShape(v, outs) ==
  LET ref == References[v.s]
  IN IF ref.root = "outputs" /\ ref.path # <<>> /\ ref.path[1] \in DOMAIN Indexes /\ Indexes[ref.path[1]] < Len(outs)
     THEN valueAtSegments(AbiShape(outs[Indexes[ref.path[1]] + 1]), Tail(ref.path)) ELSE Unknown

\* knownValueShape; Of is what the resolver makes of an expression, by its text.
RECURSIVE knownValueShape(_, _)
knownValueShape(v, Of) ==
  LET Sub(item) == knownValueShape(item, Of)
  IN CASE IsExpression(v) -> IF Of[v.s] = Missing THEN Unknown ELSE Of[v.s]
       [] IsStatic(v) -> LiteralString(StaticString(v.s).s)
       [] v.t = "boolean" -> Literal("bool", v)
       [] v.t = "number" -> Literal("uint256", v)
       [] v.t = "fraction" -> Literal("number", v)
       [] v.t = "null" -> Literal("null", v)
       [] IsArr(v) -> IF \A i \in DOMAIN v.items : IsStatic(v.items[i])
                      THEN LiteralStrings([i \in DOMAIN v.items |-> StaticString(v.items[i].s).s])
                      ELSE ArrayShape([i \in DOMAIN v.items |-> Sub(v.items[i])])
       [] IsObj(v) -> TupleShape([name \in DOMAIN v.fields |-> Sub(v.fields[name])])
       [] OTHER -> Unknown

ExpressionsIn(v) == StringsOf(v) \cap DOMAIN References

\* contextForArgs, for the arguments of a route and of an Include.
RouteContext(args, outs) ==
  [name \in DOMAIN args |-> knownValueShape(args[name], [s \in ExpressionsIn(args[name]) |-> OutputShape(Str(s), outs)])]
IncludeContext(args, context) ==
  [name \in DOMAIN args |-> knownValueShape(args[name], [s \in ExpressionsIn(args[name]) |-> Lookup(Str(s), context)])]

\* abiType.
abiType(shape) ==
  CASE shape.type = "abi" ->
         LET p == shape.param
         IN IF p.dims = <<"[]">> /\ p.base = "string" THEN "string-array"
            ELSE IF IsDynamicArray(p) THEN "array"
            ELSE IF abiScalarKind(p.base) = "fixed-bytes" THEN "bytes"
            ELSE IF p.base = "tuple" THEN "tuple" ELSE abiScalarKind(p.base)
    [] shape.type = "literal-string[]" -> "literal-string-array"
    [] shape.type = "uint256" -> "integer"
    [] OTHER -> shape.type

\* abiValueMatches, by what is expected.
Expectations ==
  [address |-> {"address", "literal-string"}, integerOrString |-> {"integer", "string", "literal-string"},
   string |-> {"string", "literal-string"},
   stringOrArray |-> {"string", "string-array", "literal-string", "literal-string-array"}]
abiValueMatches(shape, expectation) == abiType(shape) \in Expectations[expectation]

\* propExpectation.
propExpectation(element, prop) ==
  CASE prop \in PropSchemas[element].address -> "address"
    [] element = "Nft" /\ prop = "tokenId" -> "integerOrString"
    [] prop \in PropSchemas[element].string -> "string"
    [] OTHER -> None

-----------------------------------------------------------------------------
(* The names an Include or a Button selects.                                *)

Names(names, hasUnknown) == [names |-> names, hasUnknown |-> hasUnknown]
NoNames == Names(<<>>, TRUE)
JoinNames(all) ==
  Names(FlattenSeq([i \in DOMAIN all |-> all[i].names]), \E i \in DOMAIN all : all[i].hasUnknown)

\* valueToSelectorNames.
RECURSIVE valueToSelectorNames(_)
valueToSelectorNames(shape) ==
  CASE shape.type = "literal-string" /\ shape # SomeString -> Names(<<shape.text>>, FALSE)
    [] shape.type = "literal-string[]" -> Names(shape.texts, FALSE)
    [] shape.type = "array" -> JoinNames([i \in DOMAIN shape.items |-> valueToSelectorNames(shape.items[i])])
    [] OTHER -> NoNames

\* One item of knownSelectorArrayNames, and one of an array that is known.
ItemNames(v, context) ==
  CASE IsStatic(v) -> Names(<<StaticString(v.s).s>>, FALSE)
    [] IsExpression(v) -> valueToSelectorNames(Lookup(v, context))
    [] OTHER -> NoNames
ShapeName(shape) ==
  IF shape.type = "literal-string" /\ shape # SomeString THEN Names(<<shape.text>>, FALSE) ELSE NoNames

SelectedShape(shape) ==
  CASE shape.type = "literal-string[]" -> Names(shape.texts, FALSE)
    [] shape.type = "literal-string" /\ shape # SomeString -> Names(<<shape.text>>, FALSE)
    [] shape.type = "array" -> JoinNames([i \in DOMAIN shape.items |-> ShapeName(shape.items[i])])
    [] OTHER -> None

\* knownSelectorNames, which answers None for what is no selection it knows.
knownSelectorNames(v, context) ==
  CASE IsArr(v) -> JoinNames([i \in DOMAIN v.items |-> ItemNames(v.items[i], context)])
    [] IsExpression(v) -> SelectedShape(Lookup(v, context))
    [] OTHER -> None

\* staticStringList, or None.
staticStringList(v) ==
  CASE IsStatic(v) -> <<StaticString(v.s).s>>
    [] IsArr(v) /\ \A i \in DOMAIN v.items : IsStatic(v.items[i]) -> [i \in DOMAIN v.items |-> StaticString(v.items[i].s).s]
    [] OTHER -> None

\* includeSelection; resolved is set when the names came out of an expression.
SelectionOf(list, known) ==
  IF list # None THEN [names |-> list, hasUnknown |-> FALSE, resolved |-> FALSE]
  ELSE IF known \in {None, Names(<<>>, FALSE)} THEN None
  ELSE [names |-> known.names, hasUnknown |-> known.hasUnknown, resolved |-> TRUE]
includeSelection(v, context) == SelectionOf(staticStringList(v), knownSelectorNames(v, context))

\* nameListShapeIssues.
NamesAreShaped(names) == "" \notin Range(names) /\ IsInjective(names)

-----------------------------------------------------------------------------
(* The arguments of a button, as far as they are known.                     *)

\* literalFromKnownValue.
RECURSIVE literalFromKnownValue(_)
literalFromKnownValue(shape) ==
  LET Sub(item) == OrUnknown(literalFromKnownValue(item))
      p == shape.param
  IN CASE shape = Unknown -> UNKNOWN_ROUTE_CALL_VALUE
       [] shape.type = "literal-string" /\ shape # SomeString -> knownStaticStringValue(shape.text)
       [] shape.type \in {"bool", "uint256", "number", "null"} -> shape.value
       [] shape.type = "literal-string[]" -> Arr([i \in DOMAIN shape.texts |-> Str(shape.texts[i])])
       [] shape.type = "array" -> Arr([i \in DOMAIN shape.items |-> Sub(shape.items[i])])
       [] shape.type = "tuple" -> Obj([name \in DOMAIN shape.fields |-> Sub(shape.fields[name])])
       [] shape.type = "abi" -> IF p.dims = <<>> /\ p.base = "tuple"
                                THEN Obj([name \in NameSet(p.components) |-> Sub(AbiShape(Named(p.components, name)))])
                                ELSE Undefined
       [] OTHER -> Undefined

\* knownActionLiteral.
RECURSIVE knownActionLiteral(_, _)
knownActionLiteral(v, context) ==
  LET Sub(item) == OrUnknown(knownActionLiteral(item, context))
      shape == Lookup(v, context)
  IN CASE IsExpression(v) -> IF shape \in {Unknown, Missing} THEN UNKNOWN_ROUTE_CALL_VALUE ELSE literalFromKnownValue(shape)
       [] IsStr(v) -> knownStaticStringValue(v.s)
       [] IsArr(v) -> MapItems(Sub, v)
       [] IsObj(v) -> MapFields(Sub, v)
       [] OTHER -> v

\* validateActionRouteAbi: an argument of the button that the route's function cannot take.
ActionMismatch(v, args, context, param) ==
  LET Known(path) == LET found == rawValueAtSegments(Obj(args), path)
                     IN IF found = Undefined THEN Undefined ELSE knownActionLiteral(found, context)
  IN InputMismatch(v, [path \in KnownPaths(v) |-> Known(path)], param)

-----------------------------------------------------------------------------
(* The walk over the nodes of a route.                                      *)

\* validateUiDataflow: what is wrong with a node wherever it is rendered.
RECURSIVE DataflowFaults(_, _)
DataflowFaults(ui, node) ==
  LET key == node.state.key
      names == staticStringList(node.call.function)
      Include ==
        (IF DOMAIN node.call.args \cap RuntimeRoots # {} \/ ~ CallFunctionIsParsed(node.call.function, "Include") THEN {"shape"} ELSE {}) \cup
        (IF names = None THEN {}
         ELSE IF ~ NamesAreShaped(names) THEN {"target"}
         ELSE IF ~ Range(names) \subseteq DOMAIN ui THEN {"target"}
         ELSE IF \E i \in DOMAIN names : ui[names[i]].requires # None /\ Range(ui[names[i]].requires) # DOMAIN node.call.args
              THEN {"names"} ELSE {})
  IN (IF node.element = "TextField" /\ IsStatic(key) /\ StaticString(key.s).s \notin Identifiers THEN {"key"} ELSE {}) \cup
     (IF node.call # None /\ "" \in DOMAIN node.call.args THEN {"shape"} ELSE {}) \cup
     (IF node.element = "Include" THEN Include ELSE {}) \cup
     UNION {DataflowFaults(ui, node.children[i]) : i \in DOMAIN node.children}

\* collectRouteInputs: the keys of the fields a route renders, in order, with what is
\* unknown or wrong about them.
KeyFault == [t |-> "fault"]
KeyText(key, shape) ==
  CASE IsStatic(key) -> <<StaticString(key.s)>>
    [] IsExpression(key) /\ shape.type = "literal-string" /\ shape # SomeString -> <<Str(shape.text)>>
    [] OTHER -> <<>>
FieldKey(node, context) ==
  LET Checked(text) == IF text.s \in Identifiers THEN text ELSE KeyFault
      texts == KeyText(node.state.key, Lookup(node.state.key, context))
  IN [i \in DOMAIN texts |-> Checked(texts[i])]

RECURSIVE collectNodeInputs(_, _, _, _, _), collectIncluded(_, _, _, _, _), collectRouteInputs(_, _, _, _, _)
collectNodeInputs(ui, node, context, stack, recurse) ==
  CASE node.element = "TextField" -> FieldKey(node, context)
    [] node.element = "Include" /\ recurse ->
         collectIncluded(ui, includeSelection(node.call.function, context), IncludeContext(node.call.args, context), stack, recurse)
    [] OTHER -> FlattenSeq([i \in DOMAIN node.children |-> collectNodeInputs(ui, node.children[i], context, stack, recurse)])
collectIncluded(ui, selection, context, stack, recurse) ==
  IF selection = None THEN <<UNKNOWN_ROUTE_CALL_VALUE>>
  ELSE (IF selection.hasUnknown THEN <<UNKNOWN_ROUTE_CALL_VALUE>> ELSE <<>>) \o
       FlattenSeq([i \in DOMAIN selection.names |-> collectRouteInputs(ui, selection.names[i], context, stack, recurse)])
collectRouteInputs(ui, name, context, stack, recurse) ==
  LET inCycle == name \in Range(stack)
  IN IF name \notin DOMAIN ui THEN <<>>
     ELSE collectNodeInputs(ui, ui[name], context, IF inCycle THEN stack ELSE Append(stack, name), recurse /\ ~ inCycle)

\* Mutated form of InputFaults: a key that is rendered twice is not looked for.
InputFaultsOnce(inputs_) == IF KeyFault \in Range(inputs_) THEN {"key"} ELSE {}

InputFaults(inputs_) ==
  LET keys == SelectSeq(inputs_, IsStr)
  IN (IF KeyFault \in Range(inputs_) THEN {"key"} ELSE {}) \cup (IF IsInjective(keys) THEN {} ELSE {"duplicate"})

\* validateBoundValue.
BoundFaults(v, expectation, context) ==
  LET shape == Lookup(v, context)
  IN IF ~ IsExpression(v) THEN {}
     ELSE CASE shape = Unknown -> {}
            [] shape = Missing -> {"missing"}
            [] OTHER -> IF expectation = "address" /\ shape.type = "literal-string" /\ shape # SomeString /\ ~ isAbiAddressValue(Str(shape.text))
                        THEN {"address"}
                        ELSE IF abiValueMatches(shape, expectation) THEN {} ELSE {"type"}

\* validateProps and validateLiteralPropValue.
PropFaults(node, context) ==
  UNION {LET expectation == propExpectation(node.element, prop)
             v == node.props[prop]
         IN IF expectation = None THEN {}
            ELSE (IF expectation = "address" /\ IsStatic(v) /\ ~ isAbiAddressValue(StaticString(v.s)) THEN {"address"} ELSE {}) \cup
                 BoundFaults(v, expectation, context) : prop \in DOMAIN node.props}

\* validateStateBinding.
StateFaults(node, context) ==
  LET v == node.state.defaultValue
      shape == knownValueShape(v, [s \in ExpressionsIn(v) |-> Lookup(Str(s), context)])
  IN IF node.element # "TextField" THEN {}
     ELSE IF IsStr(v) THEN BoundFaults(v, "string", context)
     ELSE IF shape = Unknown \/ abiValueMatches(shape, "string") THEN {} ELSE {"default"}

\* validateCallArgReferences.
ReferenceFaults(args, context) ==
  IF \E ref \in collectExpressionReferences(Obj(args)).references : valueAtReference(ref, context) = Missing
  THEN {"missing"} ELSE {}

\* validateKnownActionRoute.
ActionName(v, known) ==
  CASE IsStatic(v) -> StaticString(v.s).s
    [] ~ IsStatic(v) /\ known # None -> IF known.hasUnknown \/ Len(known.names) # 1 THEN None ELSE known.names[1]
    [] OTHER -> None
RouteArgFaults(r, fn, args, context) ==
  (IF InputNames(r) # DOMAIN args \ {""} THEN {"button-names"} ELSE {}) \cup
  (IF fn # None /\ \E i \in DOMAIN fn.inputs :
        /\ fn.inputs[i].name \in DOMAIN r.call.args
        /\ ActionMismatch(r.call.args[fn.inputs[i].name], args, context, fn.inputs[i])
   THEN {"button-abi"} ELSE {})
NamedActionFaults(p, name, args, context) ==
  IF name = None THEN {}
  ELSE IF name \notin DeclaredRoutes(p) THEN {"button-target"}
  ELSE RouteArgFaults(p.routes[name], FunctionOf(p, p.routes[name]), args, context)
ActionFaults(p, call, context) ==
  NamedActionFaults(p, ActionName(call.function, knownSelectorNames(call.function, context)), call.args, context)

\* validateActionStateInputs.
StateInputFaults(args, inputs_) ==
  LET used == {ref \in collectExpressionReferences(Obj(args)).references : ref.root = "state"}
      Unnamed(ref) == ref.path = <<>> \/ ref.path[1] \notin Identifiers
      Absent(ref) == Str(ref.path[1]) \notin Range(inputs_) /\ UNKNOWN_ROUTE_CALL_VALUE \notin Range(inputs_)
  IN (IF \E ref \in used : Unnamed(ref) THEN {"state-name"} ELSE {}) \cup
     (IF \E ref \in used : ~ Unnamed(ref) /\ Absent(ref) THEN {"state"} ELSE {})

\* walkNode with validateCall, and walkNamedNode with visitNamedUiNode.
RECURSIVE walkNode(_, _, _, _, _, _), walkIncluded(_, _, _, _, _, _, _), walkNamedNode(_, _, _, _, _, _)
walkNode(p, node, context, inputs_, stack, recurse) ==
  LET args == node.call.args
      Call ==
        CASE node.element = "Button" ->
               BoundFaults(node.call.function, "string", context) \cup ActionFaults(p, node.call, context) \cup StateInputFaults(args, inputs_)
          [] node.element = "Include" ->
               BoundFaults(node.call.function, "stringOrArray", context) \cup
               walkIncluded(p, includeSelection(node.call.function, context), args, context, inputs_, stack, recurse)
          [] OTHER -> {}
  IN PropFaults(node, context) \cup StateFaults(node, context) \cup
     (IF node.call = None THEN {} ELSE ReferenceFaults(args, context) \cup Call) \cup
     UNION {walkNode(p, node.children[i], context, inputs_, stack, recurse) : i \in DOMAIN node.children}
walkIncluded(p, selection, args, context, inputs_, stack, recurse) ==
  LET OfName(name) ==
        IF name \notin DOMAIN p.ui THEN IF selection.resolved THEN {"target"} ELSE {}
        ELSE (IF selection.resolved /\ Range(p.ui[name].requires) # DOMAIN args \ {""} THEN {"names"} ELSE {}) \cup
             (IF recurse THEN walkNamedNode(p, name, IncludeContext(args, context), inputs_, stack, TRUE) ELSE {})
  IN IF selection = None THEN {}
     ELSE IF selection.resolved /\ ~ NamesAreShaped(selection.names) THEN {"target"}
     ELSE UNION {OfName(selection.names[i]) : i \in DOMAIN selection.names}
walkNamedNode(p, name, context, inputs_, stack, recurse) ==
  LET inCycle == name \in Range(stack)
  IN IF name \notin DOMAIN p.ui THEN {}
     ELSE (IF inCycle THEN {"cycle"} ELSE {}) \cup
          walkNode(p, p.ui[name], context, inputs_, IF inCycle THEN stack ELSE Append(stack, name), recurse /\ ~ inCycle)

\* validateRouteRootCardinality, for what the root includes.
RootFaults(ui, selection) ==
  IF selection = None THEN {}
  ELSE IF selection.hasUnknown \/ Len(selection.names) = 1 \/ ~ NamesAreShaped(selection.names) THEN {}
  ELSE IF Range(selection.names) \subseteq DOMAIN ui THEN {"root"} ELSE {}

\* validateRouteTypeflow, in the context of what the node of the route is handed.
WalkFaults(p, name, context, inputs_) == InputFaults(inputs_) \cup walkNamedNode(p, name, context, inputs_, <<>>, TRUE)
NodeFaults(p, name, context) ==
  (IF name \in DOMAIN p.ui /\ p.ui[name].element = "Include"
   THEN RootFaults(p.ui, includeSelection(p.ui[name].call.function, context)) ELSE {}) \cup
  WalkFaults(p, name, context, collectRouteInputs(p.ui, name, context, <<>>, TRUE))
FunctionFaults(p, r, fn) ==
  IF r.kind # "read" \/ fn = None THEN {} ELSE NodeFaults(p, r.then.function, RouteContext(r.then.args, fn.outputs))
TypeflowFaults(p, r) == FunctionFaults(p, r, FunctionOf(p, r))

\* validateUiExpressionRoots.
RECURSIVE PayloadsOf(_)
PayloadsOf(node) ==
  {Obj(node.props)} \cup (IF node.state = None THEN {} ELSE {node.state.key, node.state.defaultValue}) \cup
  (IF node.call = None THEN {} ELSE {node.call.function, Obj(node.call.args)}) \cup
  UNION {PayloadsOf(node.children[i]) : i \in DOMAIN node.children}

UiIssues(p) ==
  {Issue("dataflow", None, fault) : fault \in UNION {DataflowFaults(p.ui, p.ui[name]) : name \in DOMAIN p.ui}} \cup
  UNION {{Issue("typeflow", name, fault) : fault \in TypeflowFaults(p, p.routes[name])} : name \in DeclaredRoutes(p)} \cup
  (IF \A name \in DOMAIN p.ui : \A v \in PayloadsOf(p.ui[name]) : IsPayload(v, UiRoots) THEN {} ELSE {Issue("roots", None, "ui")})
=============================================================================
