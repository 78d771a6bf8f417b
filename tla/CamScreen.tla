------------------------------ MODULE CamScreen ------------------------------
(***************************************************************************)
(* The UI of a publication as cam-screen reads and renders it: parseUi of   *)
(* validate.ts, and resolve.ts, which goes through the nodes twice, first   *)
(* for the text fields and the state they start with, then for everything.  *)
(*                                                                         *)
(* ui is a function from the names of the nodes to the nodes.  A node has   *)
(* every field; one its element does not have is None.  What is rendered is *)
(* a sequence of nodes, <<Failed>> when the code throws.                    *)
(***************************************************************************)
EXTENDS CamAbi

RuntimeRoots == {"host", "account", "inputs", "outputs", "state"}     \* UI_RUNTIME_ROOTS
UiRoots == RuntimeRoots \cup {"view"}                                 \* UI_CONTEXT_KEYS
NodeArguments == {"view"}                                             \* UI_NODE_ARGUMENT_KEYS

\* UI_PROP_SCHEMAS: the props of an element, those that are strings, and addresses.
Schema(required, string, address) == [required |-> required, string |-> string, address |-> address]
PropSchemas ==
  [Screen |-> Schema({"title"}, {"title"}, {}), Text |-> Schema({"text"}, {"text"}, {}),
   TextField |-> Schema({"label"}, {"label"}, {}), Button |-> Schema({"label"}, {"label"}, {}),
   Address |-> Schema({"label", "address"}, {"label", "address"}, {"address"}),
   Status |-> Schema({"label", "value"}, {"label"}, {}),
   Nft |-> Schema({"contractAddress", "tokenId"}, {"contractAddress"}, {"contractAddress"}),
   Fragment |-> Schema({}, {}, {}), Include |-> Schema({}, {}, {})]
Containers == {"Screen", "Fragment"}
CallNamespace == [Include |-> "ui", Button |-> "routes"]              \* UI_CALL_NAMESPACE_BY_ELEMENT

\* parseCallFunction.
CallFunctionIsParsed(v, element) ==
  IsStr(v) \/ (element = "Include" /\ IsArr(v) /\ \A i \in DOMAIN v.items : IsStr(v.items[i]))

\* parseNodeBody: rejectUnexpectedNodeShape, parseProps, parseStateBinding, parseCall.
RECURSIVE NodeIsParsed(_)
NodeIsParsed(node) ==
  /\ node.element \in DOMAIN PropSchemas
  /\ LET schema == PropSchemas[node.element]
     IN /\ DOMAIN node.props = schema.required
        /\ \A name \in schema.string : IsStr(node.props[name])
        /\ IsPayload(Obj(node.props), UiRoots)
  /\ (node.state # None) <=> (node.element = "TextField")
  /\ node.state # None => IsPayload(node.state.key, UiRoots) /\ IsPayload(node.state.defaultValue, UiRoots)
  /\ (node.call # None) <=> (node.element \in DOMAIN CallNamespace)
  /\ node.call # None =>
       /\ node.call.namespace = CallNamespace[node.element]
       /\ CallFunctionIsParsed(node.call.function, node.element) /\ IsPayload(node.call.function, UiRoots)
       /\ "" \notin DOMAIN node.call.args /\ IsPayload(Obj(node.call.args), UiRoots)
  /\ (node.children # <<>>) => node.element \in Containers
  /\ \A i \in DOMAIN node.children : node.children[i].requires = None /\ NodeIsParsed(node.children[i])

\* parseUi, parseNamedNode and parseRequires.
parseUi(ui) ==
  /\ DOMAIN ui # {} /\ "" \notin DOMAIN ui
  /\ \A name \in DOMAIN ui :
       LET requires == ui[name].requires
       IN requires # None /\ IsInjective(requires) /\ Range(requires) \subseteq NodeArguments /\ NodeIsParsed(ui[name])

-----------------------------------------------------------------------------
Rendered(nodes) == nodes # <<Failed>>
Joined(parts) == IF <<Failed>> \in Range(parts) THEN <<Failed>> ELSE FlattenSeq(parts)

\* contextForNode: a node is given exactly what it requires, and no root of the run time.
NodeAccepts(node, args) ==
  /\ node.requires # None /\ DOMAIN args \cap RuntimeRoots = {}
  /\ Range(node.requires) = DOMAIN args
Within(context, args) == Obj(args @@ context.fields)

\* selectedNodeNames: what is included, Failed when the selection is no list of names.
selectedNodeNames(selected) ==
  LET names == IF IsStr(selected) THEN <<selected>> ELSE IF IsArr(selected) THEN selected.items ELSE <<Failed>>
  IN IF /\ \A i \in DOMAIN names : IsStr(names[i]) /\ names[i] # Str("")
        /\ IsInjective(names)
     THEN names ELSE <<Failed>>
Selected(names) == names # <<Failed>>

\* Mutated form of selectedNames: a node may be named twice.
selectedNamesTwice(call, context) ==
  LET selected == ResolveNode(call.function, context)
      names == IF IsStr(selected) THEN <<selected>> ELSE IF IsArr(selected) THEN selected.items ELSE <<Failed>>
  IN IF \A i \in DOMAIN names : IsStr(names[i]) /\ names[i] # Str("")
     THEN names ELSE <<Failed>>

selectedNames(call, context) == selectedNodeNames(ResolveNode(call.function, context))

\* resolveProps: the resolved props, or Failed.
PropsFit(props, schema) ==
  /\ props # Undefined
  /\ \A name \in schema.string : IsStr(props.fields[name])
  /\ \A name \in schema.address : isAbiAddressValue(props.fields[name])
CheckedProps(props, schema) == IF PropsFit(props, schema) THEN props ELSE Failed
resolveProps(node, context) == CheckedProps(ResolveNode(Obj(node.props), context), PropSchemas[node.element])

\* resolveStateBinding: the key, or Failed.
resolveKey(state, context) ==
  LET key == ResolveNode(state.key, context)
  IN IF IsStr(key) /\ key.s \in Identifiers THEN key ELSE Failed

\* A text of the author with what it refers to in the arguments of its node put in its place,
\* as far as that is written down: of the properties only, nothing of it is in the code.
RECURSIVE Written(_, _)
Written(v, given) ==
  LET Sub(item) == Written(item, given)
      ref == References[v.s]
      found == rawValueAtSegments(given[ref.root], ref.path)
  IN CASE IsExpression(v) -> IF ref.root \in DOMAIN given /\ found # Undefined THEN found ELSE v
       [] IsArr(v) -> MapItems(Sub, v)
       [] IsObj(v) -> MapFields(Sub, v)
       [] OTHER -> v

Leaf(node, props) == <<[t |-> "node", element |-> node.element, props |-> props]>>

\* resolveAction: a button with the call it makes.
Pressable(props, function, args, written) ==
  IF props = Failed \/ function = Undefined \/ args = Undefined THEN <<Failed>>
  ELSE IF ~ IsStr(function) \/ function = Str("") THEN <<Failed>>
  ELSE <<[t |-> "node", element |-> "Button", props |-> props, function |-> function.s, args |-> args.fields, written |-> written]>>
resolveAction(node, context, given) ==
  Pressable(resolveProps(node, context), ResolveNode(node.call.function, context), ResolveNode(Obj(node.call.args), context),
            [function |-> Written(node.call.function, given), args |-> Written(Obj(node.call.args), given).fields])

\* The rest of resolveElementNode, for props, children and a key that are resolved.
Plain(node, props) == IF props = Failed THEN <<Failed>> ELSE Leaf(node, props)
Field_(props, key) ==
  IF props = Failed \/ key = Failed THEN <<Failed>>
  ELSE <<[t |-> "node", element |-> "TextField", props |-> props, key |-> key.s]>>
Container(node, props, children) ==
  IF ~ Rendered(children) \/ props = Failed THEN <<Failed>>
  ELSE <<[t |-> "node", element |-> node.element, props |-> props, children |-> children]>>

\* resolveNode with resolveElementNode, and resolveNamedNode with resolveInclude.
RECURSIVE renderNode(_, _, _, _, _), renderIncluded(_, _, _, _, _, _), renderNamed(_, _, _, _, _, _)
renderNode(ui, node, context, given, stack) ==
  CASE node.element = "Include" ->
         renderIncluded(ui, selectedNames(node.call, context), ResolveNode(Obj(node.call.args), context), context,
                        Written(Obj(node.call.args), given), stack)
    [] node.element = "Button" -> resolveAction(node, context, given)
    [] node.element \in Containers ->
         Container(node, resolveProps(node, context),
                   Joined([i \in DOMAIN node.children |-> renderNode(ui, node.children[i], context, given, stack)]))
    [] node.element = "TextField" -> Field_(resolveProps(node, context), resolveKey(node.state, context))
    [] OTHER -> Plain(node, resolveProps(node, context))
renderIncluded(ui, names, args, context, written, stack) ==
  IF ~ Selected(names) \/ args = Undefined THEN <<Failed>>
  ELSE Joined([i \in DOMAIN names |-> renderNamed(ui, names[i].s, args.fields, context, written.fields, stack)])
renderNamed(ui, name, args, context, given, stack) ==
  IF name \in Range(stack) \/ name \notin DOMAIN ui THEN <<Failed>>
  ELSE IF ~ NodeAccepts(ui[name], args) THEN <<Failed>>
  ELSE renderNode(ui, ui[name], Within(context, args), given, Append(stack, name))

\* resolveUiNode: one root, or an error.
OneRoot(nodes) == IF Len(nodes) = 1 THEN nodes ELSE <<Failed>>
resolveUiNode(ui, name, args, context, given) == OneRoot(renderNamed(ui, name, args, context, given, <<>>))

-----------------------------------------------------------------------------
(* The first pass.                                                          *)

\* nodeCanExposeInitialState and nodeBodyCanExposeInitialState.
RECURSIVE BodyCanExpose(_)
BodyCanExpose(node) ==
  \/ node.element \in {"TextField", "Include"}
  \/ node.element \in Containers /\ \E i \in DOMAIN node.children : BodyCanExpose(node.children[i])

\* Mutated form of CanExposeInitialState: only what stands in the node itself is looked at.
CanExposeItself(ui, name, stack) ==
  name \in Range(stack) \/ name \notin DOMAIN ui \/ ui[name].element \in {"TextField"} \cup Containers

CanExposeInitialState(ui, name, stack) ==
  name \in Range(stack) \/ name \notin DOMAIN ui \/ BodyCanExpose(ui[name])

\* collectInitialStateFromNode with collectInitialStateFromInclude, and
\* collectInitialStateForNamedNode: the fields in order, each with its text.
FieldOf(key, text) ==
  IF key = Failed \/ ~ IsStr(text) THEN <<Failed>> ELSE <<[t |-> "field", key |-> key.s, text |-> text]>>

RECURSIVE collectNode(_, _, _, _), collectIncludes(_, _, _, _, _), collectNamed(_, _, _, _, _)
collectNode(ui, node, context, stack) ==
  CASE node.element = "TextField" ->
         FieldOf(resolveKey(node.state, context), ResolveNode(node.state.defaultValue, context))
    [] node.element \in Containers ->
         Joined([i \in DOMAIN node.children |-> collectNode(ui, node.children[i], context, stack)])
    [] node.element = "Include" ->
         collectIncludes(ui, selectedNames(node.call, context), ResolveNode(Obj(node.call.args), context), context, stack)
    [] OTHER -> <<>>
collectIncludes(ui, names, args, context, stack) ==
  LET Collect(name) ==
        IF ~ CanExposeInitialState(ui, name, stack) THEN <<>>
        ELSE IF args = Undefined THEN <<Failed>>
        ELSE collectNamed(ui, name, args.fields, context, stack)
  IN IF Selected(names) THEN Joined([i \in DOMAIN names |-> Collect(names[i].s)]) ELSE <<Failed>>
collectNamed(ui, name, args, context, stack) ==
  IF name \in Range(stack) \/ name \notin DOMAIN ui THEN <<Failed>>
  ELSE IF ~ NodeAccepts(ui[name], args) THEN <<Failed>>
  ELSE collectNode(ui, ui[name], Within(context, args), Append(stack, name))

\* createInitialState: the state, or Failed; a key may not occur twice.
StateOf(fields) ==
  LET keys == [i \in DOMAIN fields |-> fields[i].key]
  IN IF ~ Rendered(fields) THEN Failed
     ELSE IF ~ IsInjective(keys) THEN Failed
     ELSE Obj([key \in Range(keys) |-> fields[CHOOSE i \in DOMAIN keys : keys[i] = key].text])
createInitialState(ui, name, args, context) ==
  StateOf(collectNamed(ui, name, args, Within(context, [state |-> Obj(<<>>)]), <<>>))

\* forEachResolvedUiNode, resolvedUiInputNames and resolvedUiButtons.
RECURSIVE NodesOf(_)
NodesOf(nodes) ==
  Range(nodes) \cup UNION {IF nodes[i].element \in Containers THEN NodesOf(nodes[i].children) ELSE {} : i \in DOMAIN nodes}
InputsOf(nodes) == {node.key : node \in {n \in NodesOf(nodes) : n.element = "TextField"}}
ButtonsOf(nodes) == {n \in NodesOf(nodes) : n.element = "Button"}
=============================================================================
