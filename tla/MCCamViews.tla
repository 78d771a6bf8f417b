----------------------------- MODULE MCCamViews -----------------------------
(* The publications of MCCamRoutes, whose answers are shown by a screen of     *)
(* one text; and publications whose screens differ: one read route whose       *)
(* answer is shown, a second one and a write route for its buttons, every way  *)
(* a value reaches a prop, every way nodes include each other, text fields     *)
(* and their keys, buttons and their arguments.                                *)
EXTENDS CamViews, MCCamRoutes

ViewReferences ==
  ("$view" :> Ref("view", <<>>)) @@ ("$view.0" :> Ref("view", <<"0">>)) @@ ("$view.1" :> Ref("view", <<"1">>)) @@
  ("$view.n" :> Ref("view", <<"n">>)) @@ ("$view.serial" :> Ref("view", <<"serial">>)) @@
  ("$view.owner" :> Ref("view", <<"owner">>)) @@ ("$outputs.0" :> Ref("outputs", <<"0">>)) @@
  ("$inputs.x" :> Ref("inputs", <<"x">>)) @@ ("$state" :> Ref("state", <<>>)) @@ ("$state.a" :> Ref("state", <<"a">>)) @@
  ("$state.b" :> Ref("state", <<"b">>)) @@ ("$state.box" :> Ref("state", <<"box">>)) @@ ("$account.address" :> Ref("account", <<"address">>)) @@ ("$other" :> Ref("other", <<>>))
MCReferences == ViewReferences @@ RouteReferences
MCIdentifiers == RouteIdentifiers \cup {"a", "b", "box", "bare", "save", "text"}

SerialItem == [Param("", "tuple") EXCEPT !.components = <<Param("serial", "uint8"), Param("owner", "address")>>]
Text_ == Param("", "string")
Outputs == {Text_, Param("", "uint8"), Param("", "address"), Array(Text_), SerialItem}

List(texts) == Arr([i \in DOMAIN texts |-> Str(texts[i])])

\* What a contract may answer: for a screen, the names of nodes and routes as well.
MCRaws(p) ==
  IF p = Text_ THEN {Str(s) : s \in {"box", "bare", "save", "7", "$account.address"}}
  ELSE IF p = Array(Text_) THEN {Arr(<<>>), List(<<"bare">>), List(<<"save">>), List(<<"box", "bare">>)}
  ELSE RouteRaws(p)

ReadTo(ins, call, args) == [kind |-> "read", inputs |-> ins, call |-> call, then |-> [namespace |-> "ui", function |-> "app", args |-> args]]
Routes(view) ==
  [entry |-> ReadTo(<<>>, Call("f", <<>>), [view |-> view]),
   look |-> [ReadTo(<<"x">>, Call("h", [a |-> Str("$inputs.x")]), <<>>) EXCEPT !.then.function = "bare"],
   save |-> [kind |-> "write", inputs |-> <<"x">>, call |-> Call("g", [amount |-> Str("$inputs.x")]),
             then |-> [namespace |-> "routes", function |-> "entry", args |-> <<>>]]]
Abi(outs) ==
  <<Fn("f", "view", <<>>, outs), Fn("h", "view", <<Param("a", "string")>>, <<>>),
    Fn("g", "nonpayable", <<Param("amount", "uint8")>>, <<>>)>>
ViewPub(view, p, ui) ==
  [entry |-> "entry", namespaces |-> Namespaces, routes |-> Routes(view), abi |-> Abi(<<p>>), ui |-> ui,
   nodes |-> [name \in DOMAIN ui |-> IF ui[name].requires = None THEN None ELSE Range(ui[name].requires)]]
\* One without a button needs its entry only.
ScreenPub(view, p, ui) == [ViewPub(view, p, ui) EXCEPT !.routes = [entry |-> @.entry]]

Node(element, props) == [element |-> element, requires |-> None, props |-> props, state |-> None, children |-> <<>>, call |-> None]
Text(v) == Node("Text", [text |-> v])
TextField(key, text) == [Node("TextField", [label |-> Str("text")]) EXCEPT !.state = [key |-> key, defaultValue |-> text]]
Include(v, args) == [Node("Include", <<>>) EXCEPT !.call = [namespace |-> "ui", function |-> v, args |-> args]]
Button(v, args) == [Node("Button", [label |-> Str("text")]) EXCEPT !.call = [namespace |-> "routes", function |-> v, args |-> args]]
Fragment(children) == [Node("Fragment", <<>>) EXCEPT !.children = children]
Screen(children) == [Node("Screen", [title |-> Str("text")]) EXCEPT !.children = children]
Requires(names, node) == [node EXCEPT !.requires = names]
Bare == "bare" :> Requires(<<>>, Text(Str("text")))
App(node) == ("app" :> Requires(<<"view">>, node)) @@ Bare
Save == "save" :> Requires(<<"view">>, Text(Str("text")))
Field == "field" :> Requires(<<"view">>, TextField(Str("b"), Str("$view")))
Box(node) == "box" :> Requires(<<"view">>, node)

Views ==
  {Str("text"), Str("$outputs.0"), Str("0xAB"), Str("$$account.address"), Num(7), Num(256), Null, List(<<>>), List(<<"box">>),
   List(<<"box", "bare">>), List(<<"box", "box">>), List(<<"box", "$outputs.0">>), Arr(<<Num(7)>>),
   Obj([n |-> Num(256), owner |-> Str("0xAB")]), Obj([n |-> Str("$outputs.0")])}
Read_ == {Str("$view"), Str("$view.0"), Str("$view.n"), Str("$view.serial"), Str("$view.owner")}

\* What is handed to the node, with the output of the function, where it matters.
Shown(views, ps) ==
  {<<v, Text_>> : v \in {w \in views : "$outputs.0" \notin StringsOf(w)}} \cup
  {<<v, p>> : v \in {w \in views : "$outputs.0" \in StringsOf(w)}, p \in ps}

\* An index into a list that is written out, of which conformance forgets the elements.
IndexesList(view, node) == IsArr(view) /\ \E v \in PayloadsOf(node) : "$view.0" \in StringsOf(v)

\* A list inside the list an Include selects from, which conformance flattens and cam-screen refuses.
NestsList(shown, node) ==
  /\ IsArr(shown[1]) \/ IsDynamicArray(shown[2])
  /\ List(<<"box", "$view">>) \in PayloadsOf(node)

\* A root that includes an empty list, which conformance takes for one it does not know.
EmptyRoot(shown, node) == shown[1] = List(<<>>) /\ node.element = "Include" /\ node.call.function = Str("$view")

\* A key that is known, and no text: only its spelling is looked at.
NoKey(shown, node) == ~ (IsStr(shown[1]) /\ shown[2] = Text_) /\ node.element = "TextField" /\ node.state.key = Str("$view")

Props ==
  {ScreenPub(c[1][1], c[1][2], App(c[2])) : c \in {d \in Shown(Views, Outputs) \X
     ({Text(v) : v \in Read_ \cup {Str("text")}} \cup
      {Node("Address", [label |-> Str("text"), address |-> v]) : v \in Read_ \cup {Str("0xAB"), Str("text"), Str("$account.address")}} \cup
      {Node("Nft", [contractAddress |-> Str("0xAB"), tokenId |-> v]) : v \in {Str("$view"), Str("$view.serial")}} \cup
      {Node("Status", [label |-> Str("text"), value |-> Str("$view")])}) : ~ IndexesList(d[1][1], d[2])}}

Includes ==
  {ScreenPub(c[1][1], c[1][2], App(c[2]) @@ Box(c[3]) @@ Save) : c \in {d \in
     Shown({Str("text"), Str("$outputs.0"), List(<<>>), List(<<"box">>), List(<<"box", "bare">>), List(<<"box", "box">>), List(<<"box", "$outputs.0">>)},
           {Text_, Array(Text_)}) \X
     ({Screen(<<Include(v, args)>>) :
         v \in {Str("box"), Str("nowhere"), Str("app"), Str("$view"), Str("$view.0"), List(<<"bare">>), List(<<"box", "box">>), List(<<"box", "$view">>)},
         args \in {<<>>, [view |-> Str("$view")], [view |-> Str("box")]}} \cup
      {Include(v, [view |-> Str("$view")]) : v \in {Str("box"), Str("$view"), List(<<"box", "box">>)}}) \X
     {Text(Str("text")), TextField(Str("a"), Str("7")), TextField(Str("$view"), Str("7")), Include(Str("app"), [view |-> Str("$view")])} :
     ~ IndexesList(d[1][1], d[2]) /\ ~ NestsList(d[1], d[2]) /\ ~ EmptyRoot(d[1], d[2]) /\ ~ NoKey(d[1], d[3])}}

\* A key that only the contract knows, beside a button that reads the state; and one that is
\* known and no text.
OpenKey(view, key, third) == key = Str("$view") /\ (view = Num(7) \/ (view = Str("$outputs.0") /\ third.element = "Button"))

Fields ==
  {ViewPub(c[1], Text_, App(Screen(<<TextField(c[2], c[3]), Fragment(<<TextField(Str("b"), Str("7"))>>), c[4]>>))) : c \in {d \in
     {Str("text"), Str("$outputs.0"), Num(7)} \X
     {Str("a"), Str("b"), Str("x-y"), Str("$view"), Str("$state.b")} \X
     {Str("7"), Str("$view"), Num(7), Str("$view.0")} \X
     ({Button(Str("save"), [x |-> Str(s)]) : s \in {"$state.a", "$state.b", "$state"}} \cup
      {Node("Address", [label |-> Str("text"), address |-> Str("$state.a")]), Include(Str("$state.a"), <<>>), Text(Str("$state.a"))}) :
     ~ OpenKey(d[1], d[2], d[4])}}
  \cup
  {ViewPub(Str("text"), Text_, App(Screen(<<TextField(Str("a"), Str("0xAB")), Include(Str("box"), [view |-> v])>>)) @@ Box(node) @@ Field) :
     v \in {Str("$view"), Str("$state.a")},
     node \in {Node("Address", [label |-> Str("text"), address |-> Str("$view")]), Fragment(<<TextField(Str("b"), Str("$view"))>>),
               Fragment(<<Include(Str("box"), <<>>)>>), Include(Str("field"), [view |-> Str("$view")]), Button(Str("save"), [x |-> Str("$view")])}}

Buttons ==
  {ViewPub(c[1], c[2], App(Include(Str("box"), [view |-> Str("$view")])) @@ Box(Screen(<<Button(name, args)>>))) :
     c \in Shown({Num(7), Num(256), Str("$outputs.0"), Obj([n |-> Num(256), owner |-> Str("save")]), Arr(<<Num(7)>>), List(<<"save", "7">>)},
                 {Text_, Param("", "uint8")}),
     name \in {Str("save"), Str("look"), Str("nowhere"), Str("$view"), Str("$view.owner")},
     args \in {[x |-> v] : v \in {Num(7), Num(256), Str("7"), Str("$view"), Str("$view.n"), Str("$account.address"),
                                  Str("$$account.address"), Arr(<<Num(7)>>), Arr(<<Str("$view")>>), Str("$state.a")}} \cup
              {<<>>, [x |-> Num(7), y |-> Num(7)]}}

Refused ==
  {ViewPub(Str("text"), Text_, App(node)) :
     node \in {Text(Str("$other")), Text(Str("$inputs..x")), Button(Str("save"), ("" :> Null)), Text(Str("$account.address"))}}
  \cup {ViewPub(Str("text"), Text_, ("app" :> Requires(names, Text(Str("text")))) @@ Bare) : names \in {None, <<>>, <<"view">>}}

ViewPublications == Props \cup Includes \cup Fields \cup Buttons \cup Refused
MCPublications == RoutePublications \cup ViewPublications
=============================================================================
