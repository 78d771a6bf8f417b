---------------------------- MODULE MCCamRoutes -----------------------------
(* One contract with one or two functions, one or two routes.  Every kind of  *)
(* argument against every kind of parameter, every reference to an output     *)
(* against every kind of result, every continuation, and every way the code   *)
(* refuses a manifest or an ABI.                                              *)
EXTENDS CamRoutes

Ref(root, path) == [root |-> root, path |-> path]
RouteReferences ==
  ("$inputs.x" :> Ref("inputs", <<"x">>)) @@ ("$inputs.x.serial" :> Ref("inputs", <<"x", "serial">>)) @@
  ("$inputs.y" :> Ref("inputs", <<"y">>)) @@ ("$inputs.amount" :> Ref("inputs", <<"amount">>)) @@
  ("$inputs" :> Ref("inputs", <<>>)) @@ ("$account.address" :> Ref("account", <<"address">>)) @@
  ("$host.address" :> Ref("host", <<"address">>)) @@ ("$host.chainId" :> Ref("host", <<"chainId">>)) @@
  ("$host.name" :> Ref("host", <<"name">>)) @@ ("$state.x" :> Ref("state", <<"x">>)) @@
  ("$outputs.0" :> Ref("outputs", <<"0">>)) @@ ("$outputs.1" :> Ref("outputs", <<"1">>)) @@
  ("$outputs.0.serial" :> Ref("outputs", <<"0", "serial">>)) @@ ("$outputs.0.0" :> Ref("outputs", <<"0", "0">>)) @@
  ("$outputs.0.0.serial" :> Ref("outputs", <<"0", "0", "serial">>)) @@ ("$outputs.x" :> Ref("outputs", <<"x">>)) @@
  ("$outputs.2" :> Ref("outputs", <<"2">>)) @@ ("$outputs" :> Ref("outputs", <<>>))
RouteMalformed == {"$inputs..x"}
RouteEscapes == "$$account.address" :> "$account.address"
RouteIndexes == ("0" :> 0) @@ ("1" :> 1) @@ ("2" :> 2)
RouteInteger == ("uint8" :> [min |-> 0, max |-> 255]) @@ ("int8" :> [min |-> -128, max |-> 127])
RouteFixedBytes == ("bytes1" :> 1) @@ ("bytes20" :> 20)
RouteAddresses == ("0xAB" :> "0xab") @@ ("0xab" :> "0xab")
RouteHexBytes == ("0xAB" :> 20) @@ ("0xab" :> 20) @@ ("0x12" :> 1)
RouteDecimal == ("7" :> 7) @@ ("007" :> 7) @@ ("255" :> 255) @@ ("256" :> 256) @@ ("-1" :> -1) @@ ("-128" :> -128) @@ ("0" :> 0)
RouteIdentifiers == {"x", "y", "amount"}

Param(name, base) == [name |-> name, base |-> base, dims |-> <<>>, components |-> None]
Array(p) == [p EXCEPT !.dims = Append(@, "[]")]
Tuple(name, components) == [Param(name, "tuple") EXCEPT !.components = components]
Item(name) == Tuple(name, <<Param("serial", "uint8"), Param("owner", "address")>>)
Types(name) ==
  {Param(name, base) : base \in {"string", "address", "bool", "bytes", "uint8", "int8", "bytes1"}} \cup
  {Array(Param(name, "uint8")), Item(name), Array(Item(name)), Tuple(name, <<>>)}

Fn(name, mutability, ins, outs) == [name |-> name, mutability |-> mutability, inputs |-> ins, outputs |-> outs]
Call(fn, args) == [namespace |-> "contracts.App", function |-> [form |-> "name", name |-> fn], args |-> args]
Ui(args) == [namespace |-> "ui", function |-> "app", args |-> args]
Read(ins, call, args) == [kind |-> "read", inputs |-> ins, call |-> call, then |-> Ui(args)]
Write(ins, call, next, args) ==
  [kind |-> "write", inputs |-> ins, call |-> call, then |-> [namespace |-> "routes", function |-> next, args |-> args]]
Namespaces == ("contracts.App" :> "contract") @@ ("ui" :> "ui") @@ ("routes" :> "routes")
UiOf(requires) ==
  [app |-> [element |-> "Text", requires |-> requires, props |-> [text |-> Str("text")], state |-> None,
            children |-> <<>>, call |-> None]]
Pub(routes, abi) ==
  [entry |-> "entry", namespaces |-> Namespaces, routes |-> routes, abi |-> abi, nodes |-> [app |-> {"view"}],
   ui |-> UiOf(<<"view">>)]
View == [view |-> Str("text")]

Texts == {"text", "7", "007", "256", "-1", "0xAB", "0x12", "$$account.address", "$account.address", "$host.address",
          "$host.chainId", "$host.name", "$inputs.x", "$inputs.x.serial", "$inputs"}
Items(serials, owners) == {Obj([serial |-> s, owner |-> o]) : s \in serials, o \in owners}
Templates ==
  {Str(s) : s \in Texts} \cup {Num(7), Num(256), Num(-1), Fraction, Bool(TRUE), Null, Arr(<<>>)} \cup
  {Arr(<<v>>) : v \in {Num(7), Num(256), Str("$inputs.x"), Obj([serial |-> Num(7)])}} \cup
  Items({Num(7), Num(256), Str("$inputs.x")}, {Str("0xAB"), Str("$account.address"), Str("$$account.address")}) \cup
  {Obj([serial |-> Num(7), owner |-> Str("0xab"), more |-> Null]), Obj([serial |-> Num(7)]), Obj([x \in {} |-> 0])} \cup
  {Arr(<<v>>) : v \in Items({Str("$inputs.x")}, {Str("0xab")})}

RouteInputValues ==
  {Str("7"), Num(256), Str("0xAB"), Str("$account.address"), Bool(TRUE), Arr(<<Num(7)>>), Obj([serial |-> Num(7)])}

\* viem decodes the small integers as numbers.
RECURSIVE RouteRaws(_)
RouteRaws(p) ==
  CASE IsDynamicArray(p) -> {Arr(<<>>)} \cup {Arr(<<v>>) : v \in RouteRaws(Element(p))}
    [] p.dims = <<>> /\ p.base = "tuple" /\ p.components = <<>> -> {Arr(<<>>), Obj([x \in {} |-> 0])}
    [] p.dims = <<>> /\ p.base = "tuple" /\ p.components # <<>> ->
         LET Of(i) == RouteRaws(p.components[i])
         IN {Obj((p.components[1].name :> a) @@ (p.components[2].name :> b)) : a \in Of(1), b \in Of(2)} \cup
            {Arr(<<a, b>>) : a \in Of(1), b \in Of(2)}
    [] p.base = "uint8" -> {Num(0), BigInt(255)}
    [] p.base = "int8" -> {Num(-128)}
    [] p.base = "address" -> {Str("0xAB")}
    [] p.base = "bool" -> {Bool(FALSE)}
    [] p.base \in {"bytes", "bytes1"} -> {Str("0x12")}
    [] OTHER -> {Str("text"), Str("$account.address")}

\* The route has the input it uses.
InputsFor(v) == IF \E s \in StringsOf(v) : s \in DOMAIN RouteReferences /\ RouteReferences[s].root = "inputs" THEN <<"x">> ELSE <<>>

Arguments ==
  {Pub([entry |-> Read(InputsFor(v), Call("f", [a |-> v]), View)], <<Fn("f", "view", <<p>>, <<>>)>>) :
     <<v, p>> \in {c \in Templates \X Types("a") : ~ (c[2].base = "bytes" /\ c[1] \in {Str("$account.address"), Str("$host.address")})}}

Results ==
  {Pub([entry |-> Read(<<>>, Call("f", <<>>), [view |-> Str(s)])], <<Fn("f", "pure", <<>>, outs)>>) :
     s \in {"$outputs.0", "$outputs.1", "$outputs.0.serial", "$outputs.0.0", "$outputs.0.0.serial", "$outputs.x", "$outputs.2",
            "$outputs", "$account.address"},
     outs \in {<<>>} \cup {<<p>> : p \in Types("")} \cup {<<Param("", "uint8"), p>> : p \in {Item(""), Array(Param("", "bool"))}}}

\* A write route with the input y that continues to the entry, whose function has one parameter.
Continuations ==
  {Pub([entry |-> Read(<<"x">>, Call("f", [a |-> v]), View), save |-> Write(<<"y">>, Call("g", [amount |-> w]), next, args)],
       <<Fn("f", "view", <<p>>, <<>>), Fn("g", mutability, <<Param("amount", "uint8")>>, <<>>)>>) :
     v \in {Str("$inputs.x"), Str("text"), Arr(<<Str("$inputs.x")>>)} \cup Items({Str("$inputs.x")}, {Str("$host.address")}),
     w \in {Num(7), Str("$inputs.y")},
     next \in {"entry", "nowhere"},
     args \in {[x |-> x] : x \in {Num(7), Num(256), Str("$inputs.y"), Str("$$account.address"), Str("$account.address"), Str("7")}}
              \cup {<<>>, [z |-> Null], [x |-> Null, z |-> Null]},
     mutability \in {"nonpayable"},
     p \in {Param("a", "uint8"), Param("a", "string"), Array(Param("a", "uint8")), Item("a")}}

BadParams ==
  {Param("", "uint8"), Param("a", "uint7"), Param("a", "bytes33"), Param("a", "function"), Param("a", "tuple"),
   [Param("a", "uint8") EXCEPT !.dims = <<"[2]">>], [Param("a", "uint8") EXCEPT !.dims = <<"[2]", "[]">>],
   [Param("a", "uint8") EXCEPT !.components = <<>>], Array([Param("a", "uint8") EXCEPT !.components = <<Param("b", "bool")>>]),
   Tuple("a", <<Param("b", "bool"), Param("b", "uint8")>>), Tuple("a", <<Param("", "bool")>>),
   Array(Tuple("a", <<Tuple("b", <<Param("c", "uint7")>>)>>)), Tuple("a", <<Param("b", "bool")>>)}

Entry(fn) == [entry |-> [Read(<<>>, Call("f", [a |-> Bool(TRUE)]), View) EXCEPT !.call.function = fn]]
ByName(n) == [form |-> "name", name |-> n]
BySignature(fn) == [form |-> "signature", signature |-> Signature(fn)]
F(base) == Fn("f", "view", <<Param("a", base)>>, <<>>)

Abis ==
  {Pub(Entry(ByName("f")), <<Fn("f", "view", <<p>>, <<>>)>>) : p \in BadParams} \cup
  {Pub(Entry(ByName("f")), <<F("bool"), Fn("g", "view", <<>>, <<p>>)>>) : p \in BadParams} \cup
  {Pub(Entry(ByName("f")), <<Fn("f", m, <<Param("a", "bool")>>, <<>>)>>) : m \in Mutabilities \cup {"constant"}} \cup
  {Pub(Entry(fn), abi) :
     fn \in {ByName("f"), ByName("h"), [form |-> "text"], BySignature(F("bool")), BySignature(F("uint8"))},
     abi \in {<<F("bool")>>, <<F("bool"), F("uint8")>>, <<F("bool"), F("bool")>>, <<Fn("f", "view", <<Param("a", "bool"), Param("a", "bool")>>, <<>>)>>}}

Good == Pub([entry |-> Read(<<"x">>, Call("f", [a |-> Str("$inputs.x")]), View)], <<F("bool")>>)
Manifests ==
  {[Good EXCEPT !.entry = "other"], [Good EXCEPT !.routes.entry.kind = "other"],
   [Good EXCEPT !.routes.entry.then.function = "other"],
   [Good EXCEPT !.nodes.app = {"view", "more"}, !.ui = UiOf(<<"view", "more">>)], [Good EXCEPT !.nodes.app = None, !.ui = UiOf(None)]} \cup
  {[Good EXCEPT !.routes.entry.inputs = ins] : ins \in {<<>>, <<"x", "x">>, <<"x", "y">>, <<"x-y">>}} \cup
  {[Good EXCEPT !.routes.entry.call.namespace = ns] : ns \in {"contracts.Other", "ui"}} \cup
  {[Good EXCEPT !.routes.entry.then.namespace = ns] : ns \in {"contracts.App", "routes"}} \cup
  {[Good EXCEPT !.routes.entry.call.args = [a |-> Str(s)]] : s \in {"$inputs..x", "$state.x", "$inputs.y", "$outputs.0", "$outputs"}} \cup
  {[Good EXCEPT !.routes.entry.call.args = args] : args \in {("" :> Null), <<>>, [a |-> Bool(TRUE), b |-> Null]}} \cup
  {[Good EXCEPT !.routes.entry.then.args = [view |-> Str(s)]] : s \in {"$inputs..x", "$state.x", "$inputs.y", "$outputs.0"}}

RoutePublications == Arguments \cup Results \cup Continuations \cup Abis \cup Manifests
=============================================================================
