------------------------------- MODULE CamAbi -------------------------------
(***************************************************************************)
(* The ABI of a contract, twice: what cam-conformance reads of it before    *)
(* publication and what it proves of the arguments written in a manifest    *)
(* (abi/routes.ts), and what cam-evm-viem accepts at run time, sends as     *)
(* arguments and makes of what the contract answers (abi.ts, arguments.ts,  *)
(* routes.ts).                                                              *)
(*                                                                         *)
(* A parameter has a name, a base type, the array suffixes behind it in     *)
(* dims, and components, which are None where the ABI has no such field.    *)
(***************************************************************************)
EXTENDS CamExpressions

CONSTANTS
  Integer,           \* base type -> [min, max], the supported integer types
  FixedBytes,        \* base type -> its length, the supported bytes<n>
  Addresses,         \* text of an address -> its lower-case spelling
  Hex,               \* text of hex bytes -> how many
  Decimal,           \* text of a decimal integer -> the integer
  ChainId,           \* the text of $host.chainId, which is CAIP-2 and no decimal
  None

ASSUME AbiAssumption ==
  /\ ChainId \notin DOMAIN Addresses \cup DOMAIN Hex \cup DOMAIN Decimal
  /\ \A type \in DOMAIN Integer : Integer[type].min <= 0 /\ Integer[type].max > 0
  /\ DOMAIN Addresses \subseteq DOMAIN Hex

BigInt(n) == [t |-> "bigint", n |-> n]       \* of viem, no JSON
Failed == Undefined                          \* stands for the exception

abiScalarKind(base) ==
  CASE base \in {"string", "address", "bool", "bytes"} -> base
    [] base \in DOMAIN Integer -> "integer"
    [] base \in DOMAIN FixedBytes -> "fixed-bytes"
    [] OTHER -> None

InRange(n, type) == Integer[type].min <= n /\ n <= Integer[type].max

\* isAbiIntegerValue, isAbiAddressValue and isAbiBytesValue; length is None for "bytes".
isAbiIntegerValue(v, type) ==
  \/ v.t = "number" /\ InRange(v.n, type)
  \/ IsStr(v) /\ v.s \in DOMAIN Decimal /\ InRange(Decimal[v.s], type)
isAbiAddressValue(v) == IsStr(v) /\ v.s \in DOMAIN Addresses
isAbiBytesValue(v, length) ==
  IsStr(v) /\ v.s \in DOMAIN Hex /\ (length = None \/ Hex[v.s] = length)

LengthOf(base) == IF base \in DOMAIN FixedBytes THEN FixedBytes[base] ELSE None

IsDynamicArray(p) == p.dims # <<>> /\ Last(p.dims) = "[]"
IsFixedArray(p) == p.dims # <<>> /\ Last(p.dims) # "[]"
Element(p) == [p EXCEPT !.dims = Front(@)]   \* dynamicArrayElement

\* inspectAbiParameterNames: no parameter is unnamed and no name occurs twice.
NamesAreUsable(params) ==
  /\ \A i \in DOMAIN params : params[i].name # ""
  /\ IsInjective([i \in DOMAIN params |-> params[i].name])
NameSet(params) == {params[i].name : i \in DOMAIN params}
Named(params, name) == params[CHOOSE i \in DOMAIN params : params[i].name = name]

\* abiTypeSignature and abiFunctionSignature: the types without the names.
RECURSIVE abiTypeSignature(_)
abiTypeSignature(p) ==
  <<p.base, IF p.components = None THEN <<>> ELSE [i \in DOMAIN p.components |-> abiTypeSignature(p.components[i])], p.dims>>
Signature(fn) == <<fn.name, [i \in DOMAIN fn.inputs |-> abiTypeSignature(fn.inputs[i])]>>

Duplicates(functions) ==
  {i \in DOMAIN functions : \E j \in 1..(i - 1) : Signature(functions[j]) = Signature(functions[i])}

-----------------------------------------------------------------------------
(* What each side accepts of an ABI.                                        *)

\* canonicalAbiType of cam-conformance.
RECURSIVE canonicalAbiType(_)
canonicalAbiType(p) ==
  CASE IsDynamicArray(p) -> canonicalAbiType(Element(p))
    [] IsFixedArray(p) -> FALSE
    [] p.dims = <<>> /\ p.base # "tuple" -> abiScalarKind(p.base) # None /\ p.components = None
    [] OTHER -> /\ p.components # None
                /\ NamesAreUsable(p.components)
                /\ \A i \in DOMAIN p.components : canonicalAbiType(p.components[i])

Mutabilities == {"pure", "view", "nonpayable", "payable"}

\* parseAbiFunction, abiInputs and abiOutputs: an output may be unnamed.
parseAbiFunction(fn) ==
  /\ fn.mutability \in Mutabilities
  /\ NamesAreUsable(fn.inputs)
  /\ \A i \in DOMAIN fn.inputs : canonicalAbiType(fn.inputs[i])
  /\ \A i \in DOMAIN fn.outputs : canonicalAbiType(fn.outputs[i])

\* parseAbiFunctions of cam-conformance: the functions it goes on with.
parseAbiFunctions(abi) ==
  LET parsed == SelectSeq(abi, parseAbiFunction)
      Fresh(i) == i \notin Duplicates(parsed)
  IN [functions |-> {parsed[i] : i \in {j \in DOMAIN parsed : Fresh(j)}},
      clean |-> Len(parsed) = Len(abi) /\ Duplicates(parsed) = {}]

\* validateAbiParameter of cam-evm-viem.
RECURSIVE validateAbiParameter(_)
validateAbiParameter(p) ==
  CASE IsDynamicArray(p) -> validateAbiParameter(Element(p))
    [] IsFixedArray(p) -> FALSE
    [] p.dims = <<>> /\ p.base = "tuple" ->
         /\ p.components # None
         /\ \A i \in DOMAIN p.components : validateAbiParameter(p.components[i])
         /\ NamesAreUsable(p.components)
    [] OTHER -> p.components = None /\ abiScalarKind(p.base) # None

\* parseAbiBytes of cam-evm-viem: one exception refuses the whole ABI.
parseAbiBytes(abi) ==
  /\ \A i \in DOMAIN abi :
       /\ abi[i].mutability \in Mutabilities
       /\ \A k \in DOMAIN abi[i].inputs : validateAbiParameter(abi[i].inputs[k])
       /\ \A k \in DOMAIN abi[i].outputs : validateAbiParameter(abi[i].outputs[k])
       /\ NamesAreUsable(abi[i].inputs)
  /\ Duplicates(abi) = {}

\* findUniqueAbiFunction: a route names a function, or gives a full signature.
Matching(functions, ref) ==
  IF ref.form = "signature" THEN {fn \in functions : Signature(fn) = ref.signature}
  ELSE {fn \in functions : ref.form = "name" /\ fn.name = ref.name}

-----------------------------------------------------------------------------
(* Arguments and results at run time.                                       *)

\* normalizeAbiArg: the value viem is given for a value of the route, or Failed.
RECURSIVE normalizeAbiArg(_, _)
normalizeAbiArg(v, p) ==
  LET Item(item) == normalizeAbiArg(item, Element(p))
      Component(name) == normalizeAbiArg(v.fields[name], Named(p.components, name))
      kind == abiScalarKind(p.base)
  IN CASE IsDynamicArray(p) ->
            IF IsArr(v) /\ \A i \in DOMAIN v.items : Item(v.items[i]) # Failed THEN MapItems(Item, v) ELSE Failed
       [] ~ IsDynamicArray(p) /\ p.base = "tuple" ->
            IF /\ IsObj(v) /\ DOMAIN v.fields = NameSet(p.components)
               /\ \A name \in DOMAIN v.fields : Component(name) # Failed
            THEN Obj([name \in DOMAIN v.fields |-> Component(name)]) ELSE Failed
       [] ~ IsDynamicArray(p) /\ kind = "string" /\ IsStr(v) -> v
       [] ~ IsDynamicArray(p) /\ kind = "address" /\ isAbiAddressValue(v) -> Str(Addresses[v.s])
       [] ~ IsDynamicArray(p) /\ kind = "bool" /\ v.t = "boolean" -> v
       [] ~ IsDynamicArray(p) /\ kind = "integer" /\ isAbiIntegerValue(v, p.base) ->
            BigInt(IF IsStr(v) THEN Decimal[v.s] ELSE v.n)
       [] ~ IsDynamicArray(p) /\ kind \in {"bytes", "fixed-bytes"} /\ isAbiBytesValue(v, LengthOf(p.base)) -> v
       [] OTHER -> Failed

\* normalizeAbiArgs: exactly the inputs of the function, in its order.
normalizeAbiArgs(inputs, args) ==
  LET sent == [i \in DOMAIN inputs |-> normalizeAbiArg(args[inputs[i].name], inputs[i])]
  IN IF DOMAIN args = NameSet(inputs) /\ \A i \in DOMAIN inputs : sent[i] # Failed THEN sent ELSE <<Failed>>
Sent(args) == args # <<Failed>>

\* Mutated form of normalizeIntegerOutput: the integer is handed on as it was decoded.
normalizeIntegerOutputRaw(raw, type) ==
  IF raw.t \in {"bigint", "number"} /\ InRange(raw.n, type) THEN raw ELSE Failed

\* normalizeIntegerOutput.
normalizeIntegerOutput(raw, type) ==
  IF raw.t \in {"bigint", "number"} /\ InRange(raw.n, type) THEN Str(ToString(raw.n)) ELSE Failed

\* normalizeAbiValue: the JSON made of what viem decodes, a tuple being decoded as an
\* object or as an array; Failed when the shape is not the one declared.
RECURSIVE normalizeAbiValue(_, _)
normalizeAbiValue(raw, p) ==
  LET Item(item) == normalizeAbiValue(item, Element(p))
      Place(name) == CHOOSE i \in DOMAIN p.components : p.components[i].name = name
      Component(name) == normalizeAbiValue(IF IsObj(raw) THEN raw.fields[name] ELSE raw.items[Place(name)],
                                           Named(p.components, name))
      Fits == CASE IsObj(raw) -> DOMAIN raw.fields = NameSet(p.components)
                [] IsArr(raw) -> Len(raw.items) = Len(p.components)
                [] OTHER -> p.components = <<>>
      kind == abiScalarKind(p.base)
  IN CASE IsDynamicArray(p) ->
            IF IsArr(raw) /\ \A i \in DOMAIN raw.items : Item(raw.items[i]) # Failed THEN MapItems(Item, raw) ELSE Failed
       [] p.dims = <<>> /\ p.base = "tuple" ->
            IF Fits /\ \A name \in NameSet(p.components) : Component(name) # Failed
            THEN Obj([name \in NameSet(p.components) |-> Component(name)]) ELSE Failed
       [] p.dims = <<>> /\ kind = "string" /\ IsStr(raw) -> raw
       [] p.dims = <<>> /\ kind = "address" /\ isAbiAddressValue(raw) -> Str(Addresses[raw.s])
       [] p.dims = <<>> /\ kind = "bool" /\ raw.t = "boolean" -> raw
       [] p.dims = <<>> /\ kind = "integer" -> normalizeIntegerOutput(raw, p.base)
       [] p.dims = <<>> /\ kind \in {"bytes", "fixed-bytes"} /\ isAbiBytesValue(raw, LengthOf(p.base)) -> raw
       [] OTHER -> Failed

\* normalizeRouteResult: viem answers undefined for no output, the value for one and an
\* array for more.
normalizeRouteResult(raw, outputs) ==
  LET raws == CASE Len(outputs) = 0 -> IF raw = Undefined THEN <<>> ELSE <<Failed>>
                [] Len(outputs) = 1 -> <<raw>>
                [] OTHER -> IF IsArr(raw) THEN raw.items ELSE <<Failed>>
      values == [i \in DOMAIN raws |-> normalizeAbiValue(raws[i], outputs[i])]
  IN IF Len(raws) = Len(outputs) /\ \A i \in DOMAIN raws : values[i] # Failed THEN values ELSE <<Failed>>

-----------------------------------------------------------------------------
(* What conformance proves of an argument as it is written.                 *)

\* knownRouteArgValue: the kind of a value where it is known; protocol roots have one.
knownRouteArgValue(v) ==
  CASE isKnownStaticStringValue(v) -> "string-literal"
    [] IsObj(v) /\ ~ isKnownStaticStringValue(v) -> "object"
    [] IsArr(v) -> "array"
    [] v.t = "number" -> "integer"
    [] v.t = "fraction" -> "number"
    [] v.t = "boolean" -> "bool"
    [] v.t = "null" -> "null"
    [] IsStr(v) /\ StaticString(v.s) # Undefined -> "string-literal"
    [] IsExpression(v) /\ References[v.s] \in [root : {"account", "host"}, path : {<<"address">>}] -> "address"
    [] IsExpression(v) /\ References[v.s] = [root |-> "host", path |-> <<"chainId">>] -> "string"
    [] OTHER -> None

isUnknownExpression(v) == IsStr(v) /\ knownRouteArgValue(v) = None

\* staticScalarString: a mark stands for its text, any other text for itself.
staticScalarString(v) == IF isKnownStaticStringValue(v) THEN v.fields["value"] ELSE v

\* Mutated form of routeArgMismatch: the range of an integer literal is not looked at.
routeArgMismatchUnranged(v, p) ==
  LET known == knownRouteArgValue(v)
  IN abiScalarKind(p.base) = "integer" /\ known \notin {None, "integer", "string-literal"}

\* routeArgMismatch: the value is known and not of the scalar type.
routeArgMismatch(v, p) ==
  LET known == knownRouteArgValue(v)
      literal == known = "string-literal"
      kind == abiScalarKind(p.base)
      scalar == staticScalarString(v)
  IN CASE kind = "string" -> ~ IsStr(v) /\ known \notin {None, "address", "bytes", "string", "string-literal"}
       [] known = None -> FALSE
       [] kind = "address" -> IF literal THEN ~ isAbiAddressValue(scalar) ELSE known # "address"
       [] kind = "bool" -> known # "bool"
       [] kind = "integer" -> ~ (known = "integer" \/ literal) \/ ~ isAbiIntegerValue(scalar, p.base)
       [] kind \in {"bytes", "fixed-bytes"} ->
            IF literal THEN ~ isAbiBytesValue(scalar, LengthOf(p.base)) ELSE known # "bytes"
       [] OTHER -> FALSE

Below(segment, paths) == {<<segment>> \o path : path \in paths}

\* abiArgValueMismatches: the paths inside the argument at which it cannot be of the type.
RECURSIVE abiArgValueMismatches(_, _)
abiArgValueMismatches(v, p) ==
  CASE v = UNKNOWN_ROUTE_CALL_VALUE -> {}
    [] IsDynamicArray(p) /\ IsArr(v) ->
         UNION {Below(ToString(i - 1), abiArgValueMismatches(v.items[i], Element(p))) : i \in DOMAIN v.items}
    [] p.dims = <<>> /\ p.base = "tuple" /\ IsObj(v) ->
         LET names == NameSet(p.components)
             Differing == (names \ DOMAIN v.fields) \cup (DOMAIN v.fields \ names)
         IN {<<name>> : name \in Differing} \cup
            UNION {Below(name, abiArgValueMismatches(v.fields[name], Named(p.components, name))) :
                   name \in names \cap DOMAIN v.fields}
    [] (IsDynamicArray(p) /\ ~ IsArr(v)) \/ (p.dims = <<>> /\ p.base = "tuple" /\ ~ IsObj(v)) ->
         IF isUnknownExpression(v) THEN {} ELSE {<<>>}
    [] OTHER -> IF v # UNKNOWN_ROUTE_CALL_VALUE /\ routeArgMismatch(v, p) THEN {<<>>} ELSE {}

\* validateOutputFieldPath, and abiOutputAtSegments, which differs only in what it returns.
RECURSIVE OutputHasPath(_, _)
OutputHasPath(p, segments) ==
  CASE segments = <<>> -> TRUE
    [] segments # <<>> /\ IsDynamicArray(p) ->
         Head(segments) \in DOMAIN Indexes /\ OutputHasPath(Element(p), Tail(segments))
    [] segments # <<>> /\ p.dims = <<>> /\ p.base = "tuple" ->
         /\ Head(segments) \in NameSet(p.components)
         /\ OutputHasPath(Named(p.components, Head(segments)), Tail(segments))
    [] OTHER -> FALSE
=============================================================================
