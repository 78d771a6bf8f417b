--------------------------- MODULE CamExpressions ---------------------------
(***************************************************************************)
(* The values and the expressions of cam-protocol/src/expressions.ts, as    *)
(* the run time resolves them and as cam-conformance evaluates what it      *)
(* knows of them before anything runs.                                      *)
(*                                                                         *)
(* A value is JSON: a record whose field t names its kind.  A text is one   *)
(* of the strings of the CONSTANTS; what the grammar makes of a text that   *)
(* starts with a dollar is their business, what is done with it is here.    *)
(***************************************************************************)
EXTENDS Integers, Sequences, SequencesExt, FiniteSetsExt, TLC

CONSTANTS
  References,        \* text -> [root, path]: the expressions, by their text
  Malformed,         \* texts with one leading dollar that are no expression
  Escapes,           \* text with two leading dollars -> the text with one
  Indexes,           \* segment -> the array index it writes
  Identifiers        \* the names that are identifiers of expressions

Dollars == DOMAIN References \cup Malformed \cup {Escapes[s] : s \in DOMAIN Escapes}

ASSUME ExpressionAssumption ==
  /\ \A s \in DOMAIN References : References[s].path \in Seq(STRING)
  /\ DOMAIN References \cap (Malformed \cup DOMAIN Escapes) = {}

Str(s) == [t |-> "string", s |-> s]
Num(n) == [t |-> "number", n |-> n]          \* a safe integer
Bool(b) == [t |-> "boolean", b |-> b]
Arr(items) == [t |-> "array", items |-> items]
Obj(fields) == [t |-> "object", fields |-> fields]
Fraction == [t |-> "fraction"]               \* a number that is no safe integer
Null == [t |-> "null"]
Undefined == [t |-> "undefined"]             \* no value: never inside a value
UNKNOWN_ROUTE_CALL_VALUE == [t |-> "unknown"]

IsStr(v) == v.t = "string"
IsArr(v) == v.t = "array"
IsObj(v) == v.t = "object"

\* Array.map and the loop over Object.entries.
MapItems(op(_), v) == Arr([i \in DOMAIN v.items |-> op(v.items[i])])
MapFields(op(_), v) == Obj([name \in DOMAIN v.fields |-> op(v.fields[name])])

IsExpression(v) == IsStr(v) /\ v.s \in DOMAIN References

\* parseStaticExpressionString.
StaticString(s) ==
  CASE s \in DOMAIN Escapes -> Str(Escapes[s])
    [] s \in Dollars -> Undefined
    [] OTHER -> Str(s)

RECURSIVE StringsOf(_)
StringsOf(v) ==
  CASE IsStr(v) -> {v.s}
    [] IsArr(v) -> UNION {StringsOf(v.items[i]) : i \in DOMAIN v.items}
    [] IsObj(v) -> UNION {StringsOf(v.fields[name]) : name \in DOMAIN v.fields}
    [] OTHER -> {}

\* collectExpressionReferences.
collectExpressionReferences(v) ==
  [references |-> {References[s] : s \in StringsOf(v) \cap DOMAIN References},
   syntaxErrors |-> (StringsOf(v) \ DOMAIN References) \cap Dollars]

\* validateValue of createExpressionRuntime, for the given roots.
IsPayload(v, roots) ==
  LET found == collectExpressionReferences(v)
  IN found.syntaxErrors = {} /\ \A r \in found.references : r.root \in roots

readExpressionSegment(v, segment) ==
  CASE IsArr(v) /\ segment \in DOMAIN Indexes ->
         IF Indexes[segment] < Len(v.items) THEN v.items[Indexes[segment] + 1] ELSE Undefined
    [] IsObj(v) /\ segment \in DOMAIN v.fields -> v.fields[segment]
    [] OTHER -> Undefined

\* rawValueAtSegments of cam-conformance, and the walk of resolveString.
rawValueAtSegments(v, segments) == FoldLeft(readExpressionSegment, v, segments)

\* Mutated form of ResolveString: the value found is looked at as an expression again.
ResolveStringAgain(s, context) ==
  LET At(text) == rawValueAtSegments(context.fields[References[text].root], References[text].path)
      found == At(s)
  IN CASE StaticString(s) # Undefined -> StaticString(s)
       [] s \in DOMAIN References /\ References[s].root \in DOMAIN context.fields ->
            IF IsExpression(found) /\ References[found.s].root \in DOMAIN context.fields
            THEN At(found.s) ELSE found
       [] OTHER -> Undefined

\* resolveString: the static text, or what the reference leads to in the context; what
\* is found is data and is not looked at again.  Undefined stands for the error.
ResolveString(s, context) ==
  CASE StaticString(s) # Undefined -> StaticString(s)
    [] s \in DOMAIN References /\ References[s].root \in DOMAIN context.fields ->
         rawValueAtSegments(context.fields[References[s].root], References[s].path)
    [] OTHER -> Undefined

\* resolveNode: Undefined when a string anywhere in the value does not resolve.
RECURSIVE ResolveNode(_, _)
ResolveNode(v, context) ==
  LET Sub(item) == ResolveNode(item, context)
  IN CASE IsStr(v) -> ResolveString(v.s, context)
       [] IsArr(v) -> IF \E i \in DOMAIN v.items : Sub(v.items[i]) = Undefined
                      THEN Undefined ELSE MapItems(Sub, v)
       [] IsObj(v) -> IF \E name \in DOMAIN v.fields : Sub(v.fields[name]) = Undefined
                      THEN Undefined ELSE MapFields(Sub, v)
       [] OTHER -> v

\* resolveArgs of cam-core: Undefined when one of the arguments does not resolve.
resolveArgs(args, context) == ResolveNode(Obj(args), context)

-----------------------------------------------------------------------------
(* What conformance knows of a value: known-route-call.ts.  The paths that   *)
(* say whether a leaf stands in the route or came in through an input are    *)
(* a function from the path of a leaf to its owner.                          *)

\* A string that is data and starts with a dollar is marked, for it would be taken for
\* an expression; the mark is an object like any other.
StaticStringMark(s) == Obj([type |-> Str("static-string"), value |-> Str(s)])

isKnownStaticStringValue(v) ==
  /\ IsObj(v) /\ {"type", "value"} \subseteq DOMAIN v.fields
  /\ v.fields["type"] = Str("static-string") /\ IsStr(v.fields["value"])

knownStaticStringValue(s) ==
  LET static == StaticString(s)
  IN IF static # Undefined /\ static.s \in Dollars THEN StaticStringMark(static.s) ELSE static

OrUnknown(v) == IF v = Undefined THEN UNKNOWN_ROUTE_CALL_VALUE ELSE v

\* knownLiteralValue: a value as it was written in the handoff.
RECURSIVE knownLiteralValue(_)
knownLiteralValue(v) ==
  LET Sub(item) == OrUnknown(knownLiteralValue(item))
  IN CASE IsStr(v) -> IF knownStaticStringValue(v.s) = Undefined THEN v ELSE knownStaticStringValue(v.s)
       [] isKnownStaticStringValue(v) -> v
       [] IsArr(v) -> MapItems(Sub, v)
       [] IsObj(v) -> MapFields(Sub, v)
       [] OTHER -> v

\* The paths resolveInput is asked for.
KnownPaths(v) == {ref.path : ref \in {r \in collectExpressionReferences(v).references : r.root = "inputs"}}

\* knownRouteCallValue: the argument of a route as far as it is known; inputs is what
\* resolveInput answers for each of the paths.
RECURSIVE knownRouteCallValue(_, _)
knownRouteCallValue(v, inputs) ==
  LET Sub(item) == OrUnknown(knownRouteCallValue(item, inputs))
  IN CASE IsStr(v) /\ v.s \in Malformed -> Undefined
       [] IsExpression(v) -> IF References[v.s].root = "inputs" /\ inputs[References[v.s].path] # Undefined
                             THEN knownLiteralValue(inputs[References[v.s].path]) ELSE Undefined
       [] IsArr(v) -> MapItems(Sub, v)
       [] IsObj(v) -> MapFields(Sub, v)
       [] OTHER -> knownLiteralValue(v)

\* The paths of the leaves, as the map of leafValue has them.
RECURSIVE LeafPaths(_)
LeafPaths(v) ==
  CASE isKnownStaticStringValue(v) -> {<<>>}
    [] IsArr(v) -> UNION {{<<ToString(i - 1)>> \o path : path \in LeafPaths(v.items[i])} : i \in DOMAIN v.items}
    [] IsObj(v) -> UNION {{<<name>> \o path : path \in LeafPaths(v.fields[name])} : name \in DOMAIN v.fields}
    [] OTHER -> {<<>>}

\* The paths of the leaves that came in through an input.
RECURSIVE InputLeaves(_, _)
InputLeaves(v, inputs) ==
  CASE IsExpression(v) -> LET known == knownRouteCallValue(v, inputs)
                          IN IF known = Undefined THEN {} ELSE LeafPaths(known)
    [] IsArr(v) -> UNION {{<<ToString(i - 1)>> \o path : path \in InputLeaves(v.items[i], inputs)} : i \in DOMAIN v.items}
    [] IsObj(v) -> UNION {{<<name>> \o path : path \in InputLeaves(v.fields[name], inputs)} : name \in DOMAIN v.fields}
    [] OTHER -> {}

\* Mutated form of OwnedByInput: the owner of the whole argument is not looked at.
OwnedByLeaf(v, inputs, path) == path \in InputLeaves(v, inputs)

\* knownRouteCallSource: a path that is no leaf has the owner of the whole argument.
OwnedByInput(v, inputs, path) == IsExpression(v) \/ path \in InputLeaves(v, inputs)
=============================================================================
