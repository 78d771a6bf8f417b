------------------------------ MODULE CamViews ------------------------------
(***************************************************************************)
(* A publication with its UI: CamRoutes, where what a contract answers is   *)
(* rendered (ui-resolution.ts), the user edits the text fields              *)
(* (updateState of session.ts) and presses the buttons (interactions.ts),   *)
(* each of which leads to a route.  What conformance says of the UI before  *)
(* publication stands beside what becomes of it.                            *)
(*                                                                         *)
(* The ui of a publication is a function from the names of its nodes to     *)
(* them (CamScreen); its nodes, for CamRoutes, are what they require.       *)
(***************************************************************************)
EXTENDS CamTypeflow

CONSTANTS StateTexts       \* bound: what a user may type

VARIABLES
  uiIssues,                \* what conformance says of the UI
  state, screen,           \* currentView: the state, and what is rendered, <<Failed>> after an error
  pressed                  \* the last button: the route it stood on, what was written for it

viewVars == <<uiIssues, state, screen, pressed>>

ViewInit == Init /\ uiIssues = {} /\ state = Undefined /\ screen = <<>> /\ pressed = None

CheckView == Check /\ uiIssues' = UiIssues(pub) /\ UNCHANGED <<state, screen, pressed>>

\* parseUi is part of the loading.
LoadView ==
  /\ \/ parseUi(pub.ui) /\ Load
     \/ /\ ~ parseUi(pub.ui) /\ phase = "checked" /\ phase' = "refused" /\ account' \in {None, Account}
        /\ UNCHANGED <<pub, issues, route, from, inputs, sent, raw, outputs, failure>>
  /\ UNCHANGED viewVars

\* The end of load, navigate of the session, and a button of a screen that is not looked at.
OpenView == Open /\ UNCHANGED viewVars
ContinueView == Continue /\ UNCHANGED viewVars

\* uiContext, and what a read route continues to with its arguments.
UiContext(outs, text) == Within(Context(inputs, outs, account), [state |-> text])
RootNode == pub.routes[route].then.function
RootArgs(outs) == ThenArgs(pub.routes[route], inputs, outs).fields

\* resolveViewerInitialUi.
InitialState(outs) == createInitialState(pub.ui, RootNode, RootArgs(outs), UiContext(outs, Obj(<<>>)))

\* resolveViewerCurrentUi.
CurrentUi(outs, text) ==
  resolveUiNode(pub.ui, RootNode, RootArgs(outs), UiContext(outs, text), pub.routes[route].then.args)
UiOfState(outs, text) == IF text = Failed THEN <<Failed>> ELSE CurrentUi(outs, text)
InitialUi(outs) == UiOfState(outs, InitialState(outs))

AnswerView ==
  /\ Answer
  /\ IF phase' = "shown" THEN state' = InitialState(outputs') /\ screen' = UiOfState(outputs', state')
     ELSE state' = Undefined /\ screen' = <<>>
  /\ UNCHANGED <<uiIssues, pressed>>

\* updateState, for one field: what cannot be rendered leaves everything as it was.
Edit(key, text) ==
  LET next == Obj((key :> Str(text)) @@ state.fields)
      rendered == CurrentUi(outputs, next)
  IN /\ phase = "shown" /\ Rendered(screen) /\ key \in InputsOf(screen)
     /\ Rendered(rendered) /\ state' = next /\ screen' = rendered
     /\ UNCHANGED <<vars, uiIssues, pressed>>

\* dispatchAction with interpretRenderedAction, for a button of the screen.
Press(button) ==
  LET name == button.function
  IN /\ phase = "shown" /\ from' = None
     /\ pressed' = [on |-> route, alone |-> Cardinality(ButtonsOf(screen)) = 1, written |-> button.written]
     /\ IF name \in DOMAIN pub.routes /\ pub.routes[name].kind = "write" THEN Dispatch(name, button.args)
        ELSE Navigate(name, button.args)
     /\ state' = Undefined /\ screen' = <<>> /\ UNCHANGED uiIssues

LeaveView == Leave /\ pressed' = None /\ state' = Undefined /\ screen' = <<>> /\ UNCHANGED uiIssues

ViewNext ==
  \/ CheckView \/ LoadView \/ OpenView \/ AnswerView \/ ContinueView \/ LeaveView
  \/ \E key \in Identifiers, text \in StateTexts : Edit(key, text)
  \/ \E button \in (IF Rendered(screen) THEN ButtonsOf(screen) ELSE {}) : Press(button)

ViewSpec == ViewInit /\ [][ViewNext]_<<vars, viewVars>>

-----------------------------------------------------------------------------
(* Properties                                                               *)

Clean == issues = {} /\ uiIssues = {}
IsShown == phase = "shown" /\ Rendered(screen)

\* The UI reads the arguments of its nodes and nothing else, and the state in its buttons:
\* of the rest nothing is known before publication.
RECURSIVE ReadsOf(_)
ReadsOf(node) ==
  collectExpressionReferences(Obj(node.props)).references \cup
  (IF node.state = None THEN {} ELSE collectExpressionReferences(Arr(<<node.state.key, node.state.defaultValue>>)).references) \cup
  (IF node.call = None THEN {} ELSE collectExpressionReferences(Arr(<<node.call.function, Obj(node.call.args)>>)).references
                                    \ (IF node.element = "Button" THEN {ref \in {References[s] : s \in DOMAIN References} : ref.root = "state"} ELSE {})) \cup
  UNION {ReadsOf(node.children[i]) : i \in DOMAIN node.children}

ReadsItsArguments ==
  \A name \in DOMAIN pub.ui : \A ref \in ReadsOf(pub.ui[name]) : ref.root \in Range(pub.ui[name].requires)

(* A route conformance has nothing to say against can be shown: the UI loads, *)
(* and where a screen fails, there is an answer and an account it would have  *)
(* been rendered for.                                                         *)
CleanViewsCanBeShown ==
  LET fn == RuntimeFunction(Declared)
      Answers ==
        CASE Len(fn.outputs) = 0 -> {Undefined}
          [] Len(fn.outputs) = 1 -> Raws(fn.outputs[1])
          [] OTHER -> {Arr(<<v, w>>) : v \in Raws(fn.outputs[1]), w \in Raws(fn.outputs[2])}
      Renders(outs) == ThenArgs(Declared, inputs, outs) # Undefined /\ Rendered(InitialUi(outs))
  IN /\ Clean => phase # "refused"
     /\ Clean /\ ReadsItsArguments /\ phase = "shown" /\ ~ Rendered(screen) =>
          \E answer \in Answers : Renders(normalizeRouteResult(answer, fn.outputs))

\* The faults of a route that are facts about its screen, and those about its buttons.
ScreenFaults == {"missing", "cycle", "duplicate", "root", "key", "default", "address", "target", "names", "state"}
ButtonFaults == {"button-target", "button-names", "button-abi"}

(* What conformance reports of a route or of its screen is a proven fact: no  *)
(* answer, input or account renders the screen, and a button it reports never *)
(* gets to the contract (typeflow.ts).                                        *)
ReportedNeverHappens ==
  /\ ReportedNeverRuns
  /\ IsShown => \A fault \in ScreenFaults : Issue("typeflow", route, fault) \notin uiIssues
  /\ pressed # None /\ phase \in {"called", "sent"} /\ from = None =>
       (pressed.alone => \A fault \in ButtonFaults : Issue("typeflow", pressed.on, fault) \notin uiIssues)

(* The screen is the screen of the state: it has a field for every key of it  *)
(* and no other, however it was put together, and an edit that cannot be      *)
(* rendered leaves no trace.                                                  *)
ScreenIsOfTheState ==
  IsShown => DOMAIN state.fields = InputsOf(screen) /\ screen = CurrentUi(outputs, state)

(* A button conformance has nothing to say against, whose route is written    *)
(* out, leads to that route with its inputs; where the call fails, an         *)
(* argument at fault holds something only the user or the contract knows.     *)
ClosedPressesSucceed ==
  Clean /\ pressed # None /\ from = None /\ phase = "failed" /\ ~ IsExpression(pressed.written.function) =>
    /\ failure \notin {"kind", "inputs"}
    /\ failure \in {"unresolved", "argument"} =>
         \A name \in FailingArgs :
           \E ref \in collectExpressionReferences(Declared.call.args[name]).references :
             IF ref.root = "inputs" /\ ref.path # <<>>
             THEN collectExpressionReferences(pressed.written.args[ref.path[1]]).references # {}
             ELSE IsOpenRef(ref)

(* Data is never taken for an expression: what a contract answered goes       *)
(* through the nodes to the buttons as it is, and what a user, a chain or     *)
(* another route gave for an input is sent as it is (resolve.ts 95-110,       *)
(* expressions.ts 178-228).                                                   *)
DataIsNeverResolved ==
  /\ InputsAreData
  /\ IsShown => \A button \in ButtonsOf(screen) : \A name \in DOMAIN button.args :
       LET v == button.written.args[name]
       IN IsExpression(v) /\ References[v.s].root = "outputs" =>
            button.args[name] = rawValueAtSegments(Arr(outputs), References[v.s].path)
=============================================================================
