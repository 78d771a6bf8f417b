--------------------------- MODULE ViewerSession ---------------------------
(***************************************************************************)
(* The CAM viewer session of js/packages/cam-viewer/src/session.ts.        *)
(*                                                                         *)
(* A session keeps the account it acts for, the CAM it has loaded and the  *)
(* view it shows.  Its asynchronous operations (load, navigate,            *)
(* setAccount and the dispatch of a button that navigates) read some of    *)
(* that state, await the chain, and write the rest when the answer         *)
(* arrives; updateState and the dispatch of a write button are             *)
(* synchronous.  JavaScript runs one handler at a time, so a step here is  *)
(* the code between two awaits, and the calls that are awaiting an answer  *)
(* are the state variable pendingCalls.                                    *)
(***************************************************************************)
EXTENDS Integers

CONSTANTS
  Accounts,        \* addresses a host may select
  NoAccount,       \* `undefined`: an anonymous session
  InitialAccount,  \* the account the session was created with
  ReadRoutes,      \* routes of kind "read": they lead to a view
  WriteRoutes,     \* routes of kind "write": they prepare a contract call
  Entry,           \* the CAM's entry route
  AccountRoutes,   \* routes for which routeRequiresAccount holds
  AccountScreens,  \* read routes whose continuation or UI reads $account
  FieldRoutes,     \* read routes whose UI renders an input
  Links,           \* Links[r][a]: the routes of the buttons that the view of r
                   \* shows when the contract was read for account a
  Texts,           \* values of an input field
  Blank,           \* the initial value of an input field
  Calls,           \* slots for calls in progress at the same time
  Overlap,         \* may the host call again before the last call settled?
  MaxLoads,        \* bound: how often the host calls load
  MaxCams,         \* bound: how many CAMs the chain publishes
  None             \* no view, no call

Routes == ReadRoutes \cup WriteRoutes
Actors == Accounts \cup {NoAccount}
Cams   == 1..MaxCams

ASSUME SessionAssumption ==
  /\ InitialAccount \in Actors
  /\ NoAccount \notin Accounts
  /\ ReadRoutes \cap WriteRoutes = {}
  /\ Entry \in ReadRoutes
  /\ AccountRoutes \subseteq Routes
  /\ AccountScreens \subseteq ReadRoutes
  /\ FieldRoutes \subseteq ReadRoutes
  /\ Links \in [ReadRoutes -> [Actors -> SUBSET Routes]]
  /\ Blank \in Texts
  /\ Overlap \in BOOLEAN
  /\ MaxLoads \in Nat /\ MaxCams \in Nat \ {0}

\* A view: the route and its inputs, the field the user edits, whose answer the
\* contract gave (reader, with cam it stands for `values`) and the account its
\* UI was resolved with (shownTo).
Views ==
  [cam: Cams, route: ReadRoutes, inputs: Texts, state: Texts,
   reader: Actors, shownTo: Actors]

\* A button's call, resolved against the view it is rendered in.
Buttons == [route: Routes, inputs: Texts, actor: Actors]

PreparedCalls == [button: Buttons, account: Actors, cam: Cams]

\* A call to load that has not yet reached its first view.
LoadCalls ==
  [op: {"load"}, stage: {"host"}, cam: {0}] \cup
  [op: {"load"}, stage: {"contracts", "ui"}, cam: Cams]

\* A call that awaits the answer of a read route, with what its closure holds.
ReadCalls ==
  [op: {"load", "navigate", "setAccount"}, stage: {"read"}, cam: Cams,
   route: ReadRoutes, inputs: Texts, account: Actors,
   previousAccount: Actors, view: Views \cup {None}]

ASSUME NoneAssumption ==
  None \notin Views /\ None \notin LoadCalls /\ None \notin ReadCalls /\ None \notin PreparedCalls

VARIABLES
  account,       \* the session's `account`
  loadedState,   \* the CAM it has loaded, 0 before load
  currentView,   \* the session's `currentView`, None before load
  pendingCalls,  \* per slot, the call that awaits an answer
  lastCall,      \* the contract call that dispatchAction returned last
  publishedCam,  \* the CAM the host contract serves now (environment)
  loads          \* how often load was called

sessionVars == <<account, loadedState, currentView, pendingCalls, lastCall>>
vars == <<account, loadedState, currentView, pendingCalls, lastCall, publishedCam, loads>>

Init ==
  /\ account = InitialAccount
  /\ loadedState = 0
  /\ currentView = None
  /\ pendingCalls = [q \in Calls |-> None]
  /\ lastCall = None
  /\ publishedCam = 1
  /\ loads = 0

-----------------------------------------------------------------------------
(* What the code computes between two awaits.                              *)

Idle == \A q \in Calls : pendingCalls[q] = None

\* A host that awaits each call before the next one only calls when Idle.
MayCall == Overlap \/ Idle
FreeSlot(q) == MayCall /\ pendingCalls[q] = None

\* assertViewerRouteAccountAvailable
AccountAvailable(route, actor) == actor = NoAccount => route \notin AccountRoutes

\* The continuation and the UI resolve: they throw at a $account that is missing.
CanShow(route, actor) == actor = NoAccount => route \notin AccountScreens

RenderedButtons(view) ==
  {[route |-> r, inputs |-> view.state, actor |-> view.shownTo] :
     r \in Links[view.route][view.reader]}

\* resolveViewerReadRoute after the answer: the view belongs to the account that
\* was captured when the read began.
ResolvedView(call) ==
  [cam |-> call.cam, route |-> call.route, inputs |-> call.inputs, state |-> Blank,
   reader |-> call.account, shownTo |-> call.account]

\* resolveLoadedView up to its await.
ReadCall(op, cam, route, inputs, actor, view) ==
  [op |-> op, stage |-> "read", cam |-> cam, route |-> route, inputs |-> inputs,
   account |-> actor, previousAccount |-> account, view |-> view]

\* Mutated form of BeginRead: the published CAM instead of the loaded one.
BeginReadOfPublishedCam(q, op, route, inputs, actor, view) ==
  /\ route \in ReadRoutes
  /\ AccountAvailable(route, actor)
  /\ pendingCalls' = [pendingCalls EXCEPT ![q] = ReadCall(op, publishedCam, route, inputs, actor, view)]

BeginRead(q, op, route, inputs, actor, view) ==
  /\ route \in ReadRoutes
  /\ AccountAvailable(route, actor)
  /\ pendingCalls' = [pendingCalls EXCEPT ![q] = ReadCall(op, loadedState, route, inputs, actor, view)]

Settled(q) == pendingCalls' = [pendingCalls EXCEPT ![q] = None]

-----------------------------------------------------------------------------
(* load                                                                     *)

Load(q) ==
  /\ FreeSlot(q)
  /\ loads < MaxLoads
  /\ loads' = loads + 1
  /\ pendingCalls' = [pendingCalls EXCEPT ![q] = [op |-> "load", stage |-> "host", cam |-> 0]]
  /\ UNCHANGED <<account, loadedState, currentView, lastCall, publishedCam>>

Awaits(q, stage) == pendingCalls[q] # None /\ pendingCalls[q].stage = stage

\* loadCamFromHost answers with the CAM that is published now.
LoadHost(q) ==
  /\ Awaits(q, "host")
  /\ pendingCalls' = [pendingCalls EXCEPT ![q] = [op |-> "load", stage |-> "contracts", cam |-> publishedCam]]
  /\ UNCHANGED <<account, loadedState, currentView, lastCall, publishedCam, loads>>

\* resolveCamContracts answers; the UI resource is asked for.
LoadContracts(q) ==
  /\ Awaits(q, "contracts")
  /\ pendingCalls' =
       [pendingCalls EXCEPT ![q] = [op |-> "load", stage |-> "ui", cam |-> pendingCalls[q].cam]]
  /\ UNCHANGED <<account, loadedState, currentView, lastCall, publishedCam, loads>>

\* Mutated form of LoadUi: the CAM is installed before its first view is read.
LoadUiInstallingCam(q) ==
  /\ Awaits(q, "ui")
  /\ AccountAvailable(Entry, account)
  /\ loadedState' = pendingCalls[q].cam
  /\ pendingCalls' =
       [pendingCalls EXCEPT ![q] = ReadCall("load", pendingCalls[q].cam, Entry, Blank, account, None)]
  /\ UNCHANGED <<account, currentView, lastCall, publishedCam, loads>>

\* loadUi answers; the entry route is read for the account of this moment.
LoadUi(q) ==
  /\ Awaits(q, "ui")
  /\ AccountAvailable(Entry, account)
  /\ pendingCalls' =
       [pendingCalls EXCEPT ![q] = ReadCall("load", pendingCalls[q].cam, Entry, Blank, account, None)]
  /\ UNCHANGED <<account, loadedState, currentView, lastCall, publishedCam, loads>>

-----------------------------------------------------------------------------
(* navigate, setAccount, updateState, dispatchAction                        *)

Navigate(q, route, inputs) ==
  /\ FreeSlot(q)
  /\ loadedState # 0
  /\ BeginRead(q, "navigate", route, inputs, account, None)
  /\ UNCHANGED <<account, loadedState, currentView, lastCall, publishedCam, loads>>

\* Mutated form of SetAccount: the view is not read again.
SetAccountOnly(q, actor) ==
  /\ FreeSlot(q)
  /\ currentView # None
  /\ account' = actor
  /\ UNCHANGED <<loadedState, currentView, pendingCalls, lastCall, publishedCam, loads>>

\* The account is replaced before the view is read again.
SetAccount(q, actor) ==
  /\ FreeSlot(q)
  /\ currentView # None
  /\ account' = actor
  /\ BeginRead(q, "setAccount", currentView.route, currentView.inputs, actor, currentView)
  /\ UNCHANGED <<loadedState, currentView, lastCall, publishedCam, loads>>

\* The UI is resolved again, with the values the view holds and the account of
\* this moment.  That the route's calls need an account is not looked at again.
UpdateState(text) ==
  /\ MayCall
  /\ currentView # None
  /\ currentView.route \in FieldRoutes
  /\ CanShow(currentView.route, account)
  /\ currentView' = [currentView EXCEPT !.state = text, !.shownTo = account]
  /\ UNCHANGED <<account, loadedState, pendingCalls, lastCall, publishedCam, loads>>

\* assertActionIsRendered: the button must be one of the current view's.
MayDispatch(button) ==
  /\ MayCall
  /\ loadedState # 0
  /\ currentView # None
  /\ button \in RenderedButtons(currentView)

DispatchRead(q, button) ==
  /\ MayDispatch(button)
  /\ pendingCalls[q] = None
  /\ BeginRead(q, "navigate", button.route, button.inputs, account, None)
  /\ UNCHANGED <<account, loadedState, currentView, lastCall, publishedCam, loads>>

\* prepareViewerContractCall: the call is resolved with the account and the CAM
\* of this moment; the button's arguments were resolved with the view.
DispatchWrite(button) ==
  /\ MayDispatch(button)
  /\ button.route \in WriteRoutes
  /\ AccountAvailable(button.route, account)
  /\ lastCall' = [button |-> button, account |-> account, cam |-> loadedState]
  /\ UNCHANGED <<account, loadedState, currentView, pendingCalls, publishedCam, loads>>

-----------------------------------------------------------------------------
(* The answer of a read route, and the failures                             *)

\* The view is resolved for the captured account.  load publishes its CAM and its
\* first view together; every other read replaces the view only.
ReadDone(q) ==
  /\ Awaits(q, "read")
  /\ CanShow(pendingCalls[q].route, pendingCalls[q].account)
  /\ currentView' = ResolvedView(pendingCalls[q])
  /\ loadedState' = IF pendingCalls[q].op = "load" THEN pendingCalls[q].cam ELSE loadedState
  /\ Settled(q)
  /\ UNCHANGED <<account, lastCall, publishedCam, loads>>

\* Mutated forms of CallFails: no rollback; rollback to the session's first
\* account; load tries again for ever.
CallFailsKeepingAccount(q) ==
  /\ pendingCalls[q] # None
  /\ Settled(q)
  /\ UNCHANGED <<account, loadedState, currentView, lastCall, publishedCam, loads>>

CallFailsToInitialAccount(q) ==
  /\ pendingCalls[q] # None
  /\ account' = IF pendingCalls[q].op = "setAccount" THEN InitialAccount ELSE account
  /\ Settled(q)
  /\ UNCHANGED <<loadedState, currentView, lastCall, publishedCam, loads>>

CallFailsRetryingLoad(q) ==
  /\ pendingCalls[q] # None
  /\ account' = IF pendingCalls[q].op = "setAccount" THEN pendingCalls[q].previousAccount ELSE account
  /\ pendingCalls' =
       [pendingCalls EXCEPT
          ![q] = IF @.op = "load" THEN [op |-> "load", stage |-> "host", cam |-> 0] ELSE None]
  /\ UNCHANGED <<loadedState, currentView, lastCall, publishedCam, loads>>

\* A failed setAccount puts back the account it replaced; every other call that
\* fails leaves the session as it is.
CallFails(q) ==
  /\ pendingCalls[q] # None
  /\ account' = IF pendingCalls[q].op = "setAccount" THEN pendingCalls[q].previousAccount ELSE account
  /\ Settled(q)
  /\ UNCHANGED <<loadedState, currentView, lastCall, publishedCam, loads>>

\* The owner of the host contract publishes another CAM.
Publish ==
  /\ publishedCam < MaxCams
  /\ publishedCam' = publishedCam + 1
  /\ UNCHANGED <<sessionVars, loads>>

Answer(q) == LoadHost(q) \/ LoadContracts(q) \/ LoadUi(q) \/ ReadDone(q) \/ CallFails(q)

Next ==
  \/ \E q \in Calls : Load(q) \/ LoadHost(q) \/ LoadContracts(q) \/ LoadUi(q) \/ ReadDone(q) \/ CallFails(q)
  \/ \E q \in Calls, route \in ReadRoutes, inputs \in Texts : Navigate(q, route, inputs)
  \/ \E q \in Calls, actor \in Actors : SetAccount(q, actor)
  \/ \E text \in Texts : UpdateState(text)
  \/ \E q \in Calls, button \in Buttons : DispatchRead(q, button)
  \/ \E button \in Buttons : DispatchWrite(button)
  \/ Publish

Spec == Init /\ [][Next]_vars

\* Every request is answered or fails: the RPC transport gives up on its own.
FairSpec == Spec /\ \A q \in Calls : WF_vars(Answer(q))

-----------------------------------------------------------------------------
(* Properties                                                               *)

TypeOK ==
  /\ account \in Actors
  /\ loadedState \in Cams \cup {0}
  /\ currentView \in Views \cup {None}
  /\ pendingCalls \in [Calls -> LoadCalls \cup ReadCalls \cup {None}]
  /\ lastCall \in PreparedCalls \cup {None}
  /\ publishedCam \in Cams
  /\ loads \in 0..MaxLoads

\* The CAM and the view appear together: there is a view exactly when a CAM is
\* loaded, and no read of a view is in flight before that except load's own
\* (session.ts 118-130, 133-135, 206-207).
LoadIsAtomic ==
  /\ currentView # None <=> loadedState # 0
  /\ \A q \in Calls :
       pendingCalls[q] # None /\ pendingCalls[q].op # "load" => loadedState # 0

\* The values of a view of a route that needs an account were read for an
\* account, whatever setAccount did while the read was in flight
\* (route-preflight.ts 7-19, read-resolution.ts 44-84).  That they are shown to
\* one is only so where the screen itself reads $account: an edit resolves the
\* others for an anonymous session too (session.ts 154-178, ui-resolution.ts 70-136).
AccountRoutesAreReadForAnAccount ==
  currentView # None =>
    /\ currentView.route \in AccountRoutes \cup AccountScreens => currentView.reader # NoAccount
    /\ currentView.route \in AccountScreens => currentView.shownTo # NoAccount

\* A session that nobody is waiting for shows the view of its own account: the
\* contract was read for it and the UI was resolved with it
\* (session.ts 138-152, 169, 215-231).
IdleViewIsTheAccounts ==
  Idle /\ currentView # None =>
    currentView.reader = account /\ currentView.shownTo = account

\* The view belongs to the CAM the session has loaded, so a button is
\* interpreted against the manifest that rendered it (session.ts 127-128,
\* 180-184, 206-212).
ViewIsOfLoadedCam ==
  currentView # None => currentView.cam = loadedState

\* A prepared call acts for the account whose view offered the button, and its
\* arguments were resolved for that account too (session.ts 180-204).
CallsActForTheirView ==
  [][lastCall' # lastCall =>
       /\ lastCall'.account = currentView.reader
       /\ lastCall'.button.actor = lastCall'.account]_vars

\* A failed setAccount leaves a snapshot the session had: the one before the
\* call or the one before the failure (session.ts 148-151; session.test.ts,
\* "setAccount reload failures preserve the previous loaded snapshot").
FailureKeepsASnapshot ==
  [][\A q \in Calls :
       pendingCalls[q] # None /\ CallFails(q) /\ pendingCalls[q].op = "setAccount" =>
         <<account', currentView'>> \in
           {<<pendingCalls[q].previousAccount, pendingCalls[q].view>>, <<account, currentView>>}]_vars

\* No call hangs: each one settles (FairSpec).
CallsSettle == \A q \in Calls : pendingCalls[q] # None ~> pendingCalls[q] = None
=============================================================================
