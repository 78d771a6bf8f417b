---------------------------- MODULE CamWebProofs ----------------------------
(***************************************************************************)
(* Theorems about the viewer session and the web application, for every    *)
(* CAM, every set of accounts, any number of calls and handlers at a time  *)
(* and every bound.                                                        *)
(*                                                                         *)
(* The application takes only steps that the session's specification       *)
(* allows, so what is proved of the session with overlapping calls holds   *)
(* in the application.  For a user who leaves the page alone while a       *)
(* wallet connects (ConnectIsModal) CurrentInv adds what every handler     *)
(* still knows of the screen when its await ends: its revision tells       *)
(* whether what it captured is what is shown.                              *)
(***************************************************************************)
EXTENDS CamWeb, TLAPS

-----------------------------------------------------------------------------
(* The session.  What its calls in flight are doing.                       *)

InRead(q) == pendingCalls[q] # None /\ pendingCalls[q].stage = "read"
InSetAccount(q) == pendingCalls[q] # None /\ pendingCalls[q].op = "setAccount"
InLoad(q) == pendingCalls[q] # None /\ pendingCalls[q].op = "load"

-----------------------------------------------------------------------------
(* Type correctness.  A read captures loadedState as its CAM, so the type   *)
(* of pendingCalls needs to know that nothing is read before a load.        *)

TypeInv == TypeOK /\ LoadIsAtomic

LEMMA TypeInit == Init => TypeInv
BY SessionAssumption DEF Init, TypeInv, TypeOK, LoadIsAtomic, Cams, Actors

LEMMA TypeNext == TypeInv /\ [Next]_vars => TypeInv'
<1> SUFFICES ASSUME TypeInv, [Next]_vars PROVE TypeInv'
  OBVIOUS
<1> USE SessionAssumption, NoneAssumption DEF TypeInv, TypeOK, LoadIsAtomic
<1>1. ASSUME NEW q \in Calls, Load(q) PROVE TypeInv'
  BY <1>1 DEF Load, FreeSlot, LoadCalls
<1>2. ASSUME NEW q \in Calls, LoadHost(q) PROVE TypeInv'
  BY <1>2 DEF LoadHost, Awaits, LoadCalls, ReadCalls
<1>3. ASSUME NEW q \in Calls, LoadContracts(q) PROVE TypeInv'
  BY <1>3 DEF LoadContracts, Awaits, LoadCalls, ReadCalls
<1>4. ASSUME NEW q \in Calls, LoadUi(q) PROVE TypeInv'
  BY <1>4 DEF LoadUi, Awaits, ReadCall, LoadCalls, ReadCalls
<1>5. ASSUME NEW q \in Calls, ReadDone(q) PROVE TypeInv'
  BY <1>5 DEF ReadDone, Awaits, Settled, ResolvedView, Views, LoadCalls, ReadCalls, Cams
<1>6. ASSUME NEW q \in Calls, CallFails(q) PROVE TypeInv'
  BY <1>6 DEF CallFails, Settled, LoadCalls, ReadCalls
<1>7. ASSUME NEW q \in Calls, NEW route \in ReadRoutes, NEW inputs \in Texts,
             Navigate(q, route, inputs)
      PROVE  TypeInv'
  BY <1>7 DEF Navigate, FreeSlot, BeginRead, ReadCall, ReadCalls
<1>8. ASSUME NEW q \in Calls, NEW actor \in Actors, SetAccount(q, actor) PROVE TypeInv'
  BY <1>8 DEF SetAccount, FreeSlot, BeginRead, ReadCall, ReadCalls, Views
<1>9. ASSUME NEW text \in Texts, UpdateState(text) PROVE TypeInv'
  BY <1>9 DEF UpdateState, Views
<1>10. ASSUME NEW q \in Calls, NEW button \in Buttons, DispatchRead(q, button) PROVE TypeInv'
  BY <1>10 DEF DispatchRead, MayDispatch, BeginRead, ReadCall, ReadCalls, Buttons
<1>11. ASSUME NEW button \in Buttons, DispatchWrite(button) PROVE TypeInv'
  BY <1>11 DEF DispatchWrite, MayDispatch, PreparedCalls
<1>12. CASE Publish
  BY <1>12 DEF Publish, sessionVars, Cams
<1>13. CASE UNCHANGED vars
  BY <1>13 DEF vars
<1> QED
  BY <1>1, <1>2, <1>3, <1>4, <1>5, <1>6, <1>7, <1>8, <1>9, <1>10, <1>11, <1>12, <1>13 DEF Next

\* Every variable keeps its type, and a view exists exactly when a CAM is
\* loaded: load installs both in one step (session.ts 118-130).
THEOREM SessionTypeOK == Spec => []TypeOK
<1>1. TypeInv => TypeOK
  BY DEF TypeInv
<1> QED
  BY TypeInit, TypeNext, <1>1, PTL DEF Spec

\* The CAM and the view appear together and nothing but load is awaited before
\* they do (session.ts 118-135, 206-207).
THEOREM SessionLoadIsAtomic == Spec => []LoadIsAtomic
<1>1. TypeInv => LoadIsAtomic
  BY DEF TypeInv
<1> QED
  BY TypeInit, TypeNext, <1>1, PTL DEF Spec

-----------------------------------------------------------------------------
(* Account routes are read for an account, overlapping calls included: the  *)
(* account is checked and captured before the await, so the invariant ranges *)
(* over the reads in flight as well as over the view.  An edit looks only at  *)
(* what the screen needs, so whom a view is shown to is bounded by that alone. *)

ReadsAreAllowed ==
  \A q \in Calls : InRead(q) => AccountAvailable(pendingCalls[q].route, pendingCalls[q].account)

ViewIsAllowed ==
  currentView # None =>
    /\ AccountAvailable(currentView.route, currentView.reader)
    /\ CanShow(currentView.route, currentView.reader)
    /\ CanShow(currentView.route, currentView.shownTo)

AllowedInv == TypeInv /\ ReadsAreAllowed /\ ViewIsAllowed

LEMMA AllowedNext == AllowedInv /\ [Next]_vars => AllowedInv'
<1> SUFFICES ASSUME AllowedInv, [Next]_vars PROVE ReadsAreAllowed' /\ ViewIsAllowed'
  BY TypeNext DEF AllowedInv
<1> USE SessionAssumption, NoneAssumption
    DEF AllowedInv, TypeInv, TypeOK, ReadsAreAllowed, ViewIsAllowed, InRead, AccountAvailable, CanShow
<1>1. ASSUME NEW q \in Calls, Load(q) \/ LoadHost(q) \/ LoadContracts(q)
      PROVE  ReadsAreAllowed' /\ ViewIsAllowed'
  BY <1>1 DEF Load, LoadHost, LoadContracts
<1>2. ASSUME NEW q \in Calls, LoadUi(q) PROVE ReadsAreAllowed' /\ ViewIsAllowed'
  BY <1>2 DEF LoadUi, ReadCall
<1>3. ASSUME NEW q \in Calls, ReadDone(q) PROVE ReadsAreAllowed' /\ ViewIsAllowed'
  <2>1. ViewIsAllowed'
    BY <1>3 DEF ReadDone, Awaits, ResolvedView
  <2>2. ReadsAreAllowed'
    BY <1>3 DEF ReadDone, Settled
  <2> QED
    BY <2>1, <2>2
<1>4. ASSUME NEW q \in Calls, CallFails(q) PROVE ReadsAreAllowed' /\ ViewIsAllowed'
  BY <1>4 DEF CallFails, Settled
<1>5. ASSUME NEW q \in Calls, NEW route \in ReadRoutes, NEW inputs \in Texts,
             Navigate(q, route, inputs)
      PROVE  ReadsAreAllowed' /\ ViewIsAllowed'
  BY <1>5 DEF Navigate, BeginRead, ReadCall
<1>6. ASSUME NEW q \in Calls, NEW actor \in Actors, SetAccount(q, actor)
      PROVE  ReadsAreAllowed' /\ ViewIsAllowed'
  BY <1>6 DEF SetAccount, BeginRead, ReadCall
<1>7. ASSUME NEW text \in Texts, UpdateState(text) PROVE ReadsAreAllowed' /\ ViewIsAllowed'
  BY <1>7 DEF UpdateState, Views
<1>8. ASSUME NEW q \in Calls, NEW button \in Buttons, DispatchRead(q, button)
      PROVE  ReadsAreAllowed' /\ ViewIsAllowed'
  BY <1>8 DEF DispatchRead, BeginRead, ReadCall
<1>9. CASE UNCHANGED <<currentView, pendingCalls>>
  BY <1>9
<1> QED
  BY <1>1, <1>2, <1>3, <1>4, <1>5, <1>6, <1>7, <1>8, <1>9
     DEF Next, DispatchWrite, Publish, sessionVars, vars

\* A view of a route that needs an account, or whose screen reads one, was read for
\* an account, and such a screen is shown to one, whatever calls overlapped
\* (route-preflight.ts 7-19, read-resolution.ts 44-84, ui-resolution.ts 70-136).
THEOREM SessionAccountRoutes == Spec => []AccountRoutesAreReadForAnAccount
<1>1. Init => AllowedInv
  BY TypeInit DEF AllowedInv, ReadsAreAllowed, ViewIsAllowed, InRead, Init
<1>2. AllowedInv => AccountRoutesAreReadForAnAccount
  BY DEF AllowedInv, ViewIsAllowed, AccountAvailable, CanShow, AccountRoutesAreReadForAnAccount
<1> QED
  BY <1>1, <1>2, AllowedNext, PTL DEF Spec

-----------------------------------------------------------------------------
(* A host that awaits every call.  At most one call is in flight; what it    *)
(* captured is what the session still holds when the answer arrives.         *)

OneCall == \A p, q \in Calls : pendingCalls[p] # None /\ pendingCalls[q] # None => p = q

CapturedIsCurrent ==
  \A q \in Calls : InRead(q) =>
    /\ pendingCalls[q].account = account
    /\ pendingCalls[q].op # "load" => pendingCalls[q].cam = loadedState
    /\ pendingCalls[q].op = "setAccount" => pendingCalls[q].view = currentView

\* The account the view was read for: the one a pending setAccount would put
\* back, and the session's own otherwise.
ViewIsOfAccount(actor) ==
  currentView.reader = actor /\ currentView.shownTo = actor

ViewAgrees ==
  currentView # None =>
    /\ \A q \in Calls : InSetAccount(q) => ViewIsOfAccount(pendingCalls[q].previousAccount)
    /\ (\A q \in Calls : ~InSetAccount(q)) => ViewIsOfAccount(account)

AwaitedInv ==
  AllowedInv /\ OneCall /\ CapturedIsCurrent /\ ViewAgrees /\ ViewIsOfLoadedCam

LEMMA AwaitedNext ==
  ASSUME Overlap = FALSE PROVE AwaitedInv /\ [Next]_vars => AwaitedInv'
<1> DEFINE P == OneCall /\ CapturedIsCurrent /\ ViewAgrees /\ ViewIsOfLoadedCam
<1> SUFFICES ASSUME AwaitedInv, [Next]_vars PROVE P'
  BY AllowedNext DEF AwaitedInv
<1> USE SessionAssumption, NoneAssumption, Overlap = FALSE
    DEF AwaitedInv, AllowedInv, TypeInv, TypeOK, OneCall, CapturedIsCurrent, ViewAgrees,
        ViewIsOfAccount, ViewIsOfLoadedCam, InRead, InSetAccount
<1>1. ASSUME NEW q \in Calls, Load(q) PROVE P'
  BY <1>1 DEF Load, FreeSlot, MayCall, Idle
<1>2. ASSUME NEW q \in Calls, LoadHost(q) \/ LoadContracts(q) PROVE P'
  BY <1>2 DEF LoadHost, LoadContracts, Awaits, LoadCalls, ReadCalls
<1>3. ASSUME NEW q \in Calls, LoadUi(q) PROVE P'
  BY <1>3 DEF LoadUi, Awaits, ReadCall, LoadCalls, ReadCalls
<1>4. ASSUME NEW q \in Calls, ReadDone(q) PROVE P'
  BY <1>4 DEF ReadDone, Awaits, Settled, ResolvedView, LoadCalls, ReadCalls
<1>5. ASSUME NEW q \in Calls, CallFails(q) PROVE P'
  BY <1>5 DEF CallFails, Settled, LoadCalls, ReadCalls
<1>6. ASSUME NEW q \in Calls, NEW route \in ReadRoutes, NEW inputs \in Texts,
             Navigate(q, route, inputs)
      PROVE  P'
  BY <1>6 DEF Navigate, FreeSlot, MayCall, Idle, BeginRead, ReadCall
<1>7. ASSUME NEW q \in Calls, NEW actor \in Actors, SetAccount(q, actor) PROVE P'
  <2>1. \A p \in Calls : pendingCalls[p] = None
    BY <1>7 DEF SetAccount, FreeSlot, MayCall, Idle
  <2>2. ViewIsOfAccount(account) /\ currentView # None /\ UNCHANGED <<currentView, loadedState>>
    BY <1>7, <2>1 DEF SetAccount
  <2>3. /\ account' = actor
        /\ \A p \in Calls \ {q} : pendingCalls'[p] = None
        /\ pendingCalls'[q] = ReadCall("setAccount", loadedState, currentView.route,
                                      currentView.inputs, actor, currentView)
    BY <1>7, <2>1 DEF SetAccount, BeginRead
  <2> HIDE DEF TypeOK
  <2>4. /\ OneCall'
        /\ CapturedIsCurrent'
    BY <2>2, <2>3 DEF ReadCall
  <2>5. InSetAccount(q)' /\ pendingCalls'[q].previousAccount = account
    BY <2>3, <1>7 DEF ReadCall, SetAccount, BeginRead, ReadCalls, TypeOK, Views
  <2>6. ViewAgrees'
    BY <2>2, <2>3, <2>5
  <2> QED
    BY <2>2, <2>4, <2>6
<1>8. ASSUME NEW text \in Texts, UpdateState(text) PROVE P'
  BY <1>8 DEF UpdateState, MayCall, Idle, Views
<1>9. ASSUME NEW q \in Calls, NEW button \in Buttons, DispatchRead(q, button) PROVE P'
  BY <1>9 DEF DispatchRead, MayDispatch, MayCall, Idle, BeginRead, ReadCall
<1>10. CASE UNCHANGED <<account, loadedState, currentView, pendingCalls>>
  BY <1>10
<1> QED
  BY <1>1, <1>2, <1>3, <1>4, <1>5, <1>6, <1>7, <1>8, <1>9, <1>10
     DEF Next, DispatchWrite, Publish, sessionVars, vars

LEMMA AwaitedInit == Init => AwaitedInv
<1>1. Init => AllowedInv
  BY TypeInit DEF AllowedInv, ReadsAreAllowed, ViewIsAllowed, InRead, Init
<1> QED
  BY <1>1 DEF AwaitedInv, OneCall, CapturedIsCurrent, ViewAgrees, ViewIsOfLoadedCam,
              InRead, InSetAccount, Init

\* A host that awaits each call sees, between calls, the view of its own account
\* (session.ts 138-152, 169, 215-231).
THEOREM AwaitedIdleView ==
  ASSUME Overlap = FALSE PROVE Spec => []IdleViewIsTheAccounts
<1>1. AwaitedInv => IdleViewIsTheAccounts
  BY DEF AwaitedInv, ViewAgrees, ViewIsOfAccount, InSetAccount, Idle, IdleViewIsTheAccounts
<1> QED
  BY <1>1, AwaitedInit, AwaitedNext, PTL DEF Spec

\* A host that awaits each call may load again: its view is still of the CAM that
\* is loaded (session.ts 118-130, 206-212).
THEOREM AwaitedViewIsOfLoadedCam ==
  ASSUME Overlap = FALSE PROVE Spec => []ViewIsOfLoadedCam
<1>1. AwaitedInv => ViewIsOfLoadedCam
  BY DEF AwaitedInv
<1> QED
  BY <1>1, AwaitedInit, AwaitedNext, PTL DEF Spec

\* It prepares calls only for the account whose view offered the button
\* (session.ts 180-204).
THEOREM AwaitedCallsActForTheirView ==
  ASSUME Overlap = FALSE PROVE Spec => CallsActForTheirView
<1> DEFINE Acts == lastCall' # lastCall =>
                     /\ lastCall'.account = currentView.reader
                     /\ lastCall'.button.actor = lastCall'.account
<1>1. AwaitedInv /\ [Next]_vars => [Acts]_vars
  <2> SUFFICES ASSUME AwaitedInv, Next, lastCall' # lastCall
               PROVE  lastCall'.account = currentView.reader
                      /\ lastCall'.button.actor = lastCall'.account
    OBVIOUS
  <2>1. PICK button \in Buttons : DispatchWrite(button)
    BY DEF Next, Load, LoadHost, LoadContracts, LoadUi, ReadDone, CallFails, Navigate,
           SetAccount, UpdateState, DispatchRead, Publish, sessionVars
  <2>2. ViewIsOfAccount(account)
    BY <2>1 DEF DispatchWrite, MayDispatch, MayCall, Idle, AwaitedInv, ViewAgrees, InSetAccount
  <2>3. button.actor = currentView.shownTo
    BY <2>1 DEF DispatchWrite, MayDispatch, RenderedButtons
  <2> QED
    BY <2>1, <2>2, <2>3 DEF DispatchWrite, ViewIsOfAccount
<1> QED
  BY <1>1, AwaitedInit, AwaitedNext, PTL DEF Spec, CallsActForTheirView

\* A setAccount that fails leaves a snapshot the session had (session.ts
\* 144-151).
THEOREM AwaitedFailureKeepsASnapshot ==
  ASSUME Overlap = FALSE PROVE Spec => FailureKeepsASnapshot
<1> DEFINE Keeps == \A q \in Calls :
               pendingCalls[q] # None /\ CallFails(q) /\ pendingCalls[q].op = "setAccount" =>
                 <<account', currentView'>> \in
                   {<<pendingCalls[q].previousAccount, pendingCalls[q].view>>, <<account, currentView>>}
<1>1. AwaitedInv => Keeps
  BY DEF AwaitedInv, AllowedInv, TypeInv, TypeOK, CapturedIsCurrent, InRead, CallFails, LoadCalls, ReadCalls
<1> QED
  BY <1>1, AwaitedInit, AwaitedNext, PTL DEF Spec, FailureKeepsASnapshot

-----------------------------------------------------------------------------
(* A host that calls load once, as the web application does.  Its calls may  *)
(* overlap, but all of them read with the one CAM there is.                  *)

LoadedOnce ==
  /\ loadedState # 0 \/ (\E q \in Calls : InLoad(q)) => loads # 0
  /\ loadedState # 0 => \A q \in Calls : ~InLoad(q)
  /\ \A p, q \in Calls : InLoad(p) /\ InLoad(q) => p = q

ReadsUseLoadedCam ==
  \A q \in Calls : InRead(q) /\ pendingCalls[q].op # "load" => pendingCalls[q].cam = loadedState

OnceInv == TypeInv /\ LoadedOnce /\ ReadsUseLoadedCam /\ ViewIsOfLoadedCam

LEMMA OnceNext ==
  ASSUME MaxLoads <= 1 PROVE OnceInv /\ [Next]_vars => OnceInv'
<1> DEFINE P == LoadedOnce /\ ReadsUseLoadedCam /\ ViewIsOfLoadedCam
<1> SUFFICES ASSUME OnceInv, [Next]_vars PROVE P'
  BY TypeNext DEF OnceInv
<1> USE SessionAssumption, NoneAssumption, MaxLoads <= 1
    DEF OnceInv, TypeInv, TypeOK, LoadedOnce, ReadsUseLoadedCam, ViewIsOfLoadedCam, InRead, InLoad
<1>1. ASSUME NEW q \in Calls, Load(q) PROVE P'
  BY <1>1 DEF Load, FreeSlot
<1>2. ASSUME NEW q \in Calls, LoadHost(q) \/ LoadContracts(q) PROVE P'
  BY <1>2 DEF LoadHost, LoadContracts, Awaits, LoadCalls, ReadCalls
<1>3. ASSUME NEW q \in Calls, LoadUi(q) PROVE P'
  BY <1>3 DEF LoadUi, Awaits, ReadCall, LoadCalls, ReadCalls
<1>4. ASSUME NEW q \in Calls, ReadDone(q) PROVE P'
  BY <1>4 DEF ReadDone, Awaits, Settled, ResolvedView, LoadCalls, ReadCalls, LoadIsAtomic
<1>5. ASSUME NEW q \in Calls, CallFails(q) PROVE P'
  BY <1>5 DEF CallFails, Settled
<1>6. ASSUME NEW q \in Calls, NEW route \in ReadRoutes, NEW inputs \in Texts,
             Navigate(q, route, inputs)
      PROVE  P'
  BY <1>6 DEF Navigate, FreeSlot, BeginRead, ReadCall
<1>7. ASSUME NEW q \in Calls, NEW actor \in Actors, SetAccount(q, actor) PROVE P'
  BY <1>7 DEF SetAccount, FreeSlot, BeginRead, ReadCall
<1>8. ASSUME NEW text \in Texts, UpdateState(text) PROVE P'
  BY <1>8 DEF UpdateState, Views
<1>9. ASSUME NEW q \in Calls, NEW button \in Buttons, DispatchRead(q, button) PROVE P'
  BY <1>9 DEF DispatchRead, MayDispatch, BeginRead, ReadCall
<1>10. CASE UNCHANGED <<loadedState, currentView, pendingCalls, loads>>
  BY <1>10
<1> QED
  BY <1>1, <1>2, <1>3, <1>4, <1>5, <1>6, <1>7, <1>8, <1>9, <1>10
     DEF Next, DispatchWrite, Publish, sessionVars, vars

\* With one load the view always belongs to the CAM the session has loaded, so a
\* button is interpreted against the manifest that rendered it (session.ts
\* 127-128, 180-184, 206-212).
THEOREM OneLoadViewIsOfLoadedCam ==
  ASSUME MaxLoads <= 1 PROVE Spec => []ViewIsOfLoadedCam
<1>1. Init => OnceInv
  BY TypeInit DEF OnceInv, LoadedOnce, ReadsUseLoadedCam, ViewIsOfLoadedCam, InRead, InLoad, Init
<1>2. OnceInv => ViewIsOfLoadedCam
  BY DEF OnceInv
<1> QED
  BY <1>1, <1>2, OnceNext, PTL DEF Spec

-----------------------------------------------------------------------------
(* The application's own variables, and the one load                        *)

WebTypes ==
  /\ loadStatus \in {"loading", "ready", "failed"}
  /\ displayed \in Snapshots \cup {None}
  /\ loadStatus = "ready" <=> displayed # None
  /\ wallet \in Accounts \cup {None}
  /\ walletAccount \in Accounts
  /\ walletSwitches \in 0..MaxWalletSwitches
  /\ notice \in {"none", "error", "prepared", "connected", "busy", "sent", "confirmed", "failed"}
  /\ preparedCall \in PreparedCalls \cup {None}
  /\ sending \in BOOLEAN /\ sendingRef \in BOOLEAN
  /\ interactionRevision \in 0..MaxInteractions
  /\ sendRevision \in 0..MaxSends
  /\ handlers \in [Calls -> Handlers \cup {None}]

\* The load runs while the page is loading, and runs once; every other handler
\* runs when the page is ready.
OneLoad ==
  /\ \A p, q \in Calls : Runs(p, "load") /\ Runs(q, "load") => p = q
  /\ \A q \in Calls : Runs(q, "load") => loadStatus = "loading" /\ loads # 0
  /\ \A q \in Calls : handlers[q] # None /\ handlers[q].kind # "load" => loadStatus = "ready"

WebInv == TypeInv /\ WebTypes /\ OneLoad

\* The application starts with a session that starts.
LEMMA WebInitTyped == WebInit => WebInv
<1> SUFFICES ASSUME WebInit PROVE WebInv
  OBVIOUS
<1>1. TypeInv
  BY TypeInit DEF WebInit
<1>2. WebTypes
  <2>1. handlers \in [Calls -> Handlers \cup {None}]
    BY DEF WebInit
  <2>2. walletSwitches \in 0..MaxWalletSwitches
    BY WebAssumption DEF WebInit
  <2>3. interactionRevision \in 0..MaxInteractions /\ sendRevision \in 0..MaxSends
    BY WebAssumption DEF WebInit
  <2>4. loadStatus = "loading" /\ notice = "none"
    BY DEF WebInit
  <2>5. /\ displayed = None /\ wallet = None /\ walletAccount \in Accounts /\ preparedCall = None
        /\ sending = FALSE /\ sendingRef = FALSE
    BY DEF WebInit
  <2> QED
    BY <2>1, <2>2, <2>3, <2>4, <2>5 DEF WebTypes
<1>3. OneLoad
  BY DEF WebInit, OneLoad, Runs
<1> QED
  BY <1>1, <1>2, <1>3 DEF WebInv

\* A view that a read has just produced is a view.
LEMMA ReadShowsView ==
  ASSUME TypeInv, TypeInv', NEW q \in Calls, ReadDone(q)
  PROVE  NewSnapshot \in Snapshots
<1>1. pendingCalls[q] \in ReadCalls
  BY DEF TypeInv, TypeOK, ReadDone, Awaits, LoadCalls, ReadCalls
<1>2. currentView' \in Views
  BY <1>1, SessionAssumption
     DEF ReadDone, ResolvedView, Views, ReadCalls, TypeInv, TypeOK
<1> QED
  BY <1>2 DEF NewSnapshot, Snapshots, TypeInv, TypeOK

\* Every step of the application is a step of its session, or none.
LEMMA WebStepIsSessionStep == WebInv /\ [WebNext]_webVars => [Next]_vars
<1> SUFFICES ASSUME WebInv, [WebNext]_webVars PROVE [Next]_vars
  OBVIOUS
<1> USE WebAssumption, NoneIsNoHandler
<1>1. ASSUME NEW q \in Calls, StartLoad(q) \/ LoadGoesOn(q) \/ LoadEnds(q) \/ NavigateEnds(q)
      PROVE  [Next]_vars
  BY <1>1 DEF StartLoad, LoadGoesOn, LoadEnds, NavigateEnds, Next
<1>2. ASSUME NEW q \in Calls,
             PreflightEnds(q) \/ Connect(q) \/ WalletRefuses(q) \/ SendClick(q) \/ AccountChecked(q)
               \/ Simulated(q) \/ ChainSelected(q) \/ SubmissionFails(q)
               \/ Signed(q) \/ Diagnosed(q) \/ TransactionFails(q)
      PROVE  UNCHANGED vars
  BY <1>2 DEF PreflightEnds, Connect, WalletRefuses, SendClick, AccountChecked,
              Simulated, ChainSelected, SubmissionFails, Signed, Diagnosed, TransactionFails,
              ContinueOrAbort
<1>3. ASSUME NEW q \in Calls, WalletApproves(q) PROVE [Next]_vars
  BY <1>3 DEF WalletApproves, WebInv, WebTypes, Actors, Next
<1>4. ASSUME NEW q \in Calls, ConnectEnds(q) \/ ContinuationShown(q) \/ ContinuationFails(q)
      PROVE  [Next]_vars
  BY <1>4 DEF ConnectEnds, ContinuationShown, ContinuationFails, Next
<1>5. ASSUME NEW q \in Calls, Confirmed(q) PROVE [Next]_vars
  <2> DEFINE call == handlers[q].call
             then == Then[call.button.route]
  <2>1. CASE UNCHANGED vars
    BY <2>1
  <2>2. CASE Navigate(q, then, call.button.inputs)
    <3>1. handlers[q] \in SendHandlers
      BY <1>5 DEF Confirmed, Sends, Runs, WebInv, WebTypes, Handlers, LoadHandlers,
                  NavigateHandlers, PreflightHandlers, ConnectHandlers
    <3>2. call.button \in Buttons
      BY <3>1 DEF SendHandlers, PreparedCalls
    <3>3. then \in ReadRoutes /\ call.button.inputs \in Texts
      BY <2>2, <3>2 DEF Navigate, BeginRead, Buttons
    <3> QED
      BY <2>2, <3>3 DEF Next
  <2> QED
    BY <1>5, <2>1, <2>2 DEF Confirmed
<1>6. ASSUME NEW q \in Calls, NEW button \in Buttons, Dispatch(q, button) PROVE [Next]_vars
  BY <1>6 DEF Dispatch, Next
<1>7. ASSUME NEW text \in Texts, UpdateInput(text) PROVE [Next]_vars
  BY <1>7 DEF UpdateInput, Next
<1>8. ASSUME NEW actor \in Accounts, SwitchWalletAccount(actor) PROVE [Next]_vars
  BY <1>8 DEF SwitchWalletAccount
<1>9. CASE UNCHANGED webVars
  BY <1>9 DEF webVars
<1> QED
  BY <1>1, <1>2, <1>3, <1>4, <1>5, <1>6, <1>7, <1>8, <1>9 DEF WebNext

\* The session's invariant is kept, since the step is the session's.
LEMMA WebKeepsSession == WebInv /\ [WebNext]_webVars => TypeInv'
BY WebStepIsSessionStep, TypeNext DEF WebInv

\* A handler that is not the load starts, goes on or finishes.
LEMMA OtherHandler ==
  ASSUME WebInv, NEW q \in Calls, NEW h \in Handlers \cup {None},
         h # None => h.kind # "load" /\ loadStatus = "ready",
         handlers' = [handlers EXCEPT ![q] = h], loadStatus' = loadStatus, loads' = loads
  PROVE  OneLoad' /\ handlers' \in [Calls -> Handlers \cup {None}]
<1>1. handlers \in [Calls -> Handlers \cup {None}] /\ OneLoad
  BY DEF WebInv, WebTypes
<1>2. \A p \in Calls : Runs(p, "load")' => Runs(p, "load")
  BY <1>1 DEF Runs
<1>3. \A p \in Calls : (handlers[p] # None /\ handlers[p].kind # "load")' => loadStatus = "ready"
  BY <1>1 DEF OneLoad
<1> QED
  BY <1>1, <1>2, <1>3 DEF OneLoad

\* A submission that runs is typed, and runs when the page is ready.
LEMMA SubmissionTyped ==
  ASSUME WebInv, NEW q \in Calls, Runs(q, "send")
  PROVE  handlers[q] \in SendHandlers /\ loadStatus = "ready"
BY DEF WebInv, WebTypes, OneLoad, Runs, Handlers, LoadHandlers, NavigateHandlers,
       PreflightHandlers, ConnectHandlers, SendHandlers

\* A submission goes on or finishes.
LEMMA SubmissionStep ==
  ASSUME WebInv, NEW q \in Calls, Runs(q, "send"), loads' = loads,
         UNCHANGED <<loadStatus, wallet, interactionRevision, sendRevision, walletVars>>,
         displayed' \in Snapshots \/ displayed' = displayed,
         preparedCall' \in {None, preparedCall},
         notice' \in {"error", "sent", "confirmed", "failed", notice},
         sending' \in BOOLEAN, sendingRef' \in BOOLEAN,
         Finishes(q) \/ \E stage \in BeforeHash \cup AfterHash : GoesTo(q, stage)
  PROVE  WebTypes' /\ OneLoad'
<1>1. handlers[q] \in SendHandlers /\ loadStatus = "ready"
  BY SubmissionTyped
<1>2. OneLoad' /\ handlers' \in [Calls -> Handlers \cup {None}]
  <2>1. CASE Finishes(q)
    BY <2>1, OtherHandler DEF Finishes, Becomes
  <2>2. ASSUME NEW stage \in BeforeHash \cup AfterHash, GoesTo(q, stage)
        PROVE  OneLoad' /\ handlers' \in [Calls -> Handlers \cup {None}]
    <3>1. [handlers[q] EXCEPT !.stage = stage] \in SendHandlers
      BY <1>1 DEF SendHandlers
    <3>2. /\ [handlers[q] EXCEPT !.stage = stage] \in Handlers
          /\ [handlers[q] EXCEPT !.stage = stage].kind # "load"
      BY <3>1 DEF Handlers, SendHandlers
    <3> QED
      BY <1>1, <2>2, <3>2, OtherHandler DEF GoesTo, Becomes
  <2> QED
    BY <2>1, <2>2
<1>3. /\ displayed' \in Snapshots \cup {None}
      /\ loadStatus' = "ready" <=> displayed' # None
  BY <1>1, NoneIsNoHandler DEF WebInv, WebTypes
<1> QED
  BY <1>2, <1>3 DEF WebInv, WebTypes, walletVars

\* Every step of the application keeps its types and loads once.
LEMMA WebNextTyped == WebInv /\ [WebNext]_webVars => WebInv'
<1> SUFFICES ASSUME WebInv, [WebNext]_webVars PROVE WebTypes' /\ OneLoad'
  BY WebKeepsSession DEF WebInv
<1>0. /\ TypeInv /\ TypeInv' /\ WebTypes /\ OneLoad /\ WebInv
      /\ handlers \in [Calls -> Handlers \cup {None}]
  BY WebKeepsSession DEF WebInv, WebTypes
<1> USE WebAssumption, NoneIsNoHandler
        DEF WebTypes, screen, gates, walletVars, appVars, Becomes, Finishes
<1>1. ASSUME NEW q \in Calls, StartLoad(q) PROVE WebTypes' /\ OneLoad'
  <2>1. [kind |-> "load"] \in Handlers
    BY DEF Handlers, LoadHandlers
  <2>2. loads' # 0 /\ \A p \in Calls : ~Runs(p, "load")
    BY <1>0, <1>1 DEF StartLoad, Load, TypeInv, TypeOK, OneLoad
  <2> QED
    BY <1>0, <1>1, <2>1, <2>2 DEF StartLoad, OneLoad, Runs
<1>2. ASSUME NEW q \in Calls, LoadGoesOn(q) PROVE WebTypes' /\ OneLoad'
  <2>1. loads' = loads
    BY <1>2 DEF LoadGoesOn, LoadHost, LoadContracts, LoadUi
  <2> QED
    BY <1>0, <1>2, <2>1 DEF LoadGoesOn, OneLoad, Runs
<1>3. ASSUME NEW q \in Calls, LoadEnds(q) PROVE WebTypes' /\ OneLoad'
  <2>1. loadStatus = "loading" /\ displayed = None
    BY <1>0, <1>3 DEF LoadEnds, OneLoad
  <2>2. \A p \in Calls : handlers'[p] = None
    BY <1>0, <1>3, <2>1 DEF LoadEnds, OneLoad, Runs
  <2>3. OneLoad'
    BY <2>2 DEF OneLoad, Runs
  <2>4. CASE ReadDone(q) /\ loadStatus' = "ready" /\ displayed' = NewSnapshot
    BY <1>0, <1>3, <2>3, <2>4, ReadShowsView DEF LoadEnds
  <2>5. CASE loadStatus' = "failed" /\ displayed' = displayed
    BY <1>0, <1>3, <2>1, <2>3, <2>5 DEF LoadEnds
  <2> QED
    BY <1>3, <2>4, <2>5 DEF LoadEnds
<1>4. ASSUME NEW q \in Calls, NEW button \in Buttons, Dispatch(q, button)
      PROVE  WebTypes' /\ OneLoad'
  <2>1. interactionRevision' \in 0..MaxInteractions
    BY <1>0, <1>4 DEF Dispatch, NextInteraction
  <2>2. CASE UNCHANGED <<vars, handlers>>
    BY <1>0, <1>4, <2>1, <2>2 DEF Dispatch, vars, OneLoad, Runs
  <2>3. CASE DispatchRead(q, button)
             /\ Becomes(q, [kind |-> "navigate", revision |-> interactionRevision'])
    <3>1. [kind |-> "navigate", revision |-> interactionRevision'] \in Handlers
      BY <2>1 DEF Handlers, NavigateHandlers
    <3>2. OneLoad' /\ handlers' \in [Calls -> Handlers \cup {None}]
      BY <1>0, <1>4, <2>3, <3>1, OtherHandler DEF Dispatch, DispatchRead, UserActs
    <3> QED
      BY <1>0, <1>4, <2>1, <3>2 DEF Dispatch
  <2>4. CASE DispatchWrite(button)
             /\ Becomes(q, [kind |-> "preflight", revision |-> interactionRevision', call |-> lastCall'])
    <3>1. lastCall' \in PreparedCalls
      BY <1>0, <2>4, SessionAssumption DEF DispatchWrite, TypeInv, TypeOK, LoadIsAtomic, MayDispatch, PreparedCalls
    <3>2. [kind |-> "preflight", revision |-> interactionRevision', call |-> lastCall'] \in Handlers
      BY <2>1, <3>1 DEF Handlers, PreflightHandlers
    <3>3. OneLoad' /\ handlers' \in [Calls -> Handlers \cup {None}]
      BY <1>0, <1>4, <2>4, <3>2, OtherHandler DEF Dispatch, DispatchWrite, UserActs
    <3> QED
      BY <1>0, <1>4, <2>1, <3>3 DEF Dispatch
  <2> QED
    BY <1>4, <2>2, <2>3, <2>4 DEF Dispatch
<1>5. ASSUME NEW q \in Calls, NavigateEnds(q) PROVE WebTypes' /\ OneLoad'
  <2>1. loads' = loads
    BY <1>5 DEF NavigateEnds, ReadDone, CallFails
  <2>2. OneLoad' /\ handlers' \in [Calls -> Handlers \cup {None}]
    BY <1>0, <1>5, <2>1, OtherHandler DEF NavigateEnds
  <2>3. loadStatus = "ready"
    BY <1>0, <1>5 DEF NavigateEnds, OneLoad, Runs
  <2>4. displayed' \in Snapshots
    BY <1>0, <1>5, <2>3, ReadShowsView DEF NavigateEnds
  <2>5. notice' \in {"error", notice}
    BY <1>5 DEF NavigateEnds
  <2> QED
    BY <1>0, <1>5, <2>2, <2>3, <2>4, <2>5 DEF NavigateEnds
<1>6. ASSUME NEW q \in Calls, PreflightEnds(q) PROVE WebTypes' /\ OneLoad'
  <2>1. handlers[q].call \in PreparedCalls
    BY <1>0, <1>6 DEF PreflightEnds, Runs, Handlers, LoadHandlers, NavigateHandlers,
                      PreflightHandlers, ConnectHandlers, SendHandlers
  <2>2. OneLoad' /\ handlers' \in [Calls -> Handlers \cup {None}]
    BY <1>0, <1>6, OtherHandler DEF PreflightEnds, vars
  <2> QED
    BY <1>0, <1>6, <2>1, <2>2 DEF PreflightEnds
<1>7. ASSUME NEW text \in Texts, UpdateInput(text) PROVE WebTypes' /\ OneLoad'
  <2>1. interactionRevision' \in 0..MaxInteractions /\ loads' = loads
    BY <1>0, <1>7 DEF UpdateInput, NextInteraction, UpdateState, vars
  <2>2. OneLoad'
    BY <1>0, <1>7, <2>1 DEF UpdateInput, OneLoad, Runs
  <2>3. CASE UpdateState(text) /\ displayed' = NewSnapshot /\ notice' = notice
    <3>1. currentView' \in Views
      BY <1>0, <2>3 DEF UpdateState, TypeInv, TypeOK, Views
    <3>2. displayed' \in Snapshots
      BY <1>0, <2>3, <3>1 DEF NewSnapshot, Snapshots, TypeInv, TypeOK
    <3> QED
      BY <1>0, <1>7, <2>1, <2>2, <2>3, <3>2 DEF UpdateInput
  <2>4. CASE notice' = "error" /\ displayed' = displayed
    BY <1>0, <1>7, <2>1, <2>2, <2>4 DEF UpdateInput
  <2> QED
    BY <1>7, <2>3, <2>4 DEF UpdateInput
<1>8. ASSUME NEW q \in Calls, Connect(q) PROVE WebTypes' /\ OneLoad'
  <2>1. [kind |-> "connect", address |-> None] \in Handlers
    BY DEF Handlers, ConnectHandlers
  <2>2. OneLoad' /\ handlers' \in [Calls -> Handlers \cup {None}]
    BY <1>0, <1>8, <2>1, OtherHandler DEF Connect, UserActs, vars
  <2> QED
    BY <1>0, <1>8, <2>2 DEF Connect, NextInteraction
<1>9. ASSUME NEW q \in Calls, WalletApproves(q) PROVE WebTypes' /\ OneLoad'
  <2>1. [kind |-> "connect", address |-> walletAccount] \in Handlers /\ loadStatus = "ready"
    BY <1>0, <1>9 DEF WalletApproves, Handlers, ConnectHandlers, OneLoad, Runs
  <2>2. OneLoad' /\ handlers' \in [Calls -> Handlers \cup {None}]
    BY <1>0, <1>9, <2>1, OtherHandler DEF WalletApproves, SetAccount
  <2> QED
    BY <1>0, <1>9, <2>2 DEF WalletApproves
<1>10. ASSUME NEW q \in Calls, WalletRefuses(q) PROVE WebTypes' /\ OneLoad'
  <2>1. OneLoad' /\ handlers' \in [Calls -> Handlers \cup {None}]
    BY <1>0, <1>10, OtherHandler DEF WalletRefuses, vars
  <2> QED
    BY <1>0, <1>10, <2>1 DEF WalletRefuses
<1>11. ASSUME NEW q \in Calls, ConnectEnds(q) PROVE WebTypes' /\ OneLoad'
  <2>1. handlers[q].address \in Accounts /\ loadStatus = "ready"
    BY <1>0, <1>11 DEF ConnectEnds, Runs, OneLoad, Handlers, LoadHandlers, NavigateHandlers,
                       PreflightHandlers, ConnectHandlers, SendHandlers
  <2>2. loads' = loads
    BY <1>11 DEF ConnectEnds, ReadDone, CallFails
  <2>3. OneLoad' /\ handlers' \in [Calls -> Handlers \cup {None}]
    BY <1>0, <1>11, <2>2, OtherHandler DEF ConnectEnds
  <2>4. displayed' \in Snapshots
    BY <1>0, <1>11, <2>1, ReadShowsView DEF ConnectEnds
  <2> QED
    BY <1>0, <1>11, <2>1, <2>3, <2>4 DEF ConnectEnds
<1>12. ASSUME NEW actor \in Accounts, SwitchWalletAccount(actor) PROVE WebTypes' /\ OneLoad'
  BY <1>0, <1>12 DEF SwitchWalletAccount, OneLoad, Runs, vars
<1>13. ASSUME NEW q \in Calls, SendClick(q) PROVE WebTypes' /\ OneLoad'
  <2>1. CASE sendingRef
    BY <1>0, <1>13, <2>1 DEF SendClick, OneLoad, Runs, vars
  <2>2. CASE ~sendingRef
    <3> DEFINE h == [kind |-> "send", stage |-> "account", interaction |-> interactionRevision,
                     send |-> sendRevision', call |-> preparedCall, from |-> wallet]
    <3>1. sendRevision' \in 0..MaxSends
      BY <1>0, <1>13, <2>2 DEF SendClick
    <3>2. h \in Handlers /\ h.kind # "load"
      BY <1>0, <1>13, <3>1 DEF SendClick, Handlers, SendHandlers, BeforeHash
    <3>3. handlers' = [handlers EXCEPT ![q] = h]
      BY <1>13, <2>2 DEF SendClick
    <3> HIDE DEF h
    <3>4. OneLoad' /\ handlers' \in [Calls -> Handlers \cup {None}]
      BY <1>0, <1>13, <3>2, <3>3, OtherHandler DEF SendClick, UserActs, vars
    <3> QED
      BY <1>0, <1>13, <2>2, <3>1, <3>4 DEF SendClick
  <2> QED
    BY <1>13, <2>1, <2>2 DEF SendClick
<1>14. ASSUME NEW q \in Calls,
              AccountChecked(q) \/ Simulated(q) \/ ChainSelected(q)
       PROVE  WebTypes' /\ OneLoad'
  <2>1. PICK next \in {"simulate", "chain", "accountAgain", "signing"} : ContinueOrAbort(q, next)
    BY <1>14 DEF AccountChecked, Simulated, ChainSelected
  <2>2. Runs(q, "send")
    BY <1>14 DEF AccountChecked, Simulated, ChainSelected, Sends
  <2>3. next \in BeforeHash \cup AfterHash
    BY DEF BeforeHash
  <2> QED
    BY <1>0, <2>1, <2>2, <2>3, SubmissionStep DEF ContinueOrAbort, ReleaseSend, vars
<1>15. ASSUME NEW q \in Calls,
              SubmissionFails(q) \/ TransactionFails(q) \/ ContinuationFails(q)
       PROVE  WebTypes' /\ OneLoad'
  <2>1. SendThrows(q) /\ loads' = loads
    BY <1>15 DEF SubmissionFails, TransactionFails, ContinuationFails, CallFails, vars
  <2>2. /\ preparedCall' \in {None, preparedCall} /\ notice' \in {"error", "failed", notice}
        /\ sending' \in BOOLEAN /\ sendingRef' \in BOOLEAN /\ Runs(q, "send") /\ Finishes(q)
    BY <1>0, <2>1 DEF SendThrows, ReleaseSend
  <2> QED
    BY <1>0, <2>1, <2>2, SubmissionStep DEF SendThrows
<1>16. ASSUME NEW q \in Calls, Signed(q) \/ Diagnosed(q) PROVE WebTypes' /\ OneLoad'
  <2>1. Runs(q, "send") /\ "diagnose" \in AfterHash /\ "receipt" \in AfterHash
    BY <1>16 DEF Signed, Diagnosed, Sends, AfterHash
  <2> QED
    BY <1>0, <1>16, <2>1, SubmissionStep DEF Signed, Diagnosed, ReleaseSend, vars
<1>17. ASSUME NEW q \in Calls, Confirmed(q) PROVE WebTypes' /\ OneLoad'
  <2>1. Runs(q, "send") /\ "navigate" \in AfterHash /\ loads' = loads
    BY <1>17 DEF Confirmed, Sends, AfterHash, Navigate, vars
  <2>2. /\ sending' \in BOOLEAN /\ sendingRef' \in BOOLEAN
        /\ Finishes(q) \/ GoesTo(q, "navigate")
        /\ preparedCall' \in {None, preparedCall} /\ notice' \in {"confirmed", notice}
    BY <1>0, <1>17 DEF Confirmed, ReleaseSend
  <2> QED
    BY <1>0, <1>17, <2>1, <2>2, SubmissionStep DEF Confirmed
<1>18. ASSUME NEW q \in Calls, ContinuationShown(q) PROVE WebTypes' /\ OneLoad'
  <2>1. Runs(q, "send") /\ loads' = loads
    BY <1>18 DEF ContinuationShown, Sends, ReadDone
  <2>2. displayed' \in Snapshots \/ displayed' = displayed
    BY <1>0, <1>18, ReadShowsView DEF ContinuationShown
  <2> QED
    BY <1>0, <1>18, <2>1, <2>2, SubmissionStep DEF ContinuationShown, ReleaseSend
<1>19. CASE UNCHANGED webVars
  BY <1>0, <1>19 DEF webVars, vars, OneLoad, Runs
<1> QED
  BY <1>1, <1>2, <1>3, <1>4, <1>5, <1>6, <1>7, <1>8, <1>9, <1>10, <1>11, <1>12, <1>13, <1>14,
     <1>15, <1>16, <1>17, <1>18, <1>19 DEF WebNext

\* The application calls the session only as the session's specification says:
\* all that is proved of sessions with overlapping calls holds in it.
THEOREM WebUsesTheSession == WebSpec => Spec
<1>1. WebInit => Init
  BY DEF WebInit
<1> QED
  BY <1>1, WebInitTyped, WebNextTyped, WebStepIsSessionStep, PTL DEF WebSpec, Spec

\* Every variable of the application keeps its type, and the page is ready exactly
\* when it has something to show (App.tsx 59-148).
THEOREM WebKeepsTypes == WebSpec => []WebTypeOK
<1>1. WebInv => WebTypeOK
  BY DEF WebInv, WebTypes, WebTypeOK, TypeInv
<1> QED
  BY <1>1, WebInitTyped, WebNextTyped, PTL DEF WebSpec

-----------------------------------------------------------------------------
(* One submission at a time                                                 *)

\* What the submission gate looks at.
sendState == <<sending, sendingRef, sendRevision>>

\* A handler that is not a submission starts, goes on or finishes.
LEMMA OtherKeepsOneSubmission ==
  ASSUME WebInv, OneSubmission, NEW q \in Calls, NEW h, handlers' = [handlers EXCEPT ![q] = h],
         handlers[q] # None => handlers[q].kind # "send",
         h # None => h.kind # "send",
         UNCHANGED sendState
  PROVE  OneSubmission'
<1>1. \A p \in Calls :
        /\ Runs(p, "send")' <=> Runs(p, "send")
        /\ Runs(p, "send") => handlers'[p] = handlers[p]
  BY DEF WebInv, WebTypes, Runs
<1> QED
  BY <1>1 DEF OneSubmission, ownsSend, sendState

\* A submission goes on.
LEMMA GoingOnKeepsOneSubmission ==
  ASSUME WebInv, OneSubmission, NEW q \in Calls, Runs(q, "send"),
         NEW stage \in BeforeHash \cup AfterHash, GoesTo(q, stage), UNCHANGED sendState
  PROVE  OneSubmission'
<1>1. handlers[q] \in SendHandlers
  BY SubmissionTyped
<1>2. /\ [handlers[q] EXCEPT !.stage = stage] \in SendHandlers
      /\ [handlers[q] EXCEPT !.stage = stage].send = handlers[q].send
  BY <1>1 DEF SendHandlers
<1>3. /\ handlers' = [handlers EXCEPT ![q] = [handlers[q] EXCEPT !.stage = stage]]
      /\ handlers \in [Calls -> Handlers \cup {None}]
  BY DEF GoesTo, Becomes, WebInv, WebTypes
<1>4. [handlers[q] EXCEPT !.stage = stage] # None
  BY <1>2, NoneIsNoHandler DEF Handlers
<1>5. \A p \in Calls :
        /\ Runs(p, "send")' <=> Runs(p, "send")
        /\ Runs(p, "send") => handlers'[p].send = handlers[p].send
  BY <1>2, <1>3, <1>4 DEF Runs, SendHandlers
<1> QED
  BY <1>5 DEF OneSubmission, ownsSend, sendState

\* A submission runs its finally block.
LEMMA FinishingKeepsOneSubmission ==
  ASSUME WebInv, OneSubmission, NEW q \in Calls, Runs(q, "send"), ReleaseSend(q),
         sendRevision' = sendRevision
  PROVE  OneSubmission'
<1>1. \A p \in Calls : ~Runs(p, "send")'
  BY DEF WebInv, WebTypes, ReleaseSend, Finishes, Becomes, OneSubmission, Runs
<1>2. sendingRef' = FALSE /\ sending' = FALSE
  BY DEF ReleaseSend, OneSubmission
<1> QED
  BY <1>1, <1>2 DEF OneSubmission

\* The gate lets one submission in, and the finally block of that submission
\* opens it again.
LEMMA OneSubmissionNext ==
  ASSUME WebInv, OneSubmission, [WebNext]_webVars
  PROVE  OneSubmission'
<1>0. handlers \in [Calls -> Handlers \cup {None}]
  BY DEF WebInv, WebTypes
<1> USE DEF screen, gates, walletVars, appVars, Becomes, Finishes, sendState
<1>1. ASSUME NEW q \in Calls, StartLoad(q) \/ Connect(q) PROVE OneSubmission'
  BY <1>1, OtherKeepsOneSubmission DEF StartLoad, Connect, UserActs
<1>2. ASSUME NEW q \in Calls,
             LoadEnds(q) \/ NavigateEnds(q) \/ PreflightEnds(q) \/ WalletApproves(q)
               \/ WalletRefuses(q) \/ ConnectEnds(q)
      PROVE  OneSubmission'
  <2>1. handlers[q].kind # "send"
    BY <1>2 DEF LoadEnds, NavigateEnds, PreflightEnds, WalletApproves, WalletRefuses,
                ConnectEnds, Runs
  <2> QED
    BY <1>2, <2>1, OtherKeepsOneSubmission
       DEF LoadEnds, NavigateEnds, PreflightEnds, WalletApproves, WalletRefuses, ConnectEnds
<1>3. ASSUME NEW q \in Calls, NEW button \in Buttons, Dispatch(q, button) PROVE OneSubmission'
  <2>1. CASE UNCHANGED handlers
    BY <1>3, <2>1 DEF Dispatch, OneSubmission, Runs, ownsSend
  <2>2. CASE ~UNCHANGED handlers
    BY <1>3, <2>2, OtherKeepsOneSubmission DEF Dispatch, UserActs
  <2> QED
    BY <2>1, <2>2
<1>4. CASE UNCHANGED <<handlers, sendState>>
  BY <1>4 DEF OneSubmission, Runs, ownsSend
<1>5. ASSUME NEW q \in Calls, SendClick(q) PROVE OneSubmission'
  <2>1. CASE sendingRef
    BY <1>4, <1>5, <2>1 DEF SendClick
  <2>2. CASE ~sendingRef
    <3> DEFINE h == [kind |-> "send", stage |-> "account", interaction |-> interactionRevision,
                     send |-> sendRevision', call |-> preparedCall, from |-> wallet]
    <3>1. /\ handlers' = [handlers EXCEPT ![q] = h] /\ sendingRef' = TRUE /\ sending' = TRUE
          /\ sendRevision' \in Nat
      BY <1>5, <2>2, WebAssumption DEF SendClick, WebInv, WebTypes
    <3>2. h \in SendHandlers
      BY <1>5, <3>1 DEF SendClick, SendHandlers, BeforeHash, WebInv, WebTypes
    <3>3. h # None /\ h.kind = "send" /\ h.send = sendRevision'
      BY <3>2, NoneIsNoHandler DEF Handlers
    <3> HIDE DEF h
    <3>4. \A p \in Calls : Runs(p, "send")' <=> p = q
      BY <1>0, <2>2, <3>1, <3>3 DEF OneSubmission, Runs
    <3>5. handlers'[q].send = sendRevision'
      BY <1>0, <3>1, <3>3
    <3> QED
      BY <3>1, <3>4, <3>5 DEF OneSubmission, ownsSend
  <2> QED
    BY <2>1, <2>2
<1>6. ASSUME NEW q \in Calls, AccountChecked(q) \/ Simulated(q) \/ ChainSelected(q)
      PROVE  OneSubmission'
  <2>1. PICK next \in {"simulate", "chain", "accountAgain", "signing"} : ContinueOrAbort(q, next)
    BY <1>6 DEF AccountChecked, Simulated, ChainSelected
  <2>2. Runs(q, "send") /\ next \in BeforeHash
    BY <1>6 DEF AccountChecked, Simulated, ChainSelected, Sends, BeforeHash
  <2> QED
    BY <2>1, <2>2, GoingOnKeepsOneSubmission, FinishingKeepsOneSubmission DEF ContinueOrAbort
<1>7. ASSUME NEW q \in Calls, Signed(q) \/ Diagnosed(q) \/ Confirmed(q) PROVE OneSubmission'
  <2>1. Runs(q, "send") /\ {"diagnose", "receipt", "navigate"} \subseteq AfterHash
    BY <1>7 DEF Signed, Diagnosed, Confirmed, Sends, AfterHash
  <2>2. sendRevision' = sendRevision
    BY <1>7 DEF Signed, Diagnosed, Confirmed
  <2>3. \/ ReleaseSend(q)
        \/ /\ \E stage \in {"diagnose", "receipt", "navigate"} : GoesTo(q, stage)
           /\ UNCHANGED <<sending, sendingRef>>
    BY <1>7 DEF Signed, Diagnosed, Confirmed
  <2> QED
    BY <2>1, <2>2, <2>3, GoingOnKeepsOneSubmission, FinishingKeepsOneSubmission
<1>8. ASSUME NEW q \in Calls,
             SubmissionFails(q) \/ TransactionFails(q)
               \/ ContinuationShown(q) \/ ContinuationFails(q)
      PROVE  OneSubmission'
  <2>1. Runs(q, "send") /\ ReleaseSend(q) /\ sendRevision' = sendRevision
    BY <1>8 DEF SubmissionFails, TransactionFails, ContinuationShown,
                ContinuationFails, SendThrows, Sends
  <2> QED
    BY <2>1, FinishingKeepsOneSubmission
<1>9. ASSUME NEW q \in Calls, LoadGoesOn(q) PROVE OneSubmission'
  BY <1>4, <1>9 DEF LoadGoesOn
<1>10. ASSUME NEW text \in Texts, UpdateInput(text) PROVE OneSubmission'
  BY <1>4, <1>10 DEF UpdateInput
<1>11. ASSUME NEW actor \in Accounts, SwitchWalletAccount(actor) PROVE OneSubmission'
  BY <1>4, <1>11 DEF SwitchWalletAccount
<1>12. CASE UNCHANGED webVars
  BY <1>4, <1>12 DEF webVars
<1> QED
  BY <1>1, <1>2, <1>3, <1>5, <1>6, <1>7, <1>8, <1>9, <1>10, <1>11, <1>12 DEF WebNext

OneInv == WebInv /\ OneSubmission

LEMMA OneInvAlways == WebSpec => []OneInv
<1>1. WebInit => OneInv
  BY WebInitTyped DEF WebInit, OneInv, OneSubmission, Runs
<1>2. OneInv /\ [WebNext]_webVars => OneInv'
  BY WebNextTyped, OneSubmissionNext DEF OneInv
<1> QED
  BY <1>1, <1>2, PTL DEF WebSpec

\* However the user clicks and whatever else is in flight, one submission runs at
\* a time, and no other takes its send revision while it runs (App.tsx 203-225,
\* 279-284).
THEOREM WebOneSubmission == WebSpec => []OneSubmission
<1>1. OneInv => OneSubmission
  BY DEF OneInv
<1> QED
  BY <1>1, OneInvAlways, PTL

\* A step that ends a submission before its hash and reports no error.
EndsSilently(q) ==
  Runs(q, "send") /\ handlers'[q] = None /\ handlers[q].stage \in BeforeHash /\ notice' # "error"

\* Since the running submission owns the send revision, only its interaction can
\* have been overtaken.
LEMMA SilentIsStale ==
  ASSUME OneInv, [WebNext]_webVars, NEW q \in Calls, EndsSilently(q)
  PROVE  ~ownsInteraction(q)
<1>0. /\ handlers \in [Calls -> Handlers \cup {None}] /\ ownsSend(q) /\ handlers[q] \in SendHandlers
      /\ handlers[q] # None
  BY SubmissionTyped DEF OneInv, WebInv, WebTypes, OneSubmission, EndsSilently, Runs
<1> USE DEF EndsSilently
<1>1. \A stage \in BeforeHash \cup AfterHash : [handlers[q] EXCEPT !.stage = stage] # None
  <2>1. \A stage \in BeforeHash \cup AfterHash : [handlers[q] EXCEPT !.stage = stage] \in SendHandlers
    BY <1>0 DEF SendHandlers
  <2> QED
    BY <2>1, NoneIsNoHandler DEF Handlers
<1>2. ASSUME NEW p \in Calls, NEW h, Becomes(p, h), p = q => h # None PROVE FALSE
  BY <1>0, <1>2 DEF Becomes
<1>3. CASE UNCHANGED handlers
  BY <1>0, <1>3
<1>4. ASSUME NEW p \in Calls, StartLoad(p) \/ Connect(p) PROVE FALSE
  BY <1>0, <1>2, <1>4 DEF StartLoad, Connect, UserActs, Runs
<1>5. ASSUME NEW p \in Calls,
             LoadEnds(p) \/ NavigateEnds(p) \/ PreflightEnds(p) \/ WalletApproves(p)
               \/ WalletRefuses(p) \/ ConnectEnds(p)
      PROVE  FALSE
  <2>1. p # q
    BY <1>5 DEF LoadEnds, NavigateEnds, PreflightEnds, WalletApproves, WalletRefuses, ConnectEnds, Runs
  <2>2. PICK h : Becomes(p, h)
    BY <1>5 DEF LoadEnds, NavigateEnds, PreflightEnds, WalletApproves, WalletRefuses, ConnectEnds,
                Finishes
  <2> QED
    BY <1>2, <2>1, <2>2
<1>6. ASSUME NEW p \in Calls, NEW button \in Buttons, Dispatch(p, button), ~UNCHANGED handlers
      PROVE  FALSE
  BY <1>0, <1>2, <1>6 DEF Dispatch, UserActs
<1>7. ASSUME NEW p \in Calls, SendClick(p), ~UNCHANGED handlers PROVE FALSE
  BY <1>0, <1>2, <1>7 DEF SendClick, UserActs
<1>8. ASSUME NEW p \in Calls, AccountChecked(p) \/ Simulated(p) \/ ChainSelected(p)
      PROVE  ~ownsInteraction(q)
  <2>1. PICK next \in {"simulate", "chain", "accountAgain", "signing"} : ContinueOrAbort(p, next)
    BY <1>8 DEF AccountChecked, Simulated, ChainSelected
  <2>2. p = q
    BY <1>8 DEF AccountChecked, Simulated, ChainSelected, Sends, OneInv, OneSubmission
  <2>3. CASE ownsInteraction(q)
    <3>1. GoesTo(q, next)
      BY <1>0, <2>1, <2>2, <2>3 DEF ContinueOrAbort
    <3>2. next \in BeforeHash
      BY DEF BeforeHash
    <3> QED
      BY <1>2, <1>1, <3>1, <3>2 DEF GoesTo
  <2> QED
    BY <2>3
<1>9. ASSUME NEW p \in Calls,
             SubmissionFails(p) \/ TransactionFails(p) \/ ContinuationFails(p)
      PROVE  ~ownsInteraction(q)
  <2>1. SendThrows(p) /\ p = q
    BY <1>9 DEF SubmissionFails, TransactionFails, ContinuationFails, SendThrows,
                OneInv, OneSubmission
  <2>2. handlers[q].stage \notin AfterHash
    BY DEF BeforeHash, AfterHash
  <2> QED
    BY <1>0, <2>1, <2>2 DEF SendThrows
<1>10. ASSUME NEW p \in Calls,
              Signed(p) \/ Diagnosed(p) \/ Confirmed(p) \/ ContinuationShown(p)
       PROVE  FALSE
  <2>1. p = q
    BY <1>10 DEF Signed, Diagnosed, Confirmed, ContinuationShown, Sends, OneInv, OneSubmission
  <2>2. handlers[q].stage = "signing" /\ Signed(q)
    BY <1>10, <2>1 DEF Signed, Diagnosed, Confirmed, ContinuationShown, Sends, BeforeHash
  <2>3. GoesTo(q, "diagnose") /\ "diagnose" \in AfterHash
    BY <1>0, <2>2 DEF Signed, AfterHash
  <2> QED
    BY <1>2, <1>1, <2>3 DEF GoesTo
<1>11. ASSUME NEW p \in Calls, LoadGoesOn(p) PROVE FALSE
  BY <1>3, <1>0, <1>11 DEF LoadGoesOn, appVars
<1>12. ASSUME NEW text \in Texts, UpdateInput(text) PROVE FALSE
  BY <1>0, <1>12 DEF UpdateInput
<1>13. ASSUME NEW actor \in Accounts, SwitchWalletAccount(actor) PROVE FALSE
  BY <1>0, <1>13 DEF SwitchWalletAccount
<1>14. CASE UNCHANGED webVars
  BY <1>3, <1>14 DEF webVars, appVars
<1> QED
  BY <1>3, <1>4, <1>5, <1>6, <1>7, <1>8, <1>9, <1>10, <1>11, <1>12, <1>13, <1>14 DEF WebNext

\* A submission that ends before its hash without an error on the screen was
\* overtaken by another interaction (App.tsx 215-216, 269; transactions.ts 70-86).
THEOREM WebOnlyStaleSubmissionsAreSilent == WebSpec => OnlyStaleSubmissionsAreSilent
<1>1. OneInv /\ [WebNext]_webVars =>
        [\A q \in Calls :
           Runs(q, "send") /\ handlers'[q] = None /\ handlers[q].stage \in BeforeHash
             /\ notice' # "error"
             => ~ownsInteraction(q)]_webVars
  BY SilentIsStale DEF EndsSilently
<1> QED
  BY <1>1, OneInvAlways, PTL DEF WebSpec, OnlyStaleSubmissionsAreSilent

-----------------------------------------------------------------------------
(* The prepared call on the screen                                          *)

\* A handler that a dispatch started, and one that no later interaction overtook.
Dispatched(q) == Runs(q, "navigate") \/ Runs(q, "preflight")
Fresh(q) ==
  \/ Dispatched(q) /\ isCurrentInteraction(handlers[q].revision)
  \/ Runs(q, "send") /\ ownsInteraction(q)

\* A connection that the wallet approved: the session has the new account already.
Approved(q) == Runs(q, "connect") /\ handlers[q].address # None

OffersScreen(call) ==
  /\ call.button \in RenderedButtons(displayed.view)
  /\ call.account = displayed.account

NothingBeforeLoad == displayed = None => wallet = None /\ preparedCall = None

RevisionsArePast ==
  \A q \in Calls :
    /\ Dispatched(q) => handlers[q].revision <= interactionRevision
    /\ Runs(q, "send") => handlers[q].interaction <= interactionRevision

\* The user stays away while one connection is in progress, which overtook all
\* that was in flight.
ConnectIsAlone ==
  /\ \A p, q \in Calls : Runs(p, "connect") /\ Runs(q, "connect") => p = q
  /\ \A p, q \in Calls : Runs(p, "connect") => preparedCall = None /\ ~ Fresh(q)

\* The screen is the account's, except while a new account's view is read.
AccountIsShown ==
  /\ \A q \in Calls : pendingCalls[q] # None /\ pendingCalls[q].op = "setAccount" => Approved(q)
  /\ \A q \in Calls : Approved(q) =>
       /\ pendingCalls[q] # None /\ pendingCalls[q].op = "setAccount"
       /\ pendingCalls[q].account = account /\ handlers[q].address = account
       /\ pendingCalls[q].previousAccount = displayed.account
  /\ displayed # None /\ (\A q \in Calls : ~ Approved(q)) => displayed.account = account
  /\ displayed # None =>
       /\ displayed.view.shownTo = displayed.account
       /\ wallet # None => wallet = displayed.account

\* A view that will be shown is read for the account of the session.
ReadsAreForTheAccount ==
  \A q \in Calls :
    Runs(q, "load") \/ (Runs(q, "navigate") /\ Fresh(q)) \/ (Sends(q, "navigate") /\ Fresh(q)) =>
      (Awaits(q, "read") => pendingCalls[q].account = account)

\* A dispatch that nothing overtook is alone, and so is the end of a submission.
OneResult ==
  /\ \A q \in Calls : Dispatched(q) /\ Fresh(q) =>
       /\ preparedCall = None
       /\ \A p \in Calls : Fresh(p) => p = q
       /\ Runs(q, "preflight") => OffersScreen(handlers[q].call)
  /\ \A q \in Calls : Sends(q, "navigate") /\ Fresh(q) => preparedCall = None

SentForSender ==
  \A q \in Calls : Runs(q, "send") =>
    /\ handlers[q].call.account = handlers[q].from
    /\ handlers[q].call.button.actor = handlers[q].from

CurrentInv ==
  /\ NothingBeforeLoad /\ RevisionsArePast /\ ConnectIsAlone /\ AccountIsShown
  /\ ReadsAreForTheAccount /\ OneResult /\ SentForSender /\ PreparedCallIsCurrent

\* What a step that changes slot q leaves alone in the others.
OtherHandlersStay(q) ==
  \A p \in Calls \ {q} :
    /\ handlers'[p] = handlers[p]
    /\ \A kind : Runs(p, kind)' <=> Runs(p, kind)
    /\ \A stage : Sends(p, stage)' <=> Sends(p, stage)
    /\ (Dispatched(p)' <=> Dispatched(p)) /\ (Fresh(p)' <=> Fresh(p))
    /\ Approved(p)' <=> Approved(p)

OtherCallsStay(q) ==
  \A p \in Calls \ {q} :
    pendingCalls'[p] = pendingCalls[p] /\ \A stage : Awaits(p, stage)' <=> Awaits(p, stage)

LEMMA OtherSlots ==
  ASSUME WebInv, NEW q \in Calls, NEW h, handlers' = [handlers EXCEPT ![q] = h],
         interactionRevision' = interactionRevision
  PROVE  handlers'[q] = h /\ OtherHandlersStay(q)
<1> USE DEF OtherHandlersStay, OtherCallsStay
<1>1. handlers'[q] = h /\ \A p \in Calls \ {q} : handlers'[p] = handlers[p]
  BY DEF WebInv, WebTypes
<1> QED
  BY <1>1 DEF Runs, Sends, Dispatched, Fresh, Approved, ownsInteraction, isCurrentInteraction

LEMMA OtherCalls ==
  ASSUME WebInv, NEW q \in Calls, NEW c, pendingCalls' = [pendingCalls EXCEPT ![q] = c]
  PROVE  pendingCalls'[q] = c /\ OtherCallsStay(q)
<1> USE DEF OtherHandlersStay, OtherCallsStay
<1>1. pendingCalls'[q] = c /\ \A p \in Calls \ {q} : pendingCalls'[p] = pendingCalls[p]
  BY DEF WebInv, TypeInv, TypeOK
<1> QED
  BY <1>1 DEF Awaits

\* A handler goes on or finishes, and shows nothing new.
LEMMA QuietStep ==
  ASSUME WebInv, CurrentInv, NEW q \in Calls, NEW h, NEW c,
         handlers[q] # None, handlers[q].kind \in {"navigate", "preflight", "send"},
         handlers' = [handlers EXCEPT ![q] = h], pendingCalls' = [pendingCalls EXCEPT ![q] = c],
         h # None =>
           /\ Runs(q, "send") /\ h.kind = "send" /\ h.interaction = handlers[q].interaction
           /\ h.call = handlers[q].call /\ h.from = handlers[q].from
           /\ h.stage = "navigate" => c.account = account
           /\ h.stage = "navigate" /\ h.interaction = interactionRevision => preparedCall' = None,
         \/ c = None \/ c = pendingCalls[q] \/ (c # None /\ c.op # "setAccount"),
         account' = account, displayed' = displayed, wallet' = wallet,
         interactionRevision' = interactionRevision, preparedCall' \in {None, preparedCall}
  PROVE  CurrentInv'
<1> USE DEF OtherHandlersStay, OtherCallsStay
<1>1. handlers'[q] = h /\ OtherHandlersStay(q)
  BY OtherSlots
<1>2. pendingCalls'[q] = c /\ OtherCallsStay(q)
  BY OtherCalls
<1>3. /\ ~ Runs(q, "connect") /\ ~ Approved(q) /\ ~ Runs(q, "load")
      /\ ~ Dispatched(q)' /\ ~ Runs(q, "connect")' /\ ~ Approved(q)' /\ ~ Runs(q, "load")'
      /\ ~ Runs(q, "navigate")' /\ ~ Runs(q, "preflight")'
      /\ Fresh(q)' => Fresh(q) /\ Runs(q, "send") /\ h.interaction = interactionRevision
      /\ Runs(q, "send")' => Runs(q, "send") /\ h # None
      /\ Sends(q, "navigate")' => h # None /\ h.stage = "navigate"
  BY <1>1 DEF Runs, Sends, Approved, Dispatched, Fresh, ownsInteraction, isCurrentInteraction
<1>4. NothingBeforeLoad' /\ PreparedCallIsCurrent'
  BY DEF CurrentInv, NothingBeforeLoad, PreparedCallIsCurrent, RenderedButtons
<1>5. RevisionsArePast' /\ SentForSender'
  BY <1>1, <1>3 DEF CurrentInv, RevisionsArePast, SentForSender
<1>6. ConnectIsAlone'
  BY <1>1, <1>3 DEF CurrentInv, ConnectIsAlone
<1>7. AccountIsShown'
  BY <1>1, <1>2, <1>3 DEF CurrentInv, AccountIsShown
<1>8. ReadsAreForTheAccount'
  BY <1>1, <1>2, <1>3 DEF CurrentInv, ReadsAreForTheAccount
<1>9. OneResult'
  BY <1>1, <1>3 DEF CurrentInv, OneResult, OffersScreen, RenderedButtons
<1> QED
  BY <1>4, <1>5, <1>6, <1>7, <1>8, <1>9 DEF CurrentInv

\* The view that a fresh handler awaited is shown.
LEMMA ShowStep ==
  ASSUME WebInv, CurrentInv, NEW q \in Calls, displayed' \in Snapshots,
         Fresh(q), preparedCall = None, displayed # None,
         displayed'.account = account, displayed'.view.shownTo = account,
         handlers' = [handlers EXCEPT ![q] = None],
         pendingCalls' = [pendingCalls EXCEPT ![q] = None],
         account' = account, wallet' = wallet,
         interactionRevision' = interactionRevision, preparedCall' = preparedCall
  PROVE  CurrentInv'
<1> USE DEF OtherHandlersStay, OtherCallsStay
<1>1. handlers'[q] = None /\ OtherHandlersStay(q)
  BY OtherSlots
<1>2. pendingCalls'[q] = None /\ OtherCallsStay(q)
  BY OtherCalls
<1>3. \A kind : ~ Runs(q, kind)'
  BY <1>1 DEF Runs
<1>4. ~ Sends(q, "navigate")' /\ ~ Dispatched(q)' /\ ~ Fresh(q)' /\ ~ Approved(q)'
  BY <1>3 DEF Sends, Dispatched, Fresh, Approved
<1>5. \A p \in Calls : ~ Runs(p, "connect") /\ ~ Approved(p)
  BY DEF CurrentInv, ConnectIsAlone, Approved
<1>6. displayed'.account = account /\ displayed'.view.shownTo = account /\ displayed.account = account
  BY <1>5 DEF CurrentInv, AccountIsShown
<1>7. \A p \in Calls \ {q} : ~ (Dispatched(p) /\ Fresh(p))
  BY DEF CurrentInv, OneResult
<1>8. NothingBeforeLoad' /\ PreparedCallIsCurrent'
  BY NoneIsNoHandler DEF NothingBeforeLoad, PreparedCallIsCurrent
<1>9. RevisionsArePast' /\ SentForSender'
  BY <1>1, <1>3, <1>4 DEF CurrentInv, RevisionsArePast, SentForSender
<1>10. ConnectIsAlone'
  BY <1>1, <1>3, <1>5 DEF ConnectIsAlone
<1>11. AccountIsShown'
  BY <1>1, <1>2, <1>4, <1>5, <1>6 DEF CurrentInv, AccountIsShown
<1>12. ReadsAreForTheAccount'
  BY <1>1, <1>2, <1>3, <1>4 DEF CurrentInv, ReadsAreForTheAccount
<1>13. OneResult'
  BY <1>1, <1>4, <1>7 DEF CurrentInv, OneResult
<1> QED
  BY <1>8, <1>9, <1>10, <1>11, <1>12, <1>13 DEF CurrentInv

\* The user acts: whatever is in flight is overtaken, and at most one handler starts.
LEMMA ActStep ==
  ASSUME WebInv, CurrentInv, NEW q, ~ Connecting, displayed # None,
         displayed' # None,
         displayed' # displayed => displayed'.account = account /\ displayed'.view.shownTo = account,
         \A p \in Calls \ {q} : handlers'[p] = handlers[p] /\ pendingCalls'[p] = pendingCalls[p],
         q \in Calls =>
           /\ handlers'[q] # None
           /\ \/ handlers'[q].kind = "connect" /\ handlers'[q].address = None
              \/ handlers'[q].kind = "navigate" /\ handlers'[q].revision = interactionRevision'
              \/ /\ handlers'[q].kind = "preflight" /\ handlers'[q].revision = interactionRevision'
                 /\ OffersScreen(handlers[q].call)'
           /\ \/ pendingCalls'[q] = pendingCalls[q] /\ handlers'[q].kind # "navigate"
              \/ /\ pendingCalls'[q] # None /\ pendingCalls'[q].op = "navigate"
                 /\ pendingCalls'[q].account = account,
         account' = account, wallet' = wallet,
         interactionRevision' = interactionRevision + 1, preparedCall' = None
  PROVE  CurrentInv'
<1>1. \A p \in Calls \ {q} :
         /\ \A kind : Runs(p, kind)' <=> Runs(p, kind)
         /\ \A stage : Sends(p, stage)' <=> Sends(p, stage)
         /\ \A stage : Awaits(p, stage)' <=> Awaits(p, stage)
         /\ (Dispatched(p)' <=> Dispatched(p)) /\ ~ Approved(p)' /\ ~ Runs(p, "connect")'
  BY DEF Runs, Sends, Awaits, Dispatched, Approved, Connecting
<1>2. interactionRevision \in Nat
  BY WebAssumption DEF WebInv, WebTypes
<1>3. \A p \in Calls \ {q} : ~ Fresh(p)'
  BY <1>2 DEF CurrentInv, RevisionsArePast, Fresh, Dispatched, Runs, ownsInteraction, isCurrentInteraction
<1>4. q \in Calls =>
        /\ ~ Approved(q)' /\ ~ Runs(q, "send")' /\ ~ Sends(q, "navigate")' /\ ~ Runs(q, "load")'
        /\ Fresh(q)' => ~ Runs(q, "connect")'
        /\ Dispatched(q)' => handlers'[q].revision = interactionRevision'
        /\ Runs(q, "preflight")' => OffersScreen(handlers[q].call)'
        /\ Runs(q, "navigate")' => pendingCalls'[q].account = account
  BY DEF Runs, Sends, Dispatched, Approved, Fresh
<1>5. \A p \in Calls : ~ Approved(p) /\ ~ Approved(p)'
  BY <1>1, <1>4 DEF Approved, Connecting
<1>6. /\ displayed' # None /\ displayed'.account = account /\ displayed'.view.shownTo = account
      /\ wallet # None => wallet = account
  <2>1. displayed.account = account /\ displayed.view.shownTo = account
    BY <1>5 DEF CurrentInv, AccountIsShown
  <2> QED
    BY <2>1 DEF CurrentInv, AccountIsShown
<1>7. \A p \in Calls : pendingCalls'[p] # None => pendingCalls'[p].op # "setAccount"
  BY <1>5 DEF CurrentInv, AccountIsShown
<1>8. NothingBeforeLoad' /\ PreparedCallIsCurrent'
  BY <1>6 DEF NothingBeforeLoad, PreparedCallIsCurrent
<1>9. RevisionsArePast' /\ SentForSender'
  <2>1. \A p \in Calls \ {q} : Dispatched(p) => handlers'[p].revision <= interactionRevision
    BY DEF CurrentInv, RevisionsArePast
  <2>2. \A p \in Calls \ {q} : Runs(p, "send") => handlers'[p].interaction <= interactionRevision
    BY DEF CurrentInv, RevisionsArePast
  <2>3. \A n \in Int : n <= interactionRevision => n <= interactionRevision'
    BY <1>2
  <2>4. \A p \in Calls : /\ Dispatched(p) => handlers[p].revision \in Int
                         /\ Runs(p, "send") => handlers[p].interaction \in Int
    BY DEF WebInv, WebTypes, Dispatched, Runs, Handlers, LoadHandlers, NavigateHandlers,
           PreflightHandlers, ConnectHandlers, SendHandlers
  <2>5. interactionRevision' <= interactionRevision'
    BY <1>2
  <2>6. RevisionsArePast'
    BY <1>1, <1>4, <2>1, <2>2, <2>3, <2>4, <2>5 DEF RevisionsArePast
  <2> QED
    BY <1>1, <1>4, <2>6 DEF CurrentInv, SentForSender
<1>10. ConnectIsAlone'
  BY <1>1, <1>3, <1>4 DEF ConnectIsAlone
<1>11. AccountIsShown'
  BY <1>5, <1>6, <1>7 DEF AccountIsShown
<1>12. ReadsAreForTheAccount'
  BY <1>1, <1>3, <1>4 DEF CurrentInv, ReadsAreForTheAccount
<1>13. OneResult'
  BY <1>1, <1>3, <1>4 DEF OneResult
<1> QED
  BY <1>8, <1>9, <1>10, <1>11, <1>12, <1>13 DEF CurrentInv

\* The same, when no handler starts.
LEMMA NothingStarts ==
  ASSUME WebInv, CurrentInv, ~ Connecting, displayed # None, displayed' # None,
         displayed' # displayed => displayed'.account = account /\ displayed'.view.shownTo = account,
         UNCHANGED <<handlers, pendingCalls, account, wallet>>,
         interactionRevision' = interactionRevision + 1, preparedCall' = None
  PROVE  CurrentInv'
<1>1. PICK q : q \notin Calls
  <2>1. {p \in Calls : p \notin p} \notin Calls
    OBVIOUS
  <2> QED
    BY <2>1
<1> QED
  BY <1>1, ActStep

\* What the invariant speaks of.
currentState == <<handlers, pendingCalls, account, displayed, wallet, interactionRevision, preparedCall>>

LEMMA SameStep ==
  ASSUME CurrentInv, UNCHANGED currentState
  PROVE  CurrentInv'
<1>1. /\ NothingBeforeLoad' /\ RevisionsArePast' /\ ConnectIsAlone' /\ AccountIsShown'
  BY DEF currentState, CurrentInv, NothingBeforeLoad, RevisionsArePast, ConnectIsAlone, AccountIsShown,
         Runs, Dispatched, Fresh, Approved, ownsInteraction, isCurrentInteraction
<1>2. ReadsAreForTheAccount' /\ OneResult' /\ SentForSender' /\ PreparedCallIsCurrent'
  BY DEF currentState, CurrentInv, ReadsAreForTheAccount, OneResult, SentForSender, PreparedCallIsCurrent,
         Runs, Sends, Awaits, Dispatched, Fresh, ownsInteraction, isCurrentInteraction, OffersScreen,
         RenderedButtons
<1> QED
  BY <1>1, <1>2 DEF CurrentInv

\* A load goes on: nothing was shown yet, and nobody connects.
LEMMA LoadKeepsCurrent ==
  ASSUME WebInv, CurrentInv, NEW q \in Calls, StartLoad(q) \/ LoadGoesOn(q) \/ LoadEnds(q)
  PROVE  CurrentInv'
<1> USE DEF screen, gates, walletVars, appVars, OtherHandlersStay, OtherCallsStay
<1>1. CASE StartLoad(q)
  <2> DEFINE h == [kind |-> "load"]
             c == [op |-> "load", stage |-> "host", cam |-> 0]
  <2>1. /\ loadStatus = "loading" /\ handlers' = [handlers EXCEPT ![q] = h]
        /\ pendingCalls' = [pendingCalls EXCEPT ![q] = c]
        /\ UNCHANGED <<account, displayed, wallet, interactionRevision, preparedCall>>
    BY <1>1 DEF StartLoad, Load, Becomes
  <2>2. displayed = None /\ \A p \in Calls : handlers[p] = None \/ Runs(p, "load")
    BY <2>1, NoneIsNoHandler DEF WebInv, WebTypes, OneLoad, Runs
  <2>3. \A p \in Calls : handlers'[p] = handlers[p] \/ handlers'[p] = h
    BY <2>1 DEF WebInv, WebTypes
  <2>4. \A p \in Calls : \A kind \in {"navigate", "preflight", "connect", "send"} :
          ~ Runs(p, kind) /\ ~ Runs(p, kind)'
    BY <2>2, <2>3 DEF Runs
  <2>5. \A p \in Calls : /\ ~ Dispatched(p)' /\ ~ Fresh(p)' /\ ~ Approved(p)' /\ ~ Sends(p, "navigate")'
                         /\ ~ Approved(p)
    BY <2>4 DEF Dispatched, Fresh, Approved, Sends
  <2>6. \A p \in Calls : pendingCalls'[p] = pendingCalls[p] \/ pendingCalls'[p] = c
    BY <2>1 DEF WebInv, TypeInv, TypeOK
  <2>7. NothingBeforeLoad' /\ PreparedCallIsCurrent'
    BY <2>1, <2>2 DEF CurrentInv, NothingBeforeLoad, PreparedCallIsCurrent
  <2>8. RevisionsArePast' /\ ConnectIsAlone' /\ OneResult' /\ SentForSender'
    BY <2>4, <2>5 DEF RevisionsArePast, ConnectIsAlone, OneResult, SentForSender
  <2>9. AccountIsShown'
    BY <2>1, <2>2, <2>5, <2>6 DEF CurrentInv, AccountIsShown
  <2>10. ReadsAreForTheAccount'
    <3>1. ASSUME NEW p \in Calls, Runs(p, "load")', Awaits(p, "read")'
          PROVE  pendingCalls'[p].account = account
      <4>1. pendingCalls'[p] # c
        BY <3>1 DEF Awaits
      <4>2. p # q /\ pendingCalls'[p] = pendingCalls[p]
        BY <2>1, <4>1 DEF WebInv, TypeInv, TypeOK
      <4>3. Runs(p, "load") /\ Awaits(p, "read")
        BY <2>1, <3>1, <4>2 DEF Runs, Awaits, WebInv, WebTypes
      <4> QED
        BY <4>2, <4>3 DEF CurrentInv, ReadsAreForTheAccount
    <3> QED
      BY <2>1, <2>4, <2>5, <3>1 DEF ReadsAreForTheAccount
  <2> QED
    BY <2>7, <2>8, <2>9, <2>10 DEF CurrentInv
<1>2. CASE LoadGoesOn(q)
  <2>1. PICK c : /\ pendingCalls' = [pendingCalls EXCEPT ![q] = c]
                 /\ c.op = "load" /\ (c.stage = "read" => c.account = account)
                 /\ UNCHANGED account /\ UNCHANGED appVars
                 /\ pendingCalls[q] # None /\ pendingCalls[q].stage \in {"host", "contracts", "ui"}
    BY <1>2 DEF LoadGoesOn, LoadHost, LoadContracts, LoadUi, Awaits, ReadCall
  <2>2. pendingCalls'[q] = c /\ OtherCallsStay(q)
    BY <2>1, OtherCalls
  <2>3. pendingCalls[q].op # "setAccount"
    BY <2>1 DEF WebInv, TypeInv, TypeOK, LoadCalls, ReadCalls
  <2>4. ~ Approved(q)
    BY <2>3 DEF CurrentInv, AccountIsShown
  <2>5. \A p \in Calls :
          /\ \A kind : Runs(p, kind)' <=> Runs(p, kind)
          /\ \A stage : Sends(p, stage)' <=> Sends(p, stage)
          /\ (Dispatched(p)' <=> Dispatched(p)) /\ (Fresh(p)' <=> Fresh(p))
          /\ Approved(p)' <=> Approved(p)
    BY <2>1 DEF Runs, Sends, Dispatched, Fresh, Approved, ownsInteraction, isCurrentInteraction
  <2>6. NothingBeforeLoad' /\ PreparedCallIsCurrent' /\ SentForSender' /\ RevisionsArePast' /\ ConnectIsAlone'
    BY <2>1, <2>5 DEF CurrentInv, NothingBeforeLoad, PreparedCallIsCurrent, RenderedButtons, SentForSender,
                      RevisionsArePast, ConnectIsAlone
  <2>7. AccountIsShown'
    BY <2>1, <2>2, <2>4, <2>5 DEF CurrentInv, AccountIsShown
  <2>8. ReadsAreForTheAccount'
    BY <2>1, <2>2, <2>5 DEF CurrentInv, ReadsAreForTheAccount, Awaits
  <2>9. OneResult'
    BY <2>1, <2>5 DEF CurrentInv, OneResult, OffersScreen, RenderedButtons
  <2> QED
    BY <2>6, <2>7, <2>8, <2>9 DEF CurrentInv
<1>3. CASE LoadEnds(q)
  <2>1. /\ Runs(q, "load") /\ handlers' = [handlers EXCEPT ![q] = None]
        /\ UNCHANGED <<wallet, preparedCall, interactionRevision>>
        /\ pendingCalls' = [pendingCalls EXCEPT ![q] = None]
    BY <1>3 DEF LoadEnds, Finishes, Becomes, ReadDone, CallFails, Settled
  <2>2. displayed = None /\ wallet = None /\ preparedCall = None /\ loadStatus = "loading"
    BY <2>1, NoneIsNoHandler DEF WebInv, WebTypes, OneLoad, CurrentInv, NothingBeforeLoad
  <2>3. \A p \in Calls : handlers'[p] = None
    BY <2>1, <2>2 DEF WebInv, WebTypes, OneLoad, Runs
  <2>4. \A p \in Calls : /\ \A kind : ~ Runs(p, kind)'
                         /\ ~ Runs(p, "connect") /\ ~ Approved(p)
    BY <2>2, <2>3 DEF Runs, Approved, WebInv, OneLoad
  <2>5. \A p \in Calls : ~ Dispatched(p)' /\ ~ Fresh(p)' /\ ~ Approved(p)' /\ ~ Sends(p, "navigate")'
    BY <2>4 DEF Dispatched, Fresh, Approved, Sends
  <2>6. \A p \in Calls : pendingCalls'[p] # None => pendingCalls'[p].op # "setAccount"
    BY <2>1, <2>4 DEF WebInv, TypeInv, TypeOK, CurrentInv, AccountIsShown
  <2>7. displayed' # None => displayed'.account = account' /\ displayed'.view.shownTo = account'
    <3>1. CASE ReadDone(q) /\ displayed' = NewSnapshot
      <4>1. pendingCalls[q].account = account
        BY <2>1, <3>1 DEF CurrentInv, ReadsAreForTheAccount, ReadDone
      <4> QED
        BY <3>1, <4>1 DEF ReadDone, ResolvedView, NewSnapshot
    <3>2. CASE displayed' = displayed
      BY <2>2, <3>2
    <3> QED
      BY <1>3, <3>1, <3>2 DEF LoadEnds
  <2>8. NothingBeforeLoad' /\ PreparedCallIsCurrent'
    BY <2>1, <2>2 DEF NothingBeforeLoad, PreparedCallIsCurrent
  <2>9. RevisionsArePast' /\ ConnectIsAlone' /\ OneResult' /\ SentForSender' /\ ReadsAreForTheAccount'
    BY <2>4, <2>5 DEF RevisionsArePast, ConnectIsAlone, OneResult, SentForSender, ReadsAreForTheAccount
  <2>10. AccountIsShown'
    BY <2>1, <2>2, <2>5, <2>6, <2>7 DEF AccountIsShown
  <2> QED
    BY <2>8, <2>9, <2>10 DEF CurrentInv
<1> QED
  BY <1>1, <1>2, <1>3

\* The user presses a button, edits an input or connects.
LEMMA ActsKeepCurrent ==
  ASSUME ConnectIsModal, WebInv, CurrentInv,
         \/ \E q \in Calls : Connect(q)
         \/ \E q \in Calls, button \in Buttons : Dispatch(q, button)
         \/ \E text \in Texts : UpdateInput(text)
  PROVE  CurrentInv'
<1> USE NoneIsNoHandler DEF screen, gates, walletVars, appVars
<1>0. pendingCalls \in [Calls -> LoadCalls \cup ReadCalls \cup {None}] /\ handlers \in [Calls -> Handlers \cup {None}]
  BY DEF WebInv, WebTypes, TypeInv, TypeOK
<1>1. displayed # None /\ ~ Connecting /\ displayed.account = account
  <2>1. loadStatus = "ready" /\ ~ Connecting
    BY DEF Connect, Dispatch, UpdateInput, UserActs
  <2>2. \A q \in Calls : ~ Approved(q)
    BY <2>1 DEF Approved, Connecting
  <2>3. displayed # None
    BY <2>1 DEF WebInv, WebTypes
  <2> QED
    BY <2>1, <2>2, <2>3 DEF CurrentInv, AccountIsShown
<1>2. ASSUME NEW q \in Calls, Connect(q) PROVE CurrentInv'
  <2>1. /\ handlers' = [handlers EXCEPT ![q] = [kind |-> "connect", address |-> None]]
        /\ UNCHANGED <<account, wallet, displayed, pendingCalls>> /\ preparedCall' = None
        /\ interactionRevision' = interactionRevision + 1
    BY <1>2 DEF Connect, Becomes, NextInteraction, vars
  <2>2. handlers'[q].kind = "connect" /\ handlers'[q].address = None /\ handlers'[q] # None
    <3>1. [kind |-> "connect", address |-> None] \in ConnectHandlers
      BY DEF ConnectHandlers
    <3> QED
      BY <1>0, <2>1, <3>1 DEF Handlers
  <2>3. \A p \in Calls \ {q} : handlers'[p] = handlers[p] /\ pendingCalls'[p] = pendingCalls[p]
    BY <1>0, <2>1
  <2> QED
    BY <1>1, <2>1, <2>2, <2>3, ActStep
<1>3. ASSUME NEW q \in Calls, NEW button \in Buttons, Dispatch(q, button) PROVE CurrentInv'
  <2>1. /\ UNCHANGED <<account, wallet, displayed>> /\ preparedCall' = None
        /\ interactionRevision' = interactionRevision + 1
        /\ button \in RenderedButtons(displayed.view)
    BY <1>3 DEF Dispatch, NextInteraction, vars, DispatchRead, DispatchWrite
  <2>2. interactionRevision' \in Nat
    BY <2>1, WebAssumption DEF WebInv, WebTypes
  <2>3. CASE DispatchRead(q, button) /\ Becomes(q, [kind |-> "navigate", revision |-> interactionRevision'])
    <3>1. handlers'[q] = [kind |-> "navigate", revision |-> interactionRevision'] /\ handlers'[q] # None
      <4>1. [kind |-> "navigate", revision |-> interactionRevision'] \in NavigateHandlers
        BY <2>2 DEF NavigateHandlers
      <4> QED
        BY <1>0, <2>3, <4>1 DEF Becomes, Handlers
    <3>2. pendingCalls'[q] = ReadCall("navigate", loadedState, button.route, button.inputs, account, None)
      BY <1>0, <2>3 DEF DispatchRead, BeginRead
    <3>3. pendingCalls'[q] # None
      <4>1. pendingCalls' \in [Calls -> LoadCalls \cup ReadCalls \cup {None}]
            /\ loadedState # 0 /\ button.route \in ReadRoutes
        BY <2>3, <1>3, WebKeepsSession DEF WebNext, DispatchRead, MayDispatch, BeginRead, TypeInv, TypeOK
      <4>2. loadedState \in Cams /\ account \in Actors /\ button.inputs \in Texts
        BY <4>1 DEF WebInv, TypeInv, TypeOK, Buttons
      <4>3. pendingCalls'[q] \in ReadCalls
        BY <3>2, <4>1, <4>2 DEF ReadCall, ReadCalls
      <4> QED
        BY <4>3, NoneAssumption
    <3>4. \A p \in Calls \ {q} : handlers'[p] = handlers[p] /\ pendingCalls'[p] = pendingCalls[p]
      BY <1>0, <2>3 DEF Becomes, DispatchRead, BeginRead
    <3>5. pendingCalls'[q].op = "navigate" /\ pendingCalls'[q].account = account
      BY <3>2 DEF ReadCall
    <3> QED
      BY <1>1, <2>1, <3>1, <3>3, <3>4, <3>5, ActStep
  <2>4. CASE /\ DispatchWrite(button)
             /\ Becomes(q, [kind |-> "preflight", revision |-> interactionRevision', call |-> lastCall'])
    <3>1. /\ lastCall' = [button |-> button, account |-> account, cam |-> loadedState]
          /\ UNCHANGED pendingCalls /\ loadedState # 0
      BY <2>4 DEF DispatchWrite, MayDispatch
    <3>2. handlers'[q] = [kind |-> "preflight", revision |-> interactionRevision', call |-> lastCall']
          /\ handlers'[q] # None
      <4>1. lastCall' \in PreparedCalls
        BY <3>1 DEF PreparedCalls, WebInv, TypeInv, TypeOK
      <4>2. [kind |-> "preflight", revision |-> interactionRevision', call |-> lastCall'] \in PreflightHandlers
        BY <2>2, <4>1 DEF PreflightHandlers
      <4> QED
        BY <1>0, <2>4, <4>2 DEF Becomes, Handlers
    <3>3. OffersScreen(handlers[q].call)'
      BY <1>1, <2>1, <3>1, <3>2 DEF OffersScreen, RenderedButtons
    <3>4. \A p \in Calls \ {q} : handlers'[p] = handlers[p] /\ pendingCalls'[p] = pendingCalls[p]
      BY <1>0, <2>4, <3>1 DEF Becomes
    <3> QED
      BY <1>1, <2>1, <3>1, <3>2, <3>3, <3>4, ActStep
  <2>5. CASE UNCHANGED <<vars, handlers>>
    <3>1. UNCHANGED <<handlers, pendingCalls>>
      BY <2>5 DEF vars
    <3> QED
      BY <1>1, <2>1, <3>1, NothingStarts
  <2> QED
    BY <1>3, <2>3, <2>4, <2>5 DEF Dispatch
<1>4. ASSUME NEW text \in Texts, UpdateInput(text) PROVE CurrentInv'
  <2>1. /\ UNCHANGED <<handlers, pendingCalls, account, wallet>> /\ preparedCall' = None
        /\ interactionRevision' = interactionRevision + 1
    BY <1>4 DEF UpdateInput, NextInteraction, vars, UpdateState
  <2>2. displayed' # None
    <3>1. WebInv'
      BY <1>4, WebNextTyped DEF WebNext
    <3> QED
      BY <1>1, <1>4, <3>1 DEF WebInv, WebTypes, UpdateInput
  <2>3. displayed' # displayed => displayed'.account = account /\ displayed'.view.shownTo = account
    <3>1. CASE UpdateState(text) /\ displayed' = NewSnapshot
      <4>1. currentView \in Views
        BY <3>1 DEF UpdateState, WebInv, TypeInv, TypeOK
      <4>2. currentView'.shownTo = account
        BY <3>1, <4>1 DEF UpdateState, Views
      <4> QED
        BY <3>1, <4>2, <2>1 DEF NewSnapshot
    <3> QED
      BY <1>4, <3>1 DEF UpdateInput
  <2> QED
    BY <1>1, <2>1, <2>2, <2>3, NothingStarts
<1> QED
  BY <1>2, <1>3, <1>4

\* A connection goes on or ends: nothing else that is in flight counts any more.
LEMMA ConnectKeepsCurrent ==
  ASSUME WebInv, WebInv', CurrentInv, NEW q \in Calls, WalletApproves(q) \/ WalletRefuses(q) \/ ConnectEnds(q)
  PROVE  CurrentInv'
<1> USE NoneIsNoHandler DEF screen, gates, walletVars, appVars, OtherHandlersStay, OtherCallsStay
<1>0. /\ pendingCalls \in [Calls -> LoadCalls \cup ReadCalls \cup {None}]
      /\ handlers \in [Calls -> Handlers \cup {None}]
  BY DEF WebInv, WebTypes, TypeInv, TypeOK
<1>1. Runs(q, "connect") /\ interactionRevision' = interactionRevision /\ preparedCall' = preparedCall
  BY DEF WalletApproves, WalletRefuses, ConnectEnds
<1>2. /\ preparedCall = None /\ displayed # None /\ displayed.view.shownTo = displayed.account
      /\ \A p \in Calls : ~ Fresh(p) /\ ~ Runs(p, "load")
      /\ \A p \in Calls \ {q} : ~ Runs(p, "connect") /\ ~ Approved(p)
  <2>1. loadStatus = "ready"
    BY <1>1 DEF Runs, WebInv, OneLoad
  <2>2. displayed # None /\ \A p \in Calls : ~ Runs(p, "load")
    BY <2>1 DEF WebInv, WebTypes, OneLoad
  <2>3. preparedCall = None /\ \A p \in Calls : ~ Fresh(p)
    BY <1>1 DEF CurrentInv, ConnectIsAlone
  <2>4. \A p \in Calls \ {q} : ~ Runs(p, "connect") /\ ~ Approved(p)
    BY <1>1 DEF CurrentInv, ConnectIsAlone, Approved
  <2> QED
    BY <2>2, <2>3, <2>4 DEF CurrentInv, AccountIsShown
<1>3. PICK h : handlers' = [handlers EXCEPT ![q] = h] /\ (h # None => h.kind = "connect")
  BY DEF WalletApproves, WalletRefuses, ConnectEnds, Finishes, Becomes
<1>4. handlers'[q] = h /\ OtherHandlersStay(q)
  BY <1>1, <1>3, OtherSlots
<1>5. /\ \A kind \in {"load", "navigate", "preflight", "send"} : ~ Runs(q, kind)'
      /\ ~ Dispatched(q)' /\ ~ Fresh(q)' /\ ~ Sends(q, "navigate")'
  BY <1>3, <1>4 DEF Runs, Dispatched, Fresh, Sends
<1>6. /\ RevisionsArePast' /\ ConnectIsAlone' /\ OneResult' /\ SentForSender' /\ ReadsAreForTheAccount'
      /\ PreparedCallIsCurrent'
  <2>1. RevisionsArePast' /\ SentForSender'
    BY <1>1, <1>4, <1>5 DEF CurrentInv, RevisionsArePast, SentForSender
  <2>2. ConnectIsAlone' /\ OneResult' /\ ReadsAreForTheAccount' /\ PreparedCallIsCurrent'
    BY <1>1, <1>2, <1>4, <1>5 DEF ConnectIsAlone, OneResult, ReadsAreForTheAccount, PreparedCallIsCurrent
  <2> QED
    BY <2>1, <2>2
<1>7. CASE WalletApproves(q)
  <2> DEFINE c == ReadCall("setAccount", loadedState, currentView.route, currentView.inputs,
                           walletAccount, currentView)
  <2>1. /\ h = [kind |-> "connect", address |-> walletAccount] /\ walletAccount \in Accounts
        /\ pendingCalls' = [pendingCalls EXCEPT ![q] = c] /\ account' = walletAccount
        /\ handlers[q].address = None /\ UNCHANGED <<displayed, wallet>>
    BY <1>3, <1>0, <1>7 DEF WalletApproves, SetAccount, BeginRead, Becomes, WebInv, WebTypes
  <2>2. /\ c.op = "setAccount" /\ c.account = walletAccount /\ c.previousAccount = account
    BY DEF ReadCall
  <2>3. /\ pendingCalls'[q] = c
        /\ \A p \in Calls \ {q} : pendingCalls'[p] = pendingCalls[p]
    BY <2>1, OtherCalls
  <2>4. c # None
    <3>1. c.stage = "read" /\ c.view = currentView /\ currentView # None
      BY <1>7 DEF ReadCall, WalletApproves, SetAccount
    <3>2. c \in ReadCalls
      <4>1. currentView \in Views /\ account \in Actors /\ loadedState \in Cams
        BY <3>1 DEF WebInv, TypeInv, TypeOK, LoadIsAtomic
      <4> QED
        BY <2>1, <4>1 DEF ReadCall, ReadCalls, Views, Actors
    <3> QED
      BY <3>2, NoneAssumption
  <2> HIDE DEF c
  <2>5. Approved(q)' /\ handlers'[q].address = walletAccount
    <3>1. h \in ConnectHandlers
      BY <2>1 DEF ConnectHandlers
    <3>2. h # None /\ h.kind = "connect" /\ h.address = walletAccount /\ walletAccount # None
      BY <2>1, <3>1 DEF Handlers
    <3> QED
      BY <1>4, <3>2 DEF Approved, Runs
  <2>6. displayed.account = account
    BY <1>2, <2>1 DEF CurrentInv, AccountIsShown, Approved
  <2>7. AccountIsShown'
    BY <1>2, <1>4, <2>1, <2>2, <2>3, <2>4, <2>5, <2>6 DEF CurrentInv, AccountIsShown
  <2>8. NothingBeforeLoad'
    BY <1>2, <2>1 DEF NothingBeforeLoad
  <2> QED
    BY <1>6, <2>7, <2>8 DEF CurrentInv
<1>8. CASE WalletRefuses(q)
  <2>1. /\ h = None /\ handlers[q].address = None /\ UNCHANGED <<pendingCalls, account, displayed, wallet>>
    BY <1>3, <1>0, <1>8 DEF WalletRefuses, Finishes, Becomes, vars
  <2>2. ~ Approved(q) /\ ~ Approved(q)'
    BY <1>4, <2>1 DEF Approved, Runs
  <2>3. AccountIsShown'
    BY <1>2, <1>4, <2>1, <2>2 DEF CurrentInv, AccountIsShown
  <2>4. NothingBeforeLoad'
    BY <1>2, <2>1 DEF NothingBeforeLoad
  <2> QED
    BY <1>6, <2>3, <2>4 DEF CurrentInv
<1>9. CASE ConnectEnds(q)
  <2>1. /\ h = None /\ Approved(q) /\ pendingCalls' = [pendingCalls EXCEPT ![q] = None]
    BY <1>3, <1>0, <1>9 DEF ConnectEnds, Finishes, Becomes, Approved, ReadDone, CallFails, Settled
  <2>2. /\ pendingCalls[q] # None /\ pendingCalls[q].op = "setAccount"
        /\ pendingCalls[q].account = account /\ handlers[q].address = account
        /\ pendingCalls[q].previousAccount = displayed.account
    BY <2>1 DEF CurrentInv, AccountIsShown
  <2>3. \A p \in Calls : ~ Approved(p)'
    BY <1>2, <1>4, <2>1 DEF Approved, Runs
  <2>4. \A p \in Calls : pendingCalls'[p] # None => pendingCalls'[p].op # "setAccount"
    BY <1>2, <2>1, OtherCalls DEF CurrentInv, AccountIsShown
  <2>5. displayed' # None
    BY <1>2, <1>9 DEF ConnectEnds, WebInv, WebTypes
  <2>6. /\ displayed'.account = account' /\ displayed'.view.shownTo = displayed'.account
        /\ wallet' # None => wallet' = displayed'.account
    <3>1. CASE ReadDone(q) /\ wallet' = handlers[q].address /\ displayed' = NewSnapshot
      BY <2>2, <3>1 DEF ReadDone, ResolvedView, NewSnapshot
    <3>2. CASE CallFails(q) /\ UNCHANGED <<wallet, displayed>>
      BY <1>2, <2>2, <3>2 DEF CallFails, CurrentInv, AccountIsShown
    <3> QED
      BY <1>9, <3>1, <3>2 DEF ConnectEnds
  <2>7. AccountIsShown'
    BY <2>3, <2>4, <2>5, <2>6 DEF AccountIsShown
  <2>8. NothingBeforeLoad'
    BY <2>5 DEF NothingBeforeLoad
  <2> QED
    BY <1>6, <2>7, <2>8 DEF CurrentInv
<1> QED
  BY <1>7, <1>8, <1>9

\* A click submits the call on the screen, which is the account's.
LEMMA SendClickKeepsCurrent ==
  ASSUME ConnectIsModal, WebInv, CurrentInv, NEW q \in Calls, SendClick(q)
  PROVE  CurrentInv'
<1> USE DEF OtherHandlersStay, OtherCallsStay
<1>1. /\ UNCHANGED <<pendingCalls, account, displayed, wallet, interactionRevision, preparedCall>>
      /\ preparedCall # None /\ wallet # None /\ ~ Connecting /\ handlers[q] = None
  BY DEF SendClick, vars, UserActs
<1>2. CASE UNCHANGED handlers
  BY <1>1, <1>2, SameStep DEF currentState
<1>3. CASE ~ UNCHANGED handlers
  <2> DEFINE h == [kind |-> "send", stage |-> "account", interaction |-> interactionRevision,
                   send |-> sendRevision', call |-> preparedCall, from |-> wallet]
  <2>1. handlers' = [handlers EXCEPT ![q] = h] /\ sendRevision' \in Nat
    BY <1>3, WebAssumption DEF SendClick, Becomes, WebInv, WebTypes
  <2>2. h # None
    <3>1. h \in SendHandlers
      BY <1>1, <2>1, WebAssumption DEF SendHandlers, BeforeHash, WebInv, WebTypes
    <3> QED
      BY <3>1, NoneIsNoHandler DEF Handlers
  <2>3. /\ h.kind = "send" /\ h.stage = "account" /\ h.interaction = interactionRevision
        /\ h.call = preparedCall /\ h.from = wallet
    OBVIOUS
  <2> HIDE DEF h
  <2>4. handlers'[q] = h /\ OtherHandlersStay(q)
    BY <1>1, <2>1, OtherSlots
  <2>5. /\ Runs(q, "send")' /\ ~ Sends(q, "navigate")' /\ ~ Dispatched(q)' /\ ~ Approved(q)' /\ ~ Approved(q)
        /\ ~ Runs(q, "load")' /\ ~ Runs(q, "connect")' /\ ~ Runs(q, "navigate")'
    BY <1>1, <2>2, <2>3, <2>4 DEF Runs, Sends, Dispatched, Approved
  <2>6. \A p \in Calls : ~ Runs(p, "connect") /\ ~ Approved(p) /\ ~ (Dispatched(p) /\ Fresh(p))
    BY <1>1 DEF Connecting, Approved, CurrentInv, OneResult
  <2>7. displayed # None /\ preparedCall.account = wallet /\ preparedCall.button.actor = wallet
    <3>1. displayed # None
      BY <1>1 DEF CurrentInv, NothingBeforeLoad
    <3>2. displayed.view.shownTo = wallet /\ displayed.account = wallet
      BY <1>1, <3>1 DEF CurrentInv, AccountIsShown
    <3>3. preparedCall.button \in RenderedButtons(displayed.view) /\ preparedCall.account = displayed.account
      BY <1>1 DEF CurrentInv, PreparedCallIsCurrent
    <3> QED
      BY <3>1, <3>2, <3>3 DEF RenderedButtons
  <2>8. NothingBeforeLoad' /\ PreparedCallIsCurrent' 
    BY <1>1 DEF CurrentInv, NothingBeforeLoad, PreparedCallIsCurrent, RenderedButtons
  <2>9. RevisionsArePast'
    <3>1. interactionRevision <= interactionRevision
      BY DEF WebInv, WebTypes
    <3> QED
      BY <1>1, <2>3, <2>4, <2>5, <3>1 DEF CurrentInv, RevisionsArePast
  <2>10. SentForSender'
    BY <2>3, <2>4, <2>7 DEF CurrentInv, SentForSender
  <2>11. ConnectIsAlone' /\ OneResult'
    BY <1>1, <2>4, <2>5, <2>6 DEF CurrentInv, ConnectIsAlone, OneResult, OffersScreen, RenderedButtons
  <2>12. AccountIsShown'
    BY <1>1, <2>4, <2>5, <2>6 DEF CurrentInv, AccountIsShown
  <2>13. ReadsAreForTheAccount'
    BY <1>1, <2>4, <2>5 DEF CurrentInv, ReadsAreForTheAccount, Awaits
  <2> QED
    BY <2>8, <2>9, <2>10, <2>11, <2>12, <2>13 DEF CurrentInv
<1> QED
  BY <1>2, <1>3

\* What a handler awaited arrives, or it ends without it.
LEMMA AnswersKeepCurrent ==
  ASSUME WebInv, WebInv', CurrentInv, NEW q \in Calls,
         NavigateEnds(q) \/ PreflightEnds(q) \/ ContinuationShown(q)
  PROVE  CurrentInv'
<1> USE NoneIsNoHandler DEF screen, gates, walletVars, appVars, OtherHandlersStay, OtherCallsStay
<1>0. /\ pendingCalls \in [Calls -> LoadCalls \cup ReadCalls \cup {None}]
      /\ handlers \in [Calls -> Handlers \cup {None}]
  BY DEF WebInv, WebTypes, TypeInv, TypeOK
<1>1. /\ handlers[q] # None /\ handlers[q].kind \in {"navigate", "preflight", "send"}
      /\ handlers' = [handlers EXCEPT ![q] = None]
      /\ UNCHANGED <<wallet, interactionRevision>>
  BY DEF NavigateEnds, PreflightEnds, ContinuationShown, Finishes, Becomes, Runs, Sends, ReleaseSend
<1>2. ~ Approved(q)
  BY <1>1 DEF Approved, Runs
<1>3. displayed # None /\ displayed' # None
  BY <1>1 DEF WebInv, OneLoad, WebTypes, NavigateEnds, PreflightEnds, ContinuationShown
<1>4. CASE /\ Fresh(q) /\ ReadDone(q) /\ displayed' = NewSnapshot /\ preparedCall' = preparedCall
           /\ Runs(q, "navigate") \/ Sends(q, "navigate")
  <2>1. preparedCall = None
    BY <1>4 DEF CurrentInv, OneResult, Dispatched
  <2>2. pendingCalls[q].account = account
    BY <1>4 DEF CurrentInv, ReadsAreForTheAccount, ReadDone
  <2>3. /\ displayed'.account = account /\ displayed'.view.shownTo = account /\ account' = account
    BY <1>4, <2>2 DEF ReadDone, ResolvedView, NewSnapshot
  <2>4. displayed' \in Snapshots
    BY <1>3 DEF WebInv, WebTypes
  <2>5. pendingCalls' = [pendingCalls EXCEPT ![q] = None]
    BY <1>4 DEF ReadDone, Settled
  <2> QED
    BY <1>1, <1>3, <1>4, <2>1, <2>3, <2>4, <2>5, ShowStep
<1>5. CASE (ReadDone(q) \/ CallFails(q)) /\ displayed' = displayed /\ preparedCall' = preparedCall
  <2>1. pendingCalls' = [pendingCalls EXCEPT ![q] = None]
    BY <1>5 DEF ReadDone, CallFails, Settled
  <2>2. account' = account
    <3>1. CASE ReadDone(q)
      BY <3>1 DEF ReadDone
    <3>2. CASE CallFails(q)
      BY <1>2, <3>2 DEF CallFails, CurrentInv, AccountIsShown
    <3> QED
      BY <1>5, <3>1, <3>2
  <2> QED
    BY <1>1, <1>5, <2>1, <2>2, QuietStep
<1>6. CASE UNCHANGED vars /\ displayed' = displayed /\ preparedCall' = preparedCall
  <2>1. account' = account /\ pendingCalls' = [pendingCalls EXCEPT ![q] = pendingCalls[q]]
    BY <1>0, <1>6 DEF vars
  <2> QED
    BY <1>1, <1>6, <2>1, QuietStep
<1>7. CASE /\ PreflightEnds(q) /\ isCurrentInteraction(handlers[q].revision)
           /\ preparedCall' = handlers[q].call
  <2>1. /\ Runs(q, "preflight") /\ Dispatched(q) /\ Fresh(q)
        /\ UNCHANGED <<account, displayed, pendingCalls>>
    BY <1>7 DEF PreflightEnds, Dispatched, Fresh, vars
  <2>2. handlers'[q] = None /\ OtherHandlersStay(q)
    BY <1>1, OtherSlots
  <2>3. \A p \in Calls \ {q} : ~ Fresh(p)
    BY <2>1 DEF CurrentInv, OneResult
  <2>4. /\ \A kind : ~ Runs(q, kind)'
        /\ \A p \in Calls : ~ Runs(p, "connect")
    BY <2>1, <2>2 DEF Runs, CurrentInv, ConnectIsAlone
  <2>5. \A p \in Calls : ~ Fresh(p)' /\ ~ Approved(p) /\ ~ Approved(p)' /\ ~ Runs(p, "connect")'
    BY <2>2, <2>3, <2>4 DEF Fresh, Dispatched, Approved
  <2>6. ~ Sends(q, "navigate")' /\ ~ Dispatched(q)'
    BY <2>4 DEF Sends, Dispatched
  <2>7. NothingBeforeLoad' /\ PreparedCallIsCurrent'
    <3>1. OffersScreen(handlers[q].call)
      BY <2>1 DEF CurrentInv, OneResult
    <3> QED
      BY <1>3, <1>7, <2>1, <3>1 DEF NothingBeforeLoad, PreparedCallIsCurrent, OffersScreen, RenderedButtons
  <2>8. RevisionsArePast' /\ SentForSender'
    BY <1>1, <2>2, <2>4, <2>6 DEF CurrentInv, RevisionsArePast, SentForSender
  <2>9. ConnectIsAlone' /\ OneResult'
    BY <2>5 DEF ConnectIsAlone, OneResult
  <2>10. AccountIsShown'
    BY <1>1, <2>1, <2>5 DEF CurrentInv, AccountIsShown
  <2>11. ReadsAreForTheAccount'
    BY <2>1, <2>2, <2>4, <2>5 DEF CurrentInv, ReadsAreForTheAccount, Awaits
  <2> QED
    BY <2>7, <2>8, <2>9, <2>10, <2>11 DEF CurrentInv
<1>8. CASE NavigateEnds(q)
  BY <1>4, <1>5, <1>8 DEF NavigateEnds, Fresh, Dispatched
<1>9. CASE PreflightEnds(q)
  BY <1>6, <1>7, <1>9 DEF PreflightEnds
<1>10. CASE ContinuationShown(q)
  BY <1>4, <1>5, <1>10 DEF ContinuationShown, Fresh, Sends
<1> QED
  BY <1>8, <1>9, <1>10

\* A submission goes on or is given up.
LEMMA SubmissionKeepsCurrent ==
  ASSUME WebInv, CurrentInv, NEW q \in Calls,
         \/ AccountChecked(q) \/ Simulated(q) \/ ChainSelected(q) \/ Signed(q) \/ Diagnosed(q) \/ Confirmed(q)
         \/ SubmissionFails(q) \/ TransactionFails(q) \/ ContinuationFails(q)
  PROVE  CurrentInv'
<1> USE NoneIsNoHandler DEF screen, gates, walletVars, appVars
<1>0. /\ pendingCalls \in [Calls -> LoadCalls \cup ReadCalls \cup {None}]
      /\ handlers \in [Calls -> Handlers \cup {None}]
  BY DEF WebInv, WebTypes, TypeInv, TypeOK
<1>1. /\ Runs(q, "send") /\ handlers[q] # None /\ handlers[q].kind = "send"
      /\ handlers[q] \in SendHandlers /\ ~ Approved(q)
  <2>1. Runs(q, "send")
    BY DEF AccountChecked, Simulated, ChainSelected, Signed, Diagnosed, Confirmed, SubmissionFails,
           TransactionFails, ContinuationFails, Sends, SendThrows
  <2> QED
    BY <2>1, SubmissionTyped DEF Runs, Approved
<1>2. UNCHANGED <<displayed, wallet, interactionRevision>>
  BY DEF AccountChecked, Simulated, ChainSelected, Signed, Diagnosed, Confirmed, SubmissionFails,
         TransactionFails, ContinuationFails, ContinueOrAbort, SendThrows
<1>3. preparedCall' \in {None, preparedCall}
  BY DEF AccountChecked, Simulated, ChainSelected, Signed, Diagnosed, Confirmed, SubmissionFails,
         TransactionFails, ContinuationFails, ContinueOrAbort, SendThrows
<1>4. ASSUME ~ Confirmed(q) \/ UNCHANGED vars
      PROVE  /\ account' = account
             /\ \E c \in {None, pendingCalls[q]} : pendingCalls' = [pendingCalls EXCEPT ![q] = c]
  <2>1. CASE UNCHANGED vars
    BY <1>0, <2>1 DEF vars
  <2>2. CASE CallFails(q)
    BY <1>1, <2>2 DEF CallFails, Settled, CurrentInv, AccountIsShown
  <2> QED
    BY <1>4, <2>1, <2>2 DEF AccountChecked, Simulated, ChainSelected, Signed, Diagnosed, SubmissionFails,
                      TransactionFails, ContinuationFails, ContinueOrAbort
<1>5. ASSUME NEW stage \in BeforeHash \cup AfterHash, GoesTo(q, stage)
      PROVE  \E h : /\ handlers' = [handlers EXCEPT ![q] = h] /\ h # None /\ h.stage = stage
                    /\ h.kind = "send" /\ h.interaction = handlers[q].interaction
                    /\ h.call = handlers[q].call /\ h.from = handlers[q].from
  <2> DEFINE h == [handlers[q] EXCEPT !.stage = stage]
  <2>1. h \in SendHandlers
    BY <1>1, <1>5 DEF SendHandlers
  <2>2. h # None /\ h.stage = stage /\ h.kind = "send" /\ h.interaction = handlers[q].interaction
        /\ h.call = handlers[q].call /\ h.from = handlers[q].from
    BY <1>1, <2>1 DEF Handlers, SendHandlers
  <2> QED
    BY <1>5, <2>2 DEF GoesTo, Becomes
<1>6. CASE ReleaseSend(q) /\ (~ Confirmed(q) \/ UNCHANGED vars)
  <2>1. handlers' = [handlers EXCEPT ![q] = None]
    BY <1>6 DEF ReleaseSend, Finishes, Becomes
  <2>2. PICK c \in {None, pendingCalls[q]} : pendingCalls' = [pendingCalls EXCEPT ![q] = c]
    BY <1>4, <1>6
  <2> QED
    BY <1>1, <1>2, <1>3, <1>4, <1>6, <2>1, <2>2, QuietStep
<1>7. ASSUME NEW stage \in {"simulate", "chain", "accountAgain", "signing", "diagnose", "receipt"},
             GoesTo(q, stage), ~ Confirmed(q)
      PROVE  CurrentInv'
  <2>1. stage \in BeforeHash \cup AfterHash /\ stage # "navigate"
    BY DEF BeforeHash, AfterHash
  <2>2. PICK h : /\ handlers' = [handlers EXCEPT ![q] = h] /\ h # None /\ h.stage = stage
                 /\ h.kind = "send" /\ h.interaction = handlers[q].interaction
                 /\ h.call = handlers[q].call /\ h.from = handlers[q].from
    BY <1>5, <1>7, <2>1
  <2>3. PICK c \in {None, pendingCalls[q]} : pendingCalls' = [pendingCalls EXCEPT ![q] = c]
    BY <1>4, <1>7
  <2> QED
    BY <1>1, <1>2, <1>3, <1>4, <1>7, <2>1, <2>2, <2>3, QuietStep
<1>8. CASE /\ Confirmed(q) /\ GoesTo(q, "navigate") /\ ownsInteraction(q) /\ preparedCall' = None
           /\ Navigate(q, Then[handlers[q].call.button.route], handlers[q].call.button.inputs)
  <2> DEFINE then == Then[handlers[q].call.button.route]
             inputs == handlers[q].call.button.inputs
  <2>1. /\ Navigate(q, then, inputs) /\ GoesTo(q, "navigate")
        /\ ownsInteraction(q) /\ preparedCall' = None
    BY <1>8
  <2>2. PICK h : /\ handlers' = [handlers EXCEPT ![q] = h] /\ h # None /\ h.stage = "navigate"
                 /\ h.kind = "send" /\ h.interaction = handlers[q].interaction
                 /\ h.call = handlers[q].call /\ h.from = handlers[q].from
    BY <1>5, <2>1 DEF AfterHash
  <2> DEFINE c == ReadCall("navigate", loadedState, then, inputs, account, None)
  <2>3. pendingCalls' = [pendingCalls EXCEPT ![q] = c] /\ account' = account
    BY <2>1 DEF Navigate, BeginRead
  <2>4. c # None
    <3>1. handlers[q].call.button \in Buttons /\ then \in ReadRoutes /\ loadedState # 0
      BY <1>1, <2>1 DEF SendHandlers, PreparedCalls, Navigate, BeginRead
    <3>2. loadedState \in Cams /\ account \in Actors /\ inputs \in Texts
      BY <3>1 DEF WebInv, TypeInv, TypeOK, Buttons
    <3>3. c \in ReadCalls
      BY <3>1, <3>2 DEF ReadCall, ReadCalls
    <3> QED
      BY <3>3, NoneAssumption
  <2>5. c.op = "navigate" /\ c.account = account
    BY DEF ReadCall
  <2> HIDE DEF c
  <2> QED
    BY <1>1, <1>2, <1>3, <2>1, <2>2, <2>3, <2>4, <2>5, QuietStep
<1>9. CASE AccountChecked(q) \/ Simulated(q) \/ ChainSelected(q)
  <2>1. ~ Confirmed(q)
    BY <1>9 DEF AccountChecked, Simulated, ChainSelected, Confirmed, Sends
  <2> QED
    BY <1>6, <1>7, <1>9, <2>1 DEF AccountChecked, Simulated, ChainSelected, ContinueOrAbort
<1>10. CASE Signed(q) \/ Diagnosed(q)
  <2>1. ~ Confirmed(q)
    BY <1>10 DEF Signed, Diagnosed, Confirmed, Sends
  <2> QED
    BY <1>6, <1>7, <1>10, <2>1 DEF Signed, Diagnosed
<1>11. CASE Confirmed(q)
  <2>1. CASE ReleaseSend(q) /\ UNCHANGED vars
    BY <1>6, <2>1
  <2> QED
    BY <1>8, <1>11, <2>1 DEF Confirmed
<1>12. CASE SubmissionFails(q) \/ TransactionFails(q) \/ ContinuationFails(q)
  <2>1. ReleaseSend(q)
    BY <1>12 DEF SubmissionFails, TransactionFails, ContinuationFails, SendThrows
  <2> QED
    BY <1>6, <1>11, <2>1
<1> QED
  BY <1>9, <1>10, <1>11, <1>12

LEMMA CurrentInit == WebInit => CurrentInv
<1> SUFFICES ASSUME WebInit PROVE CurrentInv
  OBVIOUS
<1>1. /\ handlers = [q \in Calls |-> None] /\ pendingCalls = [q \in Calls |-> None]
      /\ displayed = None /\ wallet = None /\ preparedCall = None
  BY DEF WebInit, Init
<1>2. \A q \in Calls : /\ handlers[q] = None /\ pendingCalls[q] = None
                       /\ \A kind : ~ Runs(q, kind)
  BY <1>1 DEF Runs
<1>3. \A q \in Calls : ~ Dispatched(q) /\ ~ Fresh(q) /\ ~ Approved(q) /\ ~ Sends(q, "navigate")
  BY <1>2 DEF Dispatched, Fresh, Approved, Sends
<1>4. NothingBeforeLoad /\ RevisionsArePast /\ ConnectIsAlone /\ AccountIsShown
  BY <1>1, <1>2, <1>3 DEF NothingBeforeLoad, RevisionsArePast, ConnectIsAlone, AccountIsShown
<1>5. ReadsAreForTheAccount /\ OneResult /\ SentForSender /\ PreparedCallIsCurrent
  BY <1>1, <1>2, <1>3 DEF ReadsAreForTheAccount, OneResult, SentForSender, PreparedCallIsCurrent
<1> QED
  BY <1>4, <1>5 DEF CurrentInv

LEMMA CurrentNext ==
  ASSUME ConnectIsModal, WebInv, CurrentInv, [WebNext]_webVars
  PROVE  CurrentInv'
<1>0. WebInv'
  BY WebNextTyped
<1>1. ASSUME NEW q \in Calls, StartLoad(q) \/ LoadGoesOn(q) \/ LoadEnds(q) PROVE CurrentInv'
  BY <1>1, LoadKeepsCurrent
<1>2. ASSUME NEW q \in Calls, NavigateEnds(q) \/ PreflightEnds(q) \/ ContinuationShown(q) PROVE CurrentInv'
  BY <1>0, <1>2, AnswersKeepCurrent
<1>3. CASE \/ \E q \in Calls : Connect(q)
           \/ \E q \in Calls, button \in Buttons : Dispatch(q, button)
           \/ \E text \in Texts : UpdateInput(text)
  BY <1>3, ActsKeepCurrent
<1>4. ASSUME NEW q \in Calls, WalletApproves(q) \/ WalletRefuses(q) \/ ConnectEnds(q) PROVE CurrentInv'
  BY <1>0, <1>4, ConnectKeepsCurrent
<1>5. ASSUME NEW q \in Calls, SendClick(q) PROVE CurrentInv'
  BY <1>5, SendClickKeepsCurrent
<1>6. ASSUME NEW q \in Calls,
             \/ AccountChecked(q) \/ Simulated(q) \/ ChainSelected(q) \/ Signed(q) \/ Diagnosed(q) \/ Confirmed(q)
             \/ SubmissionFails(q) \/ TransactionFails(q) \/ ContinuationFails(q)
      PROVE  CurrentInv'
  BY <1>6, SubmissionKeepsCurrent
<1>7. CASE (\E actor \in Accounts : SwitchWalletAccount(actor)) \/ UNCHANGED webVars
  BY <1>7, SameStep DEF currentState, SwitchWalletAccount, webVars, vars, appVars, screen, gates
<1> QED
  BY <1>1, <1>2, <1>3, <1>4, <1>5, <1>6, <1>7 DEF WebNext

\* While a connection keeps the user from acting, every state of the screen, of
\* the session's account and of the handlers in flight fits together
\* (App.tsx 59-174, 287-314).
THEOREM WebStateIsCurrent == ASSUME ConnectIsModal PROVE WebSpec => [](WebInv /\ CurrentInv)
<1>1. WebInit => WebInv /\ CurrentInv
  BY WebInitTyped, CurrentInit
<1>2. WebInv /\ CurrentInv /\ [WebNext]_webVars => (WebInv /\ CurrentInv)'
  BY WebNextTyped, CurrentNext
<1> QED
  BY <1>1, <1>2, PTL DEF WebSpec

\* The prepared call on the screen is one of the screen's buttons, for the account
\* on the screen, provided that the user leaves the page alone while the wallet asks
\* for a connection (App.tsx 150-174, 287-314).
THEOREM WebPreparedCallIsCurrent == ASSUME ConnectIsModal PROVE WebSpec => []PreparedCallIsCurrent
<1>1. WebInv /\ CurrentInv => PreparedCallIsCurrent
  BY DEF CurrentInv
<1> QED
  BY <1>1, WebStateIsCurrent, PTL

\* What the wallet is asked to sign was prepared for its sender, on the same
\* condition (App.tsx 185-236, transactions.ts 69-94).
THEOREM WebSignedForSender == ASSUME ConnectIsModal PROVE WebSpec => []SignedForSender
<1>1. WebInv /\ CurrentInv => SignedForSender
  BY DEF CurrentInv, SentForSender, SignedForSender, Sends
<1> QED
  BY <1>1, WebStateIsCurrent, PTL
=============================================================================
