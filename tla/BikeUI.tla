------------------------------- MODULE BikeUI --------------------------------
(***************************************************************************)
(* What the user of the registry is offered: the read-only projections of   *)
(* BicycleComponentManagerUI.sol, which name a view and its actions for an  *)
(* account, and the nodes of cam/ui.json, which give a view its text fields *)
(* and an action what it reads of them.  A view is asked for between        *)
(* transactions; NoSerial is the empty serial number, None no account.      *)
(***************************************************************************)
EXTENDS BikeRegistry

CONSTANT NoSerial

ASSUME UIAssumption == None \notin Accounts /\ NoSerial \notin Serials

Lookup == {"lookupComponent"}

canRegister(account) == account \in world.registrars

\* The manager asks the collection that new components are minted into.
componentTokenPaused == world.tokenPaused[world.componentsAddress]

_lookupAndRegisterActions(account) ==
  Lookup \cup
  {action \in {"openRegister"} : ~ world.paused /\ ~ componentTokenPaused /\ canRegister(account)}

_entryActions(account) ==
  IF account = None \/ world.paused THEN Lookup
  ELSE _lookupAndRegisterActions(account) \cup {"setAccountInfo"}

_registerReadyActions ==
  Lookup \cup {action \in {"registerComponent"} : ~ world.paused /\ ~ componentTokenPaused}

\* Mutated form of _componentActions: the pause of the collection is not looked at.
_componentActionsThoughPaused(account, s) ==
  Lookup \cup
  {action \in {"updateComponentMetadata", "markComponentMissing", "clearComponentMissing", "retireComponent"} :
     /\ ~ world.paused /\ account # None
     /\ CASE action = "updateComponentMetadata" -> canUpdateMetadata(account, s)
          [] action = "markComponentMissing" -> canMarkMissing(account, s)
          [] action = "clearComponentMissing" -> canClearMissing(account, s)
          [] action = "retireComponent" -> canRetire(account, s)}

_componentActions(account, s) ==
  Lookup \cup
  {action \in {"updateComponentMetadata", "markComponentMissing", "clearComponentMissing", "retireComponent"} :
     /\ ~ world.paused /\ account # None
     /\ CASE action = "updateComponentMetadata" -> ~ componentTokenPaused /\ canUpdateMetadata(account, s)
          [] action = "markComponentMissing" -> canMarkMissing(account, s)
          [] action = "clearComponentMissing" -> canClearMissing(account, s)
          [] action = "retireComponent" -> canRetire(account, s)}

View(viewId, actions) == [viewId |-> viewId, actions |-> actions]

viewEntry(account) == View("entry", _entryActions(account))

_componentViewId(s) ==
  CASE StatusOf(s) = "Active" -> "component.active"
    [] StatusOf(s) = "Missing" -> "component.missing"
    [] StatusOf(s) = "Retired" -> "component.retired"

viewComponent(s, account) ==
  CASE s = NoSerial -> View("component.empty", _lookupAndRegisterActions(account))
    [] s # NoSerial /\ ~ Registered(s) -> View("component.notFound", _lookupAndRegisterActions(account))
    [] OTHER -> View(_componentViewId(s), _componentActions(account, s))

\* Mutated form of viewRegister: without a serial number the form is ready all the same.
viewRegisterReadyWhenEmpty(s, account) ==
  CASE s = NoSerial -> View("register.empty", _registerReadyActions)
    [] s # NoSerial /\ canRegister(account) /\ ~ Registered(s) -> View("register.ready", _registerReadyActions)
    [] OTHER -> View("register.blocked", Lookup)

viewRegister(s, account) ==
  CASE s = NoSerial -> View("register.empty", _lookupAndRegisterActions(account))
    [] s # NoSerial /\ canRegister(account) /\ ~ Registered(s) -> View("register.ready", _registerReadyActions)
    [] OTHER -> View("register.blocked", Lookup)

-----------------------------------------------------------------------------
(* cam/ui.json                                                              *)

\* The keys of the text fields of a view, those of component.found included.
FieldsOf(viewId) ==
  {"serialNumber"} \cup
  CASE viewId = "entry" -> {"accountInfo"}
    [] viewId = "component.active" -> {"tokenURI", "reportURI"}
    [] viewId = "component.missing" -> {"tokenURI", "resolutionURI"}
    [] viewId = "register.empty" -> {"tokenURI"}
    [] viewId = "register.ready" -> {"tokenURI", "owner"}
    [] OTHER -> {}

\* What a button reads of the state; a screen with a button that reads more is not rendered.
StateOf(action) ==
  CASE action \in {"lookupComponent", "openRegister"} -> {"serialNumber"}
    [] action = "registerComponent" -> {"owner", "serialNumber", "tokenURI"}
    [] action = "setAccountInfo" -> {"accountInfo"}
    [] action = "updateComponentMetadata" -> {"tokenURI"}
    [] action = "markComponentMissing" -> {"reportURI"}
    [] action = "clearComponentMissing" -> {"resolutionURI"}
    [] action = "retireComponent" -> {}

-----------------------------------------------------------------------------
(* Properties                                                               *)

\* The manager performs an action of a view of s for the account: a write of BikeRegistry
\* is its guard and assignments.
Succeeds(action, s, account) ==
  CASE action = "registerComponent" -> MayRegister(account, s) /\ MayMint(s)
    [] action = "setAccountInfo" -> ~ world.paused
    [] action = "updateComponentMetadata" -> MaySetMetadata(account, s)
    [] action = "markComponentMissing" -> MayMarkMissing(account, s)
    [] action = "clearComponentMissing" -> MayClearMissing(account, s)
    [] action = "retireComponent" -> MayRetire(account, s)

\* What no view looks at: whether the manager may write to the collection, whether the
\* component lives in the collection that is configured, and who else minted its token.
CollectionIsReady(action, s) ==
  LET c == world.componentsAddress
  IN CASE action = "registerComponent" -> "minter" \in world.managerRoles[c] /\ world.tokens[c][s] = None
       [] action = "updateComponentMetadata" -> world.records[s].collection = c /\ "uriSetter" \in world.managerRoles[c]
       [] OTHER -> TRUE

ComponentWrites == {"updateComponentMetadata", "markComponentMissing", "clearComponentMissing", "retireComponent"}

\* A view offers an account a write exactly when the manager would perform it: the
\* projections, the pauses and the guards of the writes are separate code in two
\* contracts (BicycleComponentManagerUI.sol 111-182, 269-345; BicycleComponentManager.sol
\* 499-522 against 260-301, 347-359 and 528-600).
OfferedActionsSucceed ==
  frames = <<>> =>
    \A account \in Accounts :
      /\ "setAccountInfo" \in viewEntry(account).actions <=> Succeeds("setAccountInfo", NoSerial, account)
      /\ \A s \in Serials :
           /\ CollectionIsReady("registerComponent", s) =>
                ("registerComponent" \in viewRegister(s, account).actions <=> Succeeds("registerComponent", s, account))
           /\ \A action \in ComponentWrites :
                Registered(s) /\ CollectionIsReady(action, s) =>
                  (action \in viewComponent(s, account).actions <=> Succeeds(action, s, account))

\* Every view has the fields its actions read, with and without an account: a button
\* that reads a field of another view takes the whole screen with it (ui.json;
\* BicycleComponentManagerUI.sol 111-182, 249-345).
OfferedActionsRender ==
  frames = <<>> =>
    \A account \in Accounts \cup {None}, s \in Serials \cup {NoSerial} :
      \A view \in {viewEntry(account), viewComponent(s, account), viewRegister(s, account)} :
        \A action \in view.actions : StateOf(action) \subseteq FieldsOf(view.viewId)
=============================================================================
