------------------------------- MODULE CamWeb -------------------------------
(***************************************************************************)
(* The web application of js/apps/cam-web: the App component and the       *)
(* handlers it runs against one viewer session and one injected wallet.    *)
(*                                                                         *)
(* The App awaits nothing before it lets the user act again, so its calls  *)
(* to the session overlap (its runs give Overlap the value TRUE).  It      *)
(* numbers interactions and submissions, and a handler that resumes after  *)
(* an await compares its number with the current one before it touches     *)
(* what is on the screen.  handlers[q] is what the closure of the handler  *)
(* in slot q holds; a session call it awaits is in the same slot of        *)
(* pendingCalls.                                                           *)
(***************************************************************************)
EXTENDS ViewerSession

CONSTANTS
  Then,             \* Then[r]: the read route a write route continues to, or None
  ConnectIsModal,   \* does the user leave the page alone while connecting?
  MaxInteractions,  \* bound on interactionRevision
  MaxSends,         \* bound on sendRevision
  MaxWalletSwitches \* bound on the wallet's changes of account

ASSUME WebAssumption ==
  /\ InitialAccount \in Accounts
  /\ Then \in [WriteRoutes -> ReadRoutes \cup {None}]
  /\ ConnectIsModal \in BOOLEAN
  /\ MaxInteractions \in Nat /\ MaxSends \in Nat /\ MaxWalletSwitches \in Nat

Snapshots == [view: Views, account: Actors]

BeforeHash == {"account", "simulate", "chain", "accountAgain", "signing"}
AfterHash == {"diagnose", "receipt", "navigate"}

LoadHandlers == [kind: {"load"}]
NavigateHandlers == [kind: {"navigate"}, revision: Nat]
PreflightHandlers == [kind: {"preflight"}, revision: Nat, call: PreparedCalls]
ConnectHandlers == [kind: {"connect"}, address: Accounts \cup {None}]
SendHandlers ==
  [kind: {"send"}, stage: BeforeHash \cup AfterHash, interaction: Nat, send: Nat,
   call: PreparedCalls, from: Accounts]

Handlers ==
  LoadHandlers \cup NavigateHandlers \cup PreflightHandlers \cup ConnectHandlers \cup SendHandlers

ASSUME NoneIsNoHandler == None \notin Handlers /\ None \notin Snapshots /\ None \notin Accounts

VARIABLES
  loadStatus,          \* "loading", "ready" or "failed"
  displayed,           \* the snapshot on the screen, None until ready
  wallet,              \* the connected address, None when disconnected
  walletAccount,       \* the account selected in the wallet (environment)
  walletSwitches,      \* how often it changed
  notice,              \* what the notice is about
  preparedCall,        \* the prepared call on the screen, or None
  sending,             \* React state behind the send button
  sendingRef,          \* the synchronous submission gate
  interactionRevision,
  sendRevision,
  handlers

screen == <<loadStatus, displayed, wallet, notice, preparedCall, sending>>
gates == <<sendingRef, interactionRevision, sendRevision>>
walletVars == <<walletAccount, walletSwitches>>
appVars == <<screen, gates, walletVars, handlers>>
webVars == <<vars, appVars>>

WebInit ==
  /\ Init
  /\ loadStatus = "loading"
  /\ displayed = None
  /\ wallet = None
  /\ walletAccount \in Accounts
  /\ walletSwitches = 0
  /\ notice = "none"
  /\ preparedCall = None
  /\ sending = FALSE
  /\ sendingRef = FALSE
  /\ interactionRevision = 0
  /\ sendRevision = 0
  /\ handlers = [q \in Calls |-> None]

-----------------------------------------------------------------------------

Runs(q, kind) == handlers[q] # None /\ handlers[q].kind = kind
Connecting == \E q \in Calls : Runs(q, "connect")

\* The page is ready, a slot is free and the user is at the page.
UserActs(q) ==
  /\ loadStatus = "ready"
  /\ handlers[q] = None
  /\ ConnectIsModal => ~Connecting

NextInteraction ==
  /\ interactionRevision < MaxInteractions
  /\ interactionRevision' = interactionRevision + 1

isCurrentInteraction(revision) == interactionRevision = revision
Becomes(q, handler) == handlers' = [handlers EXCEPT ![q] = handler]
Finishes(q) == Becomes(q, None)

\* loadedSnapshot(currentView) of the session after this step.
NewSnapshot == [view |-> currentView', account |-> account']

-----------------------------------------------------------------------------
(* The load effect                                                          *)

\* The effect creates a session and loads it once.
StartLoad(q) ==
  /\ loads = 0
  /\ loadStatus = "loading" /\ handlers[q] = None
  /\ Load(q)
  /\ Becomes(q, [kind |-> "load"])
  /\ UNCHANGED <<screen, gates, walletVars>>

LoadGoesOn(q) ==
  /\ LoadHost(q) \/ LoadContracts(q) \/ LoadUi(q)
  /\ UNCHANGED appVars

LoadEnds(q) ==
  /\ Runs(q, "load")
  /\ Finishes(q)
  /\ \/ /\ ReadDone(q)
        /\ loadStatus' = "ready"
        /\ displayed' = NewSnapshot
     \/ /\ CallFails(q)
        /\ loadStatus' = "failed"
        /\ UNCHANGED displayed
  /\ UNCHANGED <<wallet, notice, preparedCall, sending, gates, walletVars>>

-----------------------------------------------------------------------------
(* dispatch, preflightPreparedCall and updateInput                          *)

\* The button is one of the screen's; the session checks it against its own
\* current view, and throws when it is not there.
Dispatch(q, button) ==
  /\ UserActs(q)
  /\ button \in RenderedButtons(displayed.view)
  /\ NextInteraction
  /\ preparedCall' = None
  /\ \/ /\ DispatchRead(q, button)
        /\ Becomes(q, [kind |-> "navigate", revision |-> interactionRevision'])
        /\ notice' = "none"
     \/ /\ DispatchWrite(button)
        /\ Becomes(q, [kind |-> "preflight", revision |-> interactionRevision', call |-> lastCall'])
        /\ notice' = "none"
     \/ /\ ~MayDispatch(button)
        /\ notice' = "error"
        /\ UNCHANGED <<vars, handlers>>
  /\ UNCHANGED <<loadStatus, displayed, wallet, sending, sendingRef, sendRevision, walletVars>>

\* The session has moved either way; the screen moves only with the interaction.
NavigateEnds(q) ==
  /\ Runs(q, "navigate")
  /\ Finishes(q)
  /\ LET current == isCurrentInteraction(handlers[q].revision)
     IN \/ /\ ReadDone(q)
           /\ displayed' = IF current THEN NewSnapshot ELSE displayed
           /\ UNCHANGED notice
        \/ /\ CallFails(q)
           /\ notice' = IF current THEN "error" ELSE notice
           /\ UNCHANGED displayed
  /\ UNCHANGED <<loadStatus, wallet, preparedCall, sending, gates, walletVars>>

\* Mutated form of PreflightEnds: the revision is not looked at.
PreflightEndsUnchecked(q) ==
  /\ Runs(q, "preflight")
  /\ Finishes(q)
  /\ \/ preparedCall' = handlers[q].call /\ notice' = "prepared"
     \/ notice' = "error" /\ UNCHANGED preparedCall
  /\ UNCHANGED <<vars, loadStatus, displayed, wallet, sending, gates, walletVars>>

PreflightEnds(q) ==
  /\ Runs(q, "preflight")
  /\ Finishes(q)
  /\ IF isCurrentInteraction(handlers[q].revision)
     THEN \/ preparedCall' = handlers[q].call /\ notice' = "prepared"
          \/ notice' = "error" /\ UNCHANGED preparedCall
     ELSE UNCHANGED <<preparedCall, notice>>
  /\ UNCHANGED <<vars, loadStatus, displayed, wallet, sending, gates, walletVars>>

\* The patch goes to the session's current view, which need not be the one on
\* the screen; the session throws when that view has no such input.
UpdateInput(text) ==
  /\ loadStatus = "ready" /\ (ConnectIsModal => ~Connecting)
  /\ displayed.view.route \in FieldRoutes
  /\ NextInteraction
  /\ preparedCall' = None
  /\ \/ /\ UpdateState(text)
        /\ displayed' = NewSnapshot
        /\ UNCHANGED notice
     \/ /\ currentView.route \notin FieldRoutes
        /\ notice' = "error"
        /\ UNCHANGED <<vars, displayed>>
  /\ UNCHANGED <<loadStatus, wallet, sending, sendingRef, sendRevision, walletVars, handlers>>

-----------------------------------------------------------------------------
(* connectWallet                                                            *)

\* Mutated form of Connect: nothing is invalidated.
ConnectOnly(q) ==
  /\ UserActs(q)
  /\ Becomes(q, [kind |-> "connect", address |-> None])
  /\ UNCHANGED <<vars, screen, gates, walletVars>>

\* The interaction is invalidated here, and only here: the handler does not
\* look at the revision again after its awaits.
Connect(q) ==
  /\ UserActs(q)
  /\ NextInteraction
  /\ preparedCall' = None
  /\ Becomes(q, [kind |-> "connect", address |-> None])
  /\ UNCHANGED <<vars, loadStatus, displayed, wallet, notice, sending, sendingRef, sendRevision, walletVars>>

\* eth_requestAccounts answers with the account selected in the wallet.
WalletApproves(q) ==
  /\ Runs(q, "connect") /\ handlers[q].address = None
  /\ SetAccount(q, walletAccount)
  /\ Becomes(q, [kind |-> "connect", address |-> walletAccount])
  /\ UNCHANGED <<screen, gates, walletVars>>

WalletRefuses(q) ==
  /\ Runs(q, "connect") /\ handlers[q].address = None
  /\ notice' = "error"
  /\ Finishes(q)
  /\ UNCHANGED <<vars, loadStatus, displayed, wallet, preparedCall, sending, gates, walletVars>>

ConnectEnds(q) ==
  /\ Runs(q, "connect") /\ handlers[q].address # None
  /\ Finishes(q)
  /\ \/ /\ ReadDone(q)
        /\ wallet' = handlers[q].address
        /\ displayed' = NewSnapshot
        /\ notice' = "connected"
     \/ /\ CallFails(q)
        /\ notice' = "error"
        /\ UNCHANGED <<wallet, displayed>>
  /\ UNCHANGED <<loadStatus, preparedCall, sending, gates, walletVars>>

\* The user selects another account inside the wallet.
SwitchWalletAccount(actor) ==
  /\ walletSwitches < MaxWalletSwitches
  /\ actor # walletAccount
  /\ walletAccount' = actor
  /\ walletSwitches' = walletSwitches + 1
  /\ UNCHANGED <<vars, screen, gates, handlers>>

-----------------------------------------------------------------------------
(* sendPreparedCall and submitPreparedContractCall                          *)

ownsInteraction(q) == isCurrentInteraction(handlers[q].interaction)
ownsSend(q) == sendRevision = handlers[q].send
Sends(q, stage) == Runs(q, "send") /\ handlers[q].stage = stage
GoesTo(q, stage) == Becomes(q, [handlers[q] EXCEPT !.stage = stage])

\* Mutated form of SendClick: the gate is the React state of the last render,
\* which a second click overtakes.
SendClickUngated(q) ==
  /\ UserActs(q)
  /\ preparedCall # None /\ wallet # None
  /\ sendRevision < MaxSends
  /\ sendRevision' = sendRevision + 1
  /\ sendingRef' = TRUE
  /\ sending' = TRUE
  /\ notice' = "none"
  /\ Becomes(q, [kind |-> "send", stage |-> "account", interaction |-> interactionRevision,
                 send |-> sendRevision', call |-> preparedCall, from |-> wallet])
  /\ UNCHANGED <<vars, loadStatus, displayed, wallet, preparedCall, interactionRevision, walletVars>>

\* A click reaches the handler even when the button is about to be disabled.
SendClick(q) ==
  /\ UserActs(q)
  /\ preparedCall # None /\ wallet # None
  /\ IF sendingRef
     THEN /\ notice' = "busy"
          /\ UNCHANGED <<sending, sendingRef, sendRevision, handlers>>
     ELSE /\ sendRevision < MaxSends
          /\ sendRevision' = sendRevision + 1
          /\ sendingRef' = TRUE
          /\ sending' = TRUE
          /\ notice' = "none"
          /\ Becomes(q, [kind |-> "send", stage |-> "account", interaction |-> interactionRevision,
                         send |-> sendRevision', call |-> preparedCall, from |-> wallet])
  /\ UNCHANGED <<vars, loadStatus, displayed, wallet, preparedCall, interactionRevision, walletVars>>

\* The finally block.
ReleaseSend(q) ==
  /\ sendingRef' = FALSE
  /\ sending' = IF ownsSend(q) THEN FALSE ELSE sending
  /\ Finishes(q)

\* Mutated form of SendThrows: every error before the hash is swallowed.
SendThrowsSilently(q) ==
  /\ Runs(q, "send")
  /\ LET hash == handlers[q].stage \in AfterHash
     IN /\ preparedCall' = IF hash /\ ownsInteraction(q) THEN None ELSE preparedCall
        /\ notice' = IF hash THEN "failed" ELSE notice
  /\ ReleaseSend(q)
  /\ UNCHANGED <<loadStatus, displayed, wallet, interactionRevision, sendRevision, walletVars>>

\* The catch block: an error before the hash belongs to the interaction, an
\* error after it to the send.
SendThrows(q) ==
  /\ Runs(q, "send")
  /\ LET hash == handlers[q].stage \in AfterHash
         silent == ~ownsSend(q) \/ (~hash /\ ~ownsInteraction(q))
     IN /\ preparedCall' = IF ~silent /\ hash /\ ownsInteraction(q) THEN None ELSE preparedCall
        /\ notice' = IF silent THEN notice ELSE IF hash THEN "failed" ELSE "error"
  /\ ReleaseSend(q)
  /\ UNCHANGED <<loadStatus, displayed, wallet, interactionRevision, sendRevision, walletVars>>

\* shouldContinue after an effect before the signature: go on, or give up
\* without a word.
ContinueOrAbort(q, next) ==
  /\ IF ownsInteraction(q) /\ ownsSend(q)
     THEN GoesTo(q, next) /\ UNCHANGED <<sending, sendingRef>>
     ELSE ReleaseSend(q)
  /\ UNCHANGED <<vars, loadStatus, displayed, wallet, notice, preparedCall,
                 interactionRevision, sendRevision, walletVars>>

\* ensureConnectedWalletAccount compares the wallet's account with the sender.
AccountChecked(q) ==
  \/ /\ Sends(q, "account") /\ walletAccount = handlers[q].from
     /\ ContinueOrAbort(q, "simulate")
  \/ /\ Sends(q, "accountAgain") /\ walletAccount = handlers[q].from
     /\ ContinueOrAbort(q, "signing")

Simulated(q) == Sends(q, "simulate") /\ ContinueOrAbort(q, "chain")
ChainSelected(q) == Sends(q, "chain") /\ ContinueOrAbort(q, "accountAgain")

\* The wallet's account is another one or unknown, the simulation reverts, the
\* wallet does not switch to the chain, the user refuses to sign.
SubmissionFails(q) ==
  /\ Runs(q, "send") /\ handlers[q].stage \in BeforeHash
  /\ SendThrows(q)
  /\ UNCHANGED vars

\* The wallet returns a hash.
Signed(q) ==
  /\ Sends(q, "signing")
  /\ IF ownsSend(q)
     THEN notice' = "sent" /\ GoesTo(q, "diagnose") /\ UNCHANGED <<sending, sendingRef>>
     ELSE ReleaseSend(q) /\ UNCHANGED notice
  /\ UNCHANGED <<vars, loadStatus, displayed, wallet, preparedCall,
                 interactionRevision, sendRevision, walletVars>>

\* submittedTransactionDiagnosis finds no nonce gap.
Diagnosed(q) ==
  /\ Sends(q, "diagnose")
  /\ IF ownsSend(q)
     THEN GoesTo(q, "receipt") /\ UNCHANGED <<sending, sendingRef>>
     ELSE ReleaseSend(q)
  /\ UNCHANGED <<vars, loadStatus, displayed, wallet, notice, preparedCall,
                 interactionRevision, sendRevision, walletVars>>

\* A nonce gap, a transaction the RPC does not know, a reverted transaction, no
\* receipt within the timeout.
TransactionFails(q) ==
  /\ Sends(q, "diagnose") \/ Sends(q, "receipt")
  /\ SendThrows(q)
  /\ UNCHANGED vars

\* A successful receipt: the call is done with and its `then` route is read, if
\* the user is still where the call was sent from.
Confirmed(q) ==
  /\ Sends(q, "receipt")
  /\ LET call == handlers[q].call
         then == Then[call.button.route]
     IN IF ~ownsSend(q)
        THEN /\ ReleaseSend(q)
             /\ UNCHANGED <<vars, notice, preparedCall>>
        ELSE /\ notice' = "confirmed"
             /\ preparedCall' = IF ownsInteraction(q) THEN None ELSE preparedCall
             /\ IF then # None /\ ownsInteraction(q)
                THEN /\ Navigate(q, then, call.button.inputs)
                     /\ GoesTo(q, "navigate")
                     /\ UNCHANGED <<sending, sendingRef>>
                ELSE /\ ReleaseSend(q)
                     /\ UNCHANGED vars
  /\ UNCHANGED <<loadStatus, displayed, wallet, interactionRevision, sendRevision, walletVars>>

ContinuationShown(q) ==
  /\ Sends(q, "navigate")
  /\ ReadDone(q)
  /\ displayed' = IF ownsInteraction(q) /\ ownsSend(q) THEN NewSnapshot ELSE displayed
  /\ ReleaseSend(q)
  /\ UNCHANGED <<loadStatus, wallet, notice, preparedCall, interactionRevision, sendRevision, walletVars>>

ContinuationFails(q) ==
  /\ Sends(q, "navigate")
  /\ CallFails(q)
  /\ SendThrows(q)

-----------------------------------------------------------------------------

AfterSignature(q) ==
  Diagnosed(q) \/ TransactionFails(q) \/ Confirmed(q) \/ ContinuationShown(q) \/ ContinuationFails(q)

WebNext ==
  \/ \E q \in Calls :
       \/ StartLoad(q) \/ LoadGoesOn(q) \/ LoadEnds(q)
       \/ NavigateEnds(q) \/ PreflightEnds(q)
       \/ Connect(q) \/ WalletApproves(q) \/ WalletRefuses(q) \/ ConnectEnds(q)
       \/ SendClick(q) \/ AccountChecked(q)
       \/ Simulated(q) \/ ChainSelected(q) \/ SubmissionFails(q) \/ Signed(q)
       \/ Diagnosed(q) \/ TransactionFails(q) \/ Confirmed(q)
       \/ ContinuationShown(q) \/ ContinuationFails(q)
  \/ \E q \in Calls, button \in Buttons : Dispatch(q, button)
  \/ \E text \in Texts : UpdateInput(text)
  \/ \E actor \in Accounts : SwitchWalletAccount(actor)

WebSpec == WebInit /\ [][WebNext]_webVars

\* Once the wallet has returned a hash the rest is up to the RPC, whose requests
\* are answered or fail, and whose receipt is waited for 20 s at most.  Nothing
\* is assumed of the user or of the wallet's prompts.
WebFairSpec == WebSpec /\ \A q \in Calls : WF_webVars(AfterSignature(q))

-----------------------------------------------------------------------------
(* Properties                                                               *)

WebTypeOK ==
  /\ TypeOK
  /\ loadStatus \in {"loading", "ready", "failed"}
  /\ displayed \in Snapshots \cup {None}
  /\ loadStatus = "ready" <=> displayed # None
  /\ wallet \in Accounts \cup {None}
  /\ walletAccount \in Accounts
  /\ walletSwitches \in 0..MaxWalletSwitches
  /\ notice \in {"none", "error", "prepared", "connected", "busy", "sent", "confirmed", "failed"}
  /\ preparedCall \in PreparedCalls \cup {None}
  /\ sending \in BOOLEAN /\ sendingRef \in BOOLEAN
  /\ interactionRevision \in 0..MaxInteractions
  /\ sendRevision \in 0..MaxSends
  /\ handlers \in [Calls -> Handlers \cup {None}]

\* At most one submission runs, from the click to its finally block; the gate
\* and the button's state are set exactly then, and the submission still owns
\* the send revision, so its feedback is never dropped (App.tsx 203-225,
\* 279-284).
OneSubmission ==
  /\ \A p, q \in Calls : Runs(p, "send") /\ Runs(q, "send") => p = q
  /\ \A q \in Calls : Runs(q, "send") => ownsSend(q)
  /\ sendingRef <=> \E q \in Calls : Runs(q, "send")
  /\ sending = sendingRef

\* The prepared call on the screen was prepared from a button on the screen and
\* for the account on the screen (App.tsx 150-174, 287-314).
PreparedCallIsCurrent ==
  preparedCall # None =>
    /\ preparedCall.button \in RenderedButtons(displayed.view)
    /\ preparedCall.account = displayed.account

\* Once no connection is in progress, a prepared call on the screen is one of
\* the screen's buttons, for the screen's account: "Bump the revision whenever
\* viewer state can change so stale results cannot resurrect old prepared
\* calls" (App.tsx 310-311).
StaleResultsStayDead ==
  ~Connecting /\ preparedCall # None =>
    /\ preparedCall.button \in RenderedButtons(displayed.view)
    /\ preparedCall.account = displayed.account

\* What the wallet is asked to sign was prepared for the sender (App.tsx
\* 185-236, transactions.ts 69-94).
SignedForSender ==
  \A q \in Calls : Sends(q, "signing") =>
    /\ handlers[q].call.account = handlers[q].from
    /\ handlers[q].call.button.actor = handlers[q].from

\* A submission that is given up before the hash was overtaken by another
\* interaction (transactions.ts 70-86, App.tsx 215-216, 269).
OnlyStaleSubmissionsAreSilent ==
  [][\A q \in Calls :
       Runs(q, "send") /\ handlers'[q] = None /\ handlers[q].stage \in BeforeHash
         /\ notice' # "error"
         => ~ownsInteraction(q)]_webVars

\* A transaction with a hash gets its outcome reported (App.tsx 215-216,
\* 237-284; RECEIPT_WAIT_TIMEOUT_MS).
TransactionsAreReported ==
  \A q \in Calls : Sends(q, "diagnose") ~> notice \in {"confirmed", "failed"}
=============================================================================
