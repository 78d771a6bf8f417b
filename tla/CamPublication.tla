--------------------------- MODULE CamPublication ---------------------------
(***************************************************************************)
(* From an author's files to a viewer's loaded CAM: the author edits, a    *)
(* tool refreshes the digests, the preflight reads and checks, files are   *)
(* copied to a web server one by one, the owner of CamRoot publishes, and  *)
(* a viewer loads with a read of the root or of the server at a time.      *)
(* Nothing orders the actors.                                              *)
(*                                                                         *)
(* The content of a file is a value of its own and stands for its hash.  A *)
(* document is what it declares: the integrity of each resource.           *)
(***************************************************************************)
EXTENDS Integers, Sequences, SequencesExt

CONSTANTS
  Resources,      \* the secondary resources a document declares
  Blobs,          \* contents of a resource
  Names,          \* the contracts a document declares
  AbiOf,          \* AbiOf[n]: the resource that holds n's ABI
  Ui,             \* the resource that holds the UI
  Runnable,       \* the contents of the resources that conformance accepts
  FirstDoc,       \* the document the host was deployed with
  URIs,           \* locations on the web server
  FirstURI,       \* where it was deployed
  FirstBindings,  \* the contract addresses it was deployed with
  Addresses,      \* contract addresses
  ZeroHash, ZeroAddress, None,
  Torn,           \* a document whose writing was cut short
  AllowUnsigned,  \* the viewer's allowUnsignedCamHash
  MaxEdits, MaxRefreshes, MaxUploads, MaxPublications, MaxBindings, MaxPreflights, MaxLoads  \* bounds

Docs == [Resources -> Blobs]
Files == [root: Docs \cup {Torn}, resources: [Resources -> Blobs]]
Cams == [uri: URIs, hash: Docs \cup {ZeroHash}]
Bindings == [Names -> Addresses \cup {ZeroAddress}]

ASSUME PublicationAssumption ==
  /\ AbiOf \in [Names -> Resources \ {Ui}] /\ Ui \in Resources
  /\ \A r \in Resources \ {Ui} : \E n \in Names : AbiOf[n] = r
  /\ \A m, n \in Names : AbiOf[m] = AbiOf[n] => m = n
  /\ Runnable \subseteq [Resources -> Blobs] /\ FirstDoc \in Runnable /\ FirstURI \in URIs
  /\ FirstBindings \in Bindings
  /\ Torn \notin Docs /\ ZeroHash \notin Docs \cup {Torn} /\ ZeroAddress \notin Addresses
  /\ AllowUnsigned \in BOOLEAN
  /\ {MaxEdits, MaxRefreshes, MaxUploads, MaxPublications, MaxBindings, MaxPreflights, MaxLoads} \subseteq Nat

VARIABLES
  files,      \* the author's directory
  refresh,    \* what the refresh tool holds, or None
  preflight,  \* what the preflight has read, or None
  approved,   \* the camHash values of preflights that ended with ok
  server,     \* server[u]: the files served at u
  cams,       \* the root's camURI and camHash, the last is the current one
  bindings,   \* the root's _contractAddress
  load,       \* what the viewer's load has read, or None
  loaded,     \* what the last successful load returned, or None
  steps       \* how often each actor acted, for the bounds

authorVars == <<files, refresh, preflight, approved>>
hostVars == <<server, cams, bindings>>
viewerVars == <<load, loaded>>
vars == <<files, refresh, preflight, approved, server, cams, bindings, load, loaded, steps>>

Actors == {"edit", "refresh", "preflight", "upload", "publish", "bind", "load"}
Bound == [edit |-> MaxEdits, refresh |-> MaxRefreshes, preflight |-> MaxPreflights,
          upload |-> MaxUploads, publish |-> MaxPublications, bind |-> MaxBindings, load |-> MaxLoads]

Counts(actor) == steps[actor] < Bound[actor] /\ steps' = [steps EXCEPT ![actor] = @ + 1]

Consistent(doc) == [root |-> doc, resources |-> doc]

Init ==
  /\ files = Consistent(FirstDoc)
  /\ refresh = None
  /\ preflight = None
  /\ approved = {FirstDoc}
  /\ server = [u \in URIs |-> Consistent(FirstDoc)]
  /\ cams = <<[uri |-> FirstURI, hash |-> FirstDoc]>>
  /\ bindings = FirstBindings
  /\ load = None
  /\ loaded = None
  /\ steps = [actor \in Actors |-> 0]

-----------------------------------------------------------------------------
(* The author and the preflight                                            *)

EditResource(r, blob) ==
  /\ Counts("edit") /\ blob # files.resources[r]
  /\ files' = [files EXCEPT !.resources[r] = blob]
  /\ UNCHANGED <<refresh, preflight, approved, hostVars, viewerVars>>

\* A torn document is taken from the repository again.
RestoreRoot ==
  /\ refresh = None /\ files.root = Torn
  /\ files' = [files EXCEPT !.root = FirstDoc]
  /\ UNCHANGED <<refresh, preflight, approved, hostVars, viewerVars, steps>>

\* refresh_manifest reads the document; a torn one is refused.
RefreshStarts ==
  /\ refresh = None /\ files.root # Torn /\ Counts("refresh")
  /\ refresh' = [stage |-> "digest", read |-> files.root, document |-> files.root, todo |-> Resources]
  /\ UNCHANGED <<files, preflight, approved, hostVars, viewerVars>>

\* refresh_integrity_field, one resource after another
RefreshResource(r) ==
  /\ refresh # None /\ r \in refresh.todo
  /\ refresh' = [refresh EXCEPT !.document[r] = files.resources[r], !.todo = @ \ {r}]
  /\ UNCHANGED <<files, preflight, approved, hostVars, viewerVars, steps>>

\* write_json_in_place empties the file first; an unchanged document is not written.
RefreshOpens ==
  /\ refresh # None /\ refresh.stage = "digest" /\ refresh.todo = {}
  /\ IF refresh.document = refresh.read THEN refresh' = None /\ UNCHANGED files
     ELSE /\ refresh' = [refresh EXCEPT !.stage = "write"]
          /\ files' = [files EXCEPT !.root = Torn]
  /\ UNCHANGED <<preflight, approved, hostVars, viewerVars, steps>>

RefreshWrites ==
  /\ refresh # None /\ refresh.stage = "write"
  /\ files' = [files EXCEPT !.root = refresh.document]
  /\ refresh' = None
  /\ UNCHANGED <<preflight, approved, hostVars, viewerVars, steps>>

\* The tool is killed, or refuses a resource: what it wrote stays as it is.
RefreshStops ==
  /\ refresh # None
  /\ refresh' = None
  /\ UNCHANGED <<files, preflight, approved, hostVars, viewerVars, steps>>

\* preflight reads the document once, and hashes what it has read at the end.
PreflightRoot ==
  /\ preflight = None /\ Counts("preflight")
  /\ preflight' = [root |-> files.root, resources |-> <<>>]
  /\ UNCHANGED <<files, refresh, approved, hostVars, viewerVars>>

\* declaredLocalResources reads one file after another.
PreflightResource(r) ==
  /\ preflight # None /\ preflight.root # Torn /\ r \notin DOMAIN preflight.resources
  /\ preflight' = [preflight EXCEPT !.resources =
                     [s \in DOMAIN @ \cup {r} |-> IF s = r THEN files.resources[r] ELSE @[s]]]
  /\ UNCHANGED <<files, refresh, approved, hostVars, viewerVars, steps>>

\* validateDeclaredResources: each resource is there, with the integrity declared.
ResourcesMatch(bundle) == bundle.resources = bundle.root

\* validateCamBundle: the document parses, the resources match, and the parts fit
\* each other.
Conforms(bundle) == ResourcesMatch(bundle) /\ bundle.resources \in Runnable

\* Mutated form of PreflightEnds: camHash is the hash of the file as it is now.
PreflightEndsRereading ==
  /\ preflight # None /\ (preflight.root = Torn \/ DOMAIN preflight.resources = Resources)
  /\ approved' = IF Conforms(preflight) THEN approved \cup {files.root} ELSE approved
  /\ preflight' = None
  /\ UNCHANGED <<files, refresh, hostVars, viewerVars, steps>>

PreflightEnds ==
  /\ preflight # None /\ (preflight.root = Torn \/ DOMAIN preflight.resources = Resources)
  /\ approved' = IF Conforms(preflight) THEN approved \cup {preflight.root} ELSE approved
  /\ preflight' = None
  /\ UNCHANGED <<files, refresh, hostVars, viewerVars, steps>>

-----------------------------------------------------------------------------
(* The server and CamRoot                                                   *)

Upload(u, f) ==
  /\ Counts("upload")
  /\ server' = IF f = "root" THEN [server EXCEPT ![u].root = files.root]
               ELSE [server EXCEPT ![u].resources[f] = files.resources[f]]
  /\ UNCHANGED <<authorVars, cams, bindings, viewerVars>>

\* The owner publishes a hash the preflight printed, or none at all.
SetCam(u, hash) ==
  /\ Counts("publish")
  /\ hash \in approved \cup {ZeroHash}
  /\ cams' = Append(cams, [uri |-> u, hash |-> hash])
  /\ UNCHANGED <<authorVars, server, bindings, viewerVars>>

SetContractAddress(n, address) ==
  /\ Counts("bind")
  /\ bindings' = [bindings EXCEPT ![n] = address]
  /\ UNCHANGED <<authorVars, server, cams, viewerVars>>

-----------------------------------------------------------------------------
(* The viewer: loadCamFromHost, resolveCamContracts, loadUi                 *)

\* The chain and the interface of the host have been checked; camURI and camHash
\* are asked for in two calls.
StartLoad ==
  /\ load = None /\ Counts("load")
  /\ load' = [firstCam |-> Len(cams), uri |-> None, hash |-> None, doc |-> None,
              addresses |-> <<>>, resources |-> <<>>]
  /\ UNCHANGED <<authorVars, hostVars, loaded>>

ReadURI ==
  /\ load # None /\ load.uri = None
  /\ load' = [load EXCEPT !.uri = Last(cams).uri]
  /\ UNCHANGED <<authorVars, hostVars, loaded, steps>>

ReadHash ==
  /\ load # None /\ load.hash = None
  /\ load' = [load EXCEPT !.hash = Last(cams).hash]
  /\ UNCHANGED <<authorVars, hostVars, loaded, steps>>

\* Mutated form of HashAccepted: a hash is demanded and not compared.
HashDemanded(hash, doc) == hash = ZeroHash => AllowUnsigned

\* assertCamHashLoadAllowed and verifyCamHash
HashAccepted(hash, doc) == IF hash = ZeroHash THEN AllowUnsigned ELSE hash = doc

ReadRoot ==
  /\ load # None /\ load.uri # None /\ load.hash # None /\ load.doc = None
  /\ HashAccepted(load.hash, server[load.uri].root)
  /\ server[load.uri].root # Torn
  /\ load' = [load EXCEPT !.doc = server[load.uri].root]
  /\ UNCHANGED <<authorVars, hostVars, loaded, steps>>

\* resolveContract: the address, and only then the ABI; all contracts at once.
ReadAddress(n) ==
  /\ load # None /\ load.doc # None /\ n \notin DOMAIN load.addresses
  /\ bindings[n] # ZeroAddress
  /\ load' = [load EXCEPT !.addresses =
                [m \in DOMAIN @ \cup {n} |-> IF m = n THEN bindings[n] ELSE @[m]]]
  /\ UNCHANGED <<authorVars, hostVars, loaded, steps>>

WithResource(r) ==
  [load EXCEPT !.resources =
     [s \in DOMAIN @ \cup {r} |-> IF s = r THEN server[load.uri].resources[r] ELSE @[s]]]

\* verifyCamResourceIntegrity: what the server sends is what the document says.
ReadResource(r) ==
  /\ r \notin DOMAIN load.resources
  /\ server[load.uri].resources[r] = load.doc[r]
  /\ load' = WithResource(r)
  /\ UNCHANGED <<authorVars, hostVars, loaded, steps>>

ReadAbi(n) == load # None /\ n \in DOMAIN load.addresses /\ ReadResource(AbiOf[n])

\* The contracts are complete before the UI is asked for.
ReadUi ==
  /\ load # None /\ load.doc # None /\ DOMAIN load.addresses = Names
  /\ \A n \in Names : AbiOf[n] \in DOMAIN load.resources
  /\ ReadResource(Ui)

LoadEnds ==
  /\ load # None /\ DOMAIN load.resources = Resources
  /\ loaded' = load
  /\ load' = None
  /\ UNCHANGED <<authorVars, hostVars, steps>>

\* A rejected or unanswered read ends the load and leaves what was loaded.
LoadFails ==
  /\ load # None
  /\ load' = None
  /\ UNCHANGED <<authorVars, hostVars, loaded, steps>>

Next ==
  \/ \E r \in Resources, blob \in Blobs : EditResource(r, blob)
  \/ RestoreRoot \/ RefreshStarts \/ RefreshOpens \/ RefreshWrites \/ RefreshStops
  \/ PreflightRoot \/ PreflightEnds
  \/ \E r \in Resources : PreflightResource(r) \/ RefreshResource(r)
  \/ \E u \in URIs, f \in Resources \cup {"root"} : Upload(u, f)
  \/ \E u \in URIs, hash \in Docs \cup {ZeroHash} : SetCam(u, hash)
  \/ \E n \in Names, address \in Addresses \cup {ZeroAddress} : SetContractAddress(n, address)
  \/ StartLoad \/ ReadURI \/ ReadHash \/ ReadRoot \/ ReadUi \/ LoadEnds \/ LoadFails
  \/ \E n \in Names : ReadAddress(n) \/ ReadAbi(n)

Spec == Init /\ [][Next]_vars

-----------------------------------------------------------------------------
(* Properties                                                               *)

\* The types; a load reads the root before the document, and the contracts after it
\* (host.ts 20-62, contracts.ts 99-126).
TypeOK ==
  /\ files \in Files
  /\ approved \subseteq Docs
  /\ server \in [URIs -> Files]
  /\ cams \in Seq(Cams) /\ cams # <<>>
  /\ bindings \in Bindings
  /\ load # None => /\ load.uri \in URIs \cup {None} /\ load.doc \in Docs \cup {None}
                    /\ load.doc # None => load.uri # None /\ load.hash # None
                    /\ load.doc = None => load.addresses = <<>>
  /\ steps \in [Actors -> Nat]

\* What runs is what the document it was loaded with declares; and for a viewer that
\* insists on hashes it was checked as a whole: the document and the resources fit each
\* other, although the preflight, the uploads, the publication and the load each read at
\* their own moments (main.ts 59-90, host.ts 26-62, contracts.ts 112-126, session.ts
\* 233-245).
WhatRunsWasChecked ==
  loaded # None =>
    /\ loaded.resources = loaded.doc
    /\ ~AllowUnsigned => loaded.doc \in approved /\ loaded.resources \in Runnable

\* For a viewer that insists on hashes the separate reads of camURI, camHash and
\* the bytes amount to one read of one publication (host.ts 26-62).
Catalog ==
  INSTANCE CamCatalog WITH
    Docs <- Docs \cup {ZeroHash},
    published <- [i \in DOMAIN cams |-> cams[i].hash],
    begun <- IF load = None THEN 0 ELSE load.firstCam,
    loaded <- IF loaded = None THEN None ELSE loaded.doc

ImplementsCatalog == Catalog!Spec
=============================================================================
