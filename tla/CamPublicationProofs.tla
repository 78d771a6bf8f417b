------------------------ MODULE CamPublicationProofs ------------------------
(***************************************************************************)
(* Proofs about CamPublication, for any resources, documents, locations    *)
(* and bounds.  The inductive invariant follows one document through the   *)
(* actors: what the preflight approves runs, the root holds only approved  *)
(* hashes, a load holds a hash the root had since it began and only a      *)
(* document with that hash, and what it has read is what that document     *)
(* declares.                                                               *)
(***************************************************************************)
EXTENDS CamPublication, SequenceTheorems, TLAPS

Partial(S, T) == UNION {[D -> T] : D \in SUBSET S}

Refreshes == [stage: {"digest", "write"}, read: Docs, document: Docs, todo: SUBSET Resources]

Loads == [firstCam: Nat, uri: URIs \cup {None}, hash: Docs \cup {ZeroHash, None},
          doc: Docs \cup {None}, addresses: Partial(Names, Addresses),
          resources: Partial(Resources, Blobs)]

\* The root only ever held hashes of approved documents, and those run.
Published ==
  /\ approved \subseteq Runnable
  /\ \A i \in 1..Len(cams) : cams[i].hash \in approved \cup {ZeroHash}

\* What a load holds: a hash of the root since it began, the document that was
\* accepted for it, and resources as the document declares them.
Pinned(l) ==
  /\ l \in Loads
  /\ l.firstCam \in 1..Len(cams)
  /\ l.hash # None => \E i \in l.firstCam..Len(cams) : l.hash = cams[i].hash
  /\ l.doc # None => l.uri # None /\ l.hash # None /\ HashAccepted(l.hash, l.doc)
  /\ l.doc = None => l.addresses = <<>> /\ l.resources = <<>>
  /\ \A r \in DOMAIN l.resources : l.resources[r] = l.doc[r]

IInv ==
  /\ TypeOK
  /\ refresh # None => refresh \in Refreshes
  /\ Published
  /\ load # None => Pinned(load)
  /\ WhatRunsWasChecked

-----------------------------------------------------------------------------
(* Lemmas about the operators                                               *)

\* What was read grows by one entry.
LEMMA PartialExtends ==
  ASSUME NEW S, NEW T, NEW f \in Partial(S, T), NEW x \in S, NEW y \in T
  PROVE  [s \in DOMAIN f \cup {x} |-> IF s = x THEN y ELSE f[s]] \in Partial(S, T)
<1> DEFINE g == [s \in DOMAIN f \cup {x} |-> IF s = x THEN y ELSE f[s]]
<1>1. PICK D \in SUBSET S : f \in [D -> T]
  BY DEF Partial
<1>2. D \cup {x} \in SUBSET S /\ g \in [D \cup {x} -> T]
  BY <1>1
<1> QED
  BY <1>2 DEF Partial

LEMMA PartialOfNothing == ASSUME NEW S, NEW T PROVE <<>> \in Partial(S, T) /\ DOMAIN <<>> = {}
<1>1. <<>> \in [{} -> T] /\ DOMAIN <<>> = {}
  OBVIOUS
<1> QED
  BY <1>1 DEF Partial

\* A document is what its two halves are; the first one runs and is published.
LEMMA FirstDocIsWhole ==
  /\ FirstDoc \in Docs /\ Consistent(FirstDoc) \in Files
  /\ <<[uri |-> FirstURI, hash |-> FirstDoc]>> \in Seq(Cams)
BY PublicationAssumption DEF Docs, Files, Cams, Consistent

\* What the viewer accepts for a published hash was approved, and runs.
LEMMA AcceptedIsApproved ==
  ASSUME ~AllowUnsigned, NEW approved_, NEW hash \in approved_ \cup {ZeroHash}, NEW doc,
         HashAccepted(hash, doc)
  PROVE  doc \in approved_
BY DEF HashAccepted

LEMMA InitIInv == Init => IInv
<1> SUFFICES ASSUME Init PROVE IInv
  OBVIOUS
<1> USE PublicationAssumption
<1>1. TypeOK
  <2>1. server \in [URIs -> Files] /\ files \in Files
    BY FirstDocIsWhole DEF Init
  <2>2. cams \in Seq(Cams) /\ cams # <<>>
    BY FirstDocIsWhole DEF Init
  <2>3. steps \in [Actors -> Nat]
    BY DEF Init
  <2> QED
    BY <2>1, <2>2, <2>3, FirstDocIsWhole DEF Init, TypeOK
<1>2. Published
  BY DEF Init, Published
<1> QED
  BY <1>1, <1>2 DEF Init, IInv, WhatRunsWasChecked

-----------------------------------------------------------------------------
(* The steps of the author, the server and the owner                        *)

\* Nothing of the viewer or the root changes: only the types are at stake.
LEMMA ElsewhereKeepsIInv ==
  ASSUME IInv, TypeOK', UNCHANGED <<cams, viewerVars>>,
         refresh' # None => refresh' \in Refreshes,
         approved \subseteq approved', approved' \subseteq Runnable
  PROVE  IInv'
<1>1. Published'
  BY DEF IInv, Published
<1>2. load' # None => Pinned(load)'
  BY DEF IInv, Pinned, viewerVars
<1>3. WhatRunsWasChecked'
  BY DEF IInv, WhatRunsWasChecked, viewerVars
<1> QED
  BY <1>1, <1>2, <1>3 DEF IInv

\* Counting an actor's steps.
LEMMA StepsAreNaturals ==
  ASSUME steps \in [Actors -> Nat], NEW actor \in Actors, Counts(actor)
  PROVE  steps' \in [Actors -> Nat]
BY DEF Counts

LEMMA AuthorKeepsIInv ==
  ASSUME IInv,
         \/ \E r \in Resources, blob \in Blobs : EditResource(r, blob)
         \/ RestoreRoot \/ RefreshStarts \/ RefreshOpens \/ RefreshWrites \/ RefreshStops
         \/ \E r \in Resources : RefreshResource(r)
  PROVE  IInv'
<1> USE PublicationAssumption
<1>0. TypeOK /\ (refresh # None => refresh \in Refreshes) /\ approved \subseteq Runnable
  BY DEF IInv, Published
<1>1. files \in Files /\ steps \in [Actors -> Nat]
  BY <1>0 DEF TypeOK
<1>2. ASSUME NEW r \in Resources, NEW blob \in Blobs, EditResource(r, blob) PROVE IInv'
  <2>1. files' \in Files
    BY <1>1, <1>2 DEF EditResource, Files
  <2>2. steps' \in [Actors -> Nat]
    BY <1>1, <1>2, StepsAreNaturals DEF EditResource, Actors
  <2>3. TypeOK'
    BY <1>0, <1>2, <2>1, <2>2 DEF EditResource, TypeOK, hostVars, viewerVars
  <2> QED
    BY <1>0, <1>2, <2>3, ElsewhereKeepsIInv DEF EditResource, hostVars, viewerVars
<1>3. CASE RestoreRoot
  <2>1. files' \in Files
    BY <1>1, <1>3, FirstDocIsWhole DEF RestoreRoot, Files
  <2>2. TypeOK'
    BY <1>0, <1>3, <2>1 DEF RestoreRoot, TypeOK, hostVars, viewerVars
  <2> QED
    BY <1>0, <1>3, <2>2, ElsewhereKeepsIInv DEF RestoreRoot, hostVars, viewerVars
<1>4. CASE RefreshStarts
  <2>1. refresh' \in Refreshes
    BY <1>1, <1>4 DEF RefreshStarts, Refreshes, Files
  <2>2. steps' \in [Actors -> Nat]
    BY <1>1, <1>4, StepsAreNaturals DEF RefreshStarts, Actors
  <2>3. TypeOK'
    BY <1>0, <1>4, <2>2 DEF RefreshStarts, TypeOK, hostVars, viewerVars
  <2> QED
    BY <1>0, <1>4, <2>1, <2>3, ElsewhereKeepsIInv DEF RefreshStarts, hostVars, viewerVars
<1>5. CASE RefreshOpens
  <2>1. files' \in Files /\ (refresh' # None => refresh' \in Refreshes)
    BY <1>0, <1>1, <1>5 DEF RefreshOpens, Files, Refreshes
  <2>2. TypeOK'
    BY <1>0, <1>5, <2>1 DEF RefreshOpens, TypeOK, hostVars, viewerVars
  <2> QED
    BY <1>0, <1>5, <2>1, <2>2, ElsewhereKeepsIInv DEF RefreshOpens, hostVars, viewerVars
<1>6. CASE RefreshWrites
  <2>1. files' \in Files
    BY <1>0, <1>1, <1>6 DEF RefreshWrites, Files, Refreshes
  <2>2. TypeOK'
    BY <1>0, <1>6, <2>1 DEF RefreshWrites, TypeOK, hostVars, viewerVars
  <2> QED
    BY <1>0, <1>6, <2>2, ElsewhereKeepsIInv DEF RefreshWrites, hostVars, viewerVars
<1>7. CASE RefreshStops
  <2>1. TypeOK'
    BY <1>0, <1>7 DEF RefreshStops, TypeOK, hostVars, viewerVars
  <2> QED
    BY <1>0, <1>7, <2>1, ElsewhereKeepsIInv DEF RefreshStops, hostVars, viewerVars
<1>8. ASSUME NEW r \in Resources, RefreshResource(r) PROVE IInv'
  <2>1. files.resources[r] \in Blobs
    BY <1>1 DEF Files
  <2>2. refresh' \in Refreshes
    BY <1>0, <1>8, <2>1 DEF RefreshResource, Refreshes, Docs
  <2>3. TypeOK'
    BY <1>0, <1>8 DEF RefreshResource, TypeOK, hostVars, viewerVars
  <2> QED
    BY <1>0, <1>8, <2>2, <2>3, ElsewhereKeepsIInv DEF RefreshResource, hostVars, viewerVars
<1> QED
  BY <1>2, <1>3, <1>4, <1>5, <1>6, <1>7, <1>8

\* camHash is the hash of what was read and checked: nothing else is approved.
LEMMA PreflightKeepsIInv ==
  ASSUME IInv, PreflightRoot \/ PreflightEnds \/ \E r \in Resources : PreflightResource(r)
  PROVE  IInv'
<1> USE PublicationAssumption
<1>0. TypeOK /\ (refresh # None => refresh \in Refreshes) /\ approved \subseteq Runnable
  BY DEF IInv, Published
<1>1. steps \in [Actors -> Nat]
  BY <1>0 DEF TypeOK
<1>2. CASE PreflightRoot
  <2>1. steps' \in [Actors -> Nat]
    BY <1>1, <1>2, StepsAreNaturals DEF PreflightRoot, Actors
  <2>2. TypeOK'
    BY <1>0, <1>2, <2>1 DEF PreflightRoot, TypeOK, hostVars, viewerVars
  <2> QED
    BY <1>0, <1>2, <2>2, ElsewhereKeepsIInv DEF PreflightRoot, hostVars, viewerVars
<1>3. CASE PreflightEnds
  <2>1. Conforms(preflight) => preflight.root \in Runnable
    BY DEF Conforms, ResourcesMatch
  <2>2. approved \subseteq approved' /\ approved' \subseteq Runnable
    BY <1>0, <1>3, <2>1 DEF PreflightEnds
  <2>3. approved' \subseteq Docs
    BY <2>2 DEF Docs
  <2>4. TypeOK'
    BY <1>0, <1>3, <2>3 DEF PreflightEnds, TypeOK, hostVars, viewerVars
  <2> QED
    BY <1>0, <1>3, <2>2, <2>4, ElsewhereKeepsIInv DEF PreflightEnds, hostVars, viewerVars
<1>4. ASSUME NEW r \in Resources, PreflightResource(r) PROVE IInv'
  <2>1. TypeOK'
    BY <1>0, <1>4 DEF PreflightResource, TypeOK, hostVars, viewerVars
  <2> QED
    BY <1>0, <1>4, <2>1, ElsewhereKeepsIInv DEF PreflightResource, hostVars, viewerVars
<1> QED
  BY <1>2, <1>3, <1>4

LEMMA HostKeepsIInv ==
  ASSUME IInv,
         \/ \E u \in URIs, f \in Resources \cup {"root"} : Upload(u, f)
         \/ \E n \in Names, address \in Addresses \cup {ZeroAddress} : SetContractAddress(n, address)
  PROVE  IInv'
<1> USE PublicationAssumption
<1>0. TypeOK /\ (refresh # None => refresh \in Refreshes) /\ approved \subseteq Runnable
  BY DEF IInv, Published
<1>1. files \in Files /\ server \in [URIs -> Files] /\ steps \in [Actors -> Nat] /\ bindings \in Bindings
  BY <1>0 DEF TypeOK
<1>2. ASSUME NEW u \in URIs, NEW f \in Resources \cup {"root"}, Upload(u, f) PROVE IInv'
  <2>1. server' \in [URIs -> Files]
    <3>1. CASE f = "root"
      BY <1>1, <1>2, <3>1 DEF Upload, Files
    <3>2. CASE f # "root"
      <4>1. f \in Resources /\ files.resources[f] \in Blobs /\ server[u] \in Files
        BY <1>1, <3>2 DEF Files
      <4>2. [server[u] EXCEPT !.resources[f] = files.resources[f]] \in Files
        BY <4>1 DEF Files
      <4>3. server' = [server EXCEPT ![u] = [server[u] EXCEPT !.resources[f] = files.resources[f]]]
        BY <1>1, <1>2, <3>2 DEF Upload
      <4> QED
        BY <1>1, <4>2, <4>3
    <3> QED
      BY <3>1, <3>2
  <2>2. steps' \in [Actors -> Nat]
    BY <1>1, <1>2, StepsAreNaturals DEF Upload, Actors
  <2>3. TypeOK'
    BY <1>0, <1>2, <2>1, <2>2 DEF Upload, TypeOK, authorVars, viewerVars
  <2> QED
    BY <1>0, <1>2, <2>3, ElsewhereKeepsIInv DEF Upload, authorVars, viewerVars
<1>3. ASSUME NEW n \in Names, NEW address \in Addresses \cup {ZeroAddress}, SetContractAddress(n, address)
      PROVE  IInv'
  <2>1. bindings' \in Bindings
    BY <1>1, <1>3 DEF SetContractAddress, Bindings
  <2>2. steps' \in [Actors -> Nat]
    BY <1>1, <1>3, StepsAreNaturals DEF SetContractAddress, Actors
  <2>3. TypeOK'
    BY <1>0, <1>3, <2>1, <2>2 DEF SetContractAddress, TypeOK, authorVars, viewerVars
  <2> QED
    BY <1>0, <1>3, <2>3, ElsewhereKeepsIInv DEF SetContractAddress, authorVars, viewerVars
<1> QED
  BY <1>2, <1>3

\* A publication is appended: what a load read from the root is still there.
LEMMA SetCamAppends ==
  ASSUME IInv, NEW u \in URIs, NEW hash \in Docs \cup {ZeroHash}, SetCam(u, hash)
  PROVE  /\ cams' \in Seq(Cams) /\ Len(cams) \in Nat /\ Len(cams') = Len(cams) + 1
         /\ \A i \in 1..Len(cams) : cams'[i] = cams[i]
         /\ cams'[Len(cams) + 1].hash = hash
<1>1. cams \in Seq(Cams)
  BY DEF IInv, TypeOK
<1>2. [uri |-> u, hash |-> hash] \in Cams
  BY DEF Cams
<1> QED
  BY <1>1, <1>2 DEF SetCam

LEMMA SetCamKeepsIInv ==
  ASSUME IInv, NEW u \in URIs, NEW hash \in Docs \cup {ZeroHash}, SetCam(u, hash)
  PROVE  IInv'
<1> USE PublicationAssumption
<1>1. TypeOK'
  <2>1. steps' \in [Actors -> Nat]
    BY StepsAreNaturals DEF IInv, TypeOK, SetCam, Actors
  <2>2. cams' # <<>>
    BY SetCamAppends
  <2> QED
    BY <2>1, <2>2, SetCamAppends DEF IInv, TypeOK, SetCam, authorVars, viewerVars
<1>2. Published'
  <2>1. \A i \in 1..Len(cams') : i \in 1..Len(cams) \/ i = Len(cams) + 1
    BY SetCamAppends
  <2>2. hash \in approved \cup {ZeroHash} /\ approved' = approved
    BY DEF SetCam, authorVars
  <2>3. approved \subseteq Runnable /\ \A i \in 1..Len(cams) : cams[i].hash \in approved \cup {ZeroHash}
    BY DEF IInv, Published
  <2>4. ASSUME NEW i \in 1..Len(cams') PROVE cams'[i].hash \in approved \cup {ZeroHash}
    <3>1. CASE i \in 1..Len(cams)
      BY <2>3, <3>1, SetCamAppends
    <3>2. CASE i = Len(cams) + 1
      BY <2>2, <3>2, SetCamAppends
    <3> QED
      BY <2>1, <3>1, <3>2
  <2> QED
    BY <2>2, <2>3, <2>4 DEF Published
<1>3. ASSUME load' # None PROVE Pinned(load)'
  <2>1. load' = load /\ Pinned(load)
    BY <1>3 DEF IInv, SetCam, viewerVars
  <2>2. \A i \in load.firstCam..Len(cams) : i \in 1..Len(cams) /\ i \in load.firstCam..Len(cams')
    BY <2>1, SetCamAppends DEF Pinned, Loads
  <2>3. load.firstCam \in 1..Len(cams')
    BY <2>1, SetCamAppends DEF Pinned
  <2>4. load.hash # None => \E i \in load.firstCam..Len(cams') : load.hash = cams'[i].hash
    BY <2>1, <2>2, SetCamAppends DEF Pinned
  <2> QED
    BY <2>1, <2>3, <2>4 DEF Pinned
<1>4. WhatRunsWasChecked'
  BY DEF IInv, WhatRunsWasChecked, SetCam, authorVars, viewerVars
<1> QED
  BY <1>1, <1>2, <1>3, <1>4 DEF IInv, SetCam, authorVars

-----------------------------------------------------------------------------
(* The steps of the viewer                                                  *)

\* A step of the viewer that does not end its load keeps the invariant when it
\* keeps what the load holds.
LEMMA LoadingKeepsIInv ==
  ASSUME IInv, UNCHANGED <<authorVars, hostVars, loaded>>, steps' \in [Actors -> Nat],
         load' # None => Pinned(load')
  PROVE  IInv'
<1>1. ASSUME load' # None PROVE Pinned(load)'
  BY <1>1 DEF Pinned, hostVars
<1>2. load' # None => /\ load'.uri \in URIs \cup {None} /\ load'.doc \in Docs \cup {None}
  BY DEF Pinned, Loads
<1>3. TypeOK'
  BY <1>2 DEF IInv, TypeOK, Pinned, authorVars, hostVars
<1>4. Published' /\ WhatRunsWasChecked'
  BY DEF IInv, Published, WhatRunsWasChecked, authorVars, hostVars
<1> QED
  BY <1>1, <1>3, <1>4 DEF IInv, authorVars

\* A load begins at the publication that is current, and reads locations and
\* hashes the root has at that moment.
LEMMA RootReadsKeepIInv ==
  ASSUME IInv, StartLoad \/ ReadURI \/ ReadHash
  PROVE  IInv'
<1>1. cams \in Seq(Cams) /\ Len(cams) \in 1..Len(cams) /\ steps \in [Actors -> Nat]
      /\ Last(cams) = cams[Len(cams)] /\ Last(cams) \in Cams
  BY DEF IInv, TypeOK, Last
<1>2. load # None => Pinned(load)
  BY DEF IInv
<1>3. CASE StartLoad
  <2>1. load' = [firstCam |-> Len(cams), uri |-> None, hash |-> None, doc |-> None,
                 addresses |-> <<>>, resources |-> <<>>]
    BY <1>3 DEF StartLoad
  <2>2. load' \in Loads
    BY <1>1, <2>1, PartialOfNothing DEF Loads
  <2>3. Pinned(load')
    BY <1>1, <2>1, <2>2, PartialOfNothing DEF Pinned
  <2>4. steps' \in [Actors -> Nat]
    BY <1>1, <1>3, StepsAreNaturals DEF StartLoad, Actors
  <2> QED
    BY <1>3, <2>3, <2>4, LoadingKeepsIInv DEF StartLoad
<1>4. CASE ReadURI
  <2>1. load' \in Loads
    BY <1>1, <1>2, <1>4 DEF ReadURI, Pinned, Loads, Cams
  <2>2. Pinned(load')
    BY <1>1, <1>2, <1>4, <2>1 DEF ReadURI, Pinned, Loads
  <2> QED
    BY <1>1, <1>4, <2>2, LoadingKeepsIInv DEF ReadURI
<1>5. CASE ReadHash
  <2>1. load' \in Loads
    BY <1>1, <1>2, <1>5 DEF ReadHash, Pinned, Loads, Cams
  <2>2. Len(cams) \in load.firstCam..Len(cams) /\ load'.hash = cams[Len(cams)].hash
    BY <1>1, <1>2, <1>5 DEF ReadHash, Pinned, Loads
  <2>3. load.doc = None
    BY <1>2, <1>5 DEF ReadHash, Pinned
  <2>4. Pinned(load')
    BY <1>1, <1>2, <1>5, <2>1, <2>2, <2>3, PartialOfNothing DEF ReadHash, Pinned, Loads
  <2> QED
    BY <1>1, <1>5, <2>4, LoadingKeepsIInv DEF ReadHash
<1> QED
  BY <1>3, <1>4, <1>5

\* The document is accepted for the hash the load holds; the contracts' addresses
\* come after it.
LEMMA DocumentReadsKeepIInv ==
  ASSUME IInv, ReadRoot \/ \E n \in Names : ReadAddress(n)
  PROVE  IInv'
<1>1. steps \in [Actors -> Nat] /\ server \in [URIs -> Files] /\ bindings \in Bindings
  BY DEF IInv, TypeOK
<1>2. load # None /\ Pinned(load) /\ load \in Loads
  BY DEF IInv, ReadRoot, ReadAddress, Pinned
<1>3. CASE ReadRoot
  <2>1. load.uri \in URIs /\ server[load.uri].root \in Docs
    BY <1>1, <1>2, <1>3 DEF ReadRoot, Loads, Files
  <2>2. load' \in Loads /\ load'.doc = server[load.uri].root
    BY <1>2, <1>3, <2>1 DEF ReadRoot, Loads
  <2>3. \A r \in DOMAIN load.resources : FALSE
    BY <1>2, <1>3, PartialOfNothing DEF ReadRoot, Pinned
  <2>4. load.addresses = <<>> /\ load.resources = <<>>
    BY <1>2, <1>3 DEF ReadRoot, Pinned
  <2>5. Pinned(load')
    BY <1>2, <1>3, <2>2, <2>3, <2>4 DEF ReadRoot, Pinned, Loads
  <2> QED
    BY <1>1, <1>3, <2>5, LoadingKeepsIInv DEF ReadRoot
<1>4. ASSUME NEW n \in Names, ReadAddress(n) PROVE IInv'
  <2> DEFINE more == [m \in DOMAIN load.addresses \cup {n} |-> IF m = n THEN bindings[n] ELSE load.addresses[m]]
  <2>1. bindings[n] \in Addresses
    BY <1>1, <1>4 DEF ReadAddress, Bindings
  <2>2. more \in Partial(Names, Addresses)
    BY <1>2, <2>1, PartialExtends DEF Loads
  <2>3. load' = [load EXCEPT !.addresses = more]
    BY <1>4 DEF ReadAddress
  <2> HIDE DEF more
  <2>4. load' \in Loads
    BY <1>2, <2>2, <2>3 DEF Loads
  <2>5. load.doc # None
    BY <1>4 DEF ReadAddress
  <2>6. Pinned(load')
    BY <1>2, <2>3, <2>4, <2>5 DEF Pinned, Loads
  <2> QED
    BY <1>1, <1>4, <2>6, LoadingKeepsIInv DEF ReadAddress
<1> QED
  BY <1>3, <1>4

\* A resource is kept when it is what the document declares.
LEMMA ResourceReadsKeepIInv ==
  ASSUME IInv, ReadUi \/ \E n \in Names : ReadAbi(n)
  PROVE  IInv'
<1>1. PICK r \in Resources : ReadResource(r) /\ load # None /\ load.doc # None
  <2>1. CASE ReadUi
    BY <2>1, PublicationAssumption DEF ReadUi
  <2>2. ASSUME NEW n \in Names, ReadAbi(n) PROVE \E r \in Resources : ReadResource(r) /\ load # None /\ load.doc # None
    <3>1. load.doc # None
      BY <2>2, PartialOfNothing DEF ReadAbi, IInv, Pinned
    <3> QED
      BY <2>2, <3>1, PublicationAssumption DEF ReadAbi
  <2> QED
    BY <2>1, <2>2
<1>2. Pinned(load) /\ load \in Loads /\ load.doc \in Docs /\ steps \in [Actors -> Nat]
  BY <1>1 DEF IInv, TypeOK, Pinned, Loads
<1> DEFINE more == [s \in DOMAIN load.resources \cup {r} |->
                      IF s = r THEN server[load.uri].resources[r] ELSE load.resources[s]]
<1>3. server[load.uri].resources[r] = load.doc[r] /\ load.doc[r] \in Blobs
  BY <1>1, <1>2 DEF ReadResource, Docs
<1>4. more \in Partial(Resources, Blobs)
  BY <1>2, <1>3, PartialExtends DEF Loads
<1>5. \A s \in DOMAIN more : more[s] = load.doc[s]
  BY <1>2, <1>3 DEF Pinned
<1>6. load' = [load EXCEPT !.resources = more]
  BY <1>1 DEF ReadResource, WithResource
<1> HIDE DEF more
<1>7. load' \in Loads
  BY <1>2, <1>4, <1>6 DEF Loads
<1>8. Pinned(load')
  BY <1>1, <1>2, <1>5, <1>6, <1>7 DEF Pinned, Loads
<1> QED
  BY <1>1, <1>2, <1>8, LoadingKeepsIInv DEF ReadResource

\* A load that has read every resource returns the document that declares them.
LEMMA EndsKeepIInv ==
  ASSUME IInv, LoadEnds \/ LoadFails
  PROVE  IInv'
<1>1. load # None /\ Pinned(load) /\ load \in Loads /\ steps' = steps /\ load' = None
      /\ UNCHANGED <<authorVars, hostVars>>
  BY DEF IInv, Pinned, LoadEnds, LoadFails
<1>2. TypeOK' /\ Published'
  BY <1>1 DEF IInv, TypeOK, Published, authorVars, hostVars
<1>3. CASE LoadEnds
  <2>1. DOMAIN load.resources = Resources /\ loaded' = load
    BY <1>3 DEF LoadEnds
  <2>2. load.doc \in Docs
    <3>1. Resources # {}
      BY PublicationAssumption
    <3>2. load.doc # None
      BY <1>1, <2>1, <3>1, PartialOfNothing DEF Pinned
    <3> QED
      BY <1>1, <3>2 DEF Loads
  <2>3. load.resources \in [Resources -> Blobs]
    BY <1>1, <2>1 DEF Loads, Partial
  <2>4. load.resources = load.doc
    BY <1>1, <2>1, <2>2, <2>3 DEF Pinned, Docs
  <2>5. ASSUME ~AllowUnsigned PROVE load.doc \in approved /\ load.doc \in Runnable
    <3>1. load.doc # None => load.hash \in approved \cup {ZeroHash}
      BY <1>1 DEF IInv, Published, Pinned, Loads
    <3>2. load.doc # None
      BY <1>1, <2>1, PublicationAssumption, PartialOfNothing DEF Pinned
    <3> QED
      BY <1>1, <2>5, <3>1, <3>2, AcceptedIsApproved DEF IInv, Published, Pinned
  <2>6. WhatRunsWasChecked'
    BY <1>1, <2>1, <2>4, <2>5 DEF WhatRunsWasChecked, authorVars
  <2> QED
    BY <1>1, <1>2, <2>6 DEF IInv, authorVars
<1>4. CASE LoadFails
  <2>1. WhatRunsWasChecked'
    BY <1>1, <1>4 DEF IInv, WhatRunsWasChecked, LoadFails, authorVars
  <2> QED
    BY <1>1, <1>2, <2>1 DEF IInv, authorVars
<1> QED
  BY <1>3, <1>4

-----------------------------------------------------------------------------
(* The invariant                                                            *)

LEMMA NextKeepsIInv == IInv /\ [Next]_vars => IInv'
<1> SUFFICES ASSUME IInv, [Next]_vars PROVE IInv'
  OBVIOUS
<1>1. CASE Next
  BY <1>1, AuthorKeepsIInv, PreflightKeepsIInv, HostKeepsIInv, SetCamKeepsIInv,
     RootReadsKeepIInv, DocumentReadsKeepIInv, ResourceReadsKeepIInv, EndsKeepIInv DEF Next
<1>2. CASE UNCHANGED vars
  <2>1. TypeOK' /\ Published' /\ WhatRunsWasChecked'
    BY <1>2 DEF vars, IInv, TypeOK, Published, WhatRunsWasChecked
  <2>2. load' # None => Pinned(load)'
    BY <1>2 DEF vars, IInv, Pinned
  <2> QED
    BY <1>2, <2>1, <2>2 DEF vars, IInv
<1> QED
  BY <1>1, <1>2

\* The publication stays what the proofs below rely on: whatever the author, the
\* tools, the owner and the server do, in any order (main.ts 59-90, host.ts 20-62).
THEOREM PublicationInvariant == Spec => []IInv
BY InitIInv, NextKeepsIInv, PTL DEF Spec

\* The types of the publication's state.
THEOREM PublicationTypeOK == Spec => []TypeOK
<1>1. IInv => TypeOK
  BY DEF IInv
<1> QED
  BY <1>1, PublicationInvariant, PTL

\* A load that succeeds returns resources as its document declares them, and for a
\* viewer that insists on hashes a document the preflight checked as a whole, although
\* each actor read at its own moment (main.ts 59-90, contracts.ts 112-126,
\* session.ts 233-245).
THEOREM PublicationWhatRunsWasChecked == Spec => []WhatRunsWasChecked
<1>1. IInv => WhatRunsWasChecked
  BY DEF IInv
<1> QED
  BY <1>1, PublicationInvariant, PTL

-----------------------------------------------------------------------------
(* The refinement of the catalog                                            *)

\* What the catalog sees.
Hashes == [i \in DOMAIN cams |-> cams[i].hash]
Begun == IF load = None THEN 0 ELSE load.firstCam
Delivered == IF loaded = None THEN None ELSE loaded.doc

LEMMA InitMapsToCatalog == Init => Catalog!Init
<1> SUFFICES ASSUME Init PROVE Catalog!Init
  OBVIOUS
<1>1. FirstDoc \in Docs \cup {ZeroHash}
  BY FirstDocIsWhole
<1>2. [i \in DOMAIN cams |-> cams[i].hash] = <<FirstDoc>>
  BY DEF Init
<1> QED
  BY <1>1, <1>2 DEF Init, Catalog!Init

\* An appended publication is appended for the catalog as well.
LEMMA SetCamPublishes ==
  ASSUME IInv, NEW u \in URIs, NEW hash \in Docs \cup {ZeroHash}, SetCam(u, hash)
  PROVE  Catalog!Publish(hash)
<1>1. cams \in Seq(Cams) /\ DOMAIN cams = 1..Len(cams) /\ DOMAIN cams' = 1..Len(cams')
  BY SetCamAppends DEF IInv, TypeOK
<1>2. Hashes \in Seq(Docs \cup {ZeroHash}) /\ DOMAIN Hashes = 1..Len(cams) /\ Len(Hashes) = Len(cams)
  <2>1. cams \in [1..Len(cams) -> Cams] /\ Len(cams) \in Nat
    BY <1>1, LenProperties
  <2>2. Hashes \in [1..Len(cams) -> Docs \cup {ZeroHash}]
    BY <2>1 DEF Hashes, Cams
  <2>3. Hashes \in Seq(Docs \cup {ZeroHash})
    BY <2>1, <2>2, SeqDef
  <2> QED
    BY <2>1, <2>2, <2>3, LenProperties
<1>3. Hashes' = Append(Hashes, hash)
  <2> DEFINE after == Append(Hashes, hash)
  <2>1. /\ after \in Seq(Docs \cup {ZeroHash}) /\ Len(after) = Len(cams) + 1
        /\ \A i \in 1..Len(cams) : after[i] = Hashes[i]
        /\ after[Len(cams) + 1] = hash
    BY <1>2, AppendProperties
  <2>2. after = [i \in 1..(Len(cams) + 1) |-> after[i]]
    BY <2>1, LenProperties
  <2> HIDE DEF after
  <2>3. Hashes' = [i \in 1..(Len(cams) + 1) |-> cams'[i].hash]
    BY <1>1, SetCamAppends DEF Hashes
  <2>4. ASSUME NEW i \in 1..(Len(cams) + 1) PROVE cams'[i].hash = after[i]
    <3>1. CASE i \in 1..Len(cams)
      <4>1. Hashes[i] = cams[i].hash
        BY <1>1, <3>1 DEF Hashes
      <4> QED
        BY <2>1, <3>1, <4>1, SetCamAppends
    <3>2. CASE i = Len(cams) + 1
      BY <2>1, <3>2, SetCamAppends
    <3> QED
      BY <3>1, <3>2, SetCamAppends
  <2>5. Hashes' = after
    BY <2>2, <2>3, <2>4
  <2> QED
    BY <2>5 DEF after
<1> QED
  BY <1>3 DEF Catalog!Publish, SetCam, viewerVars, Hashes

\* The steps of the viewer: a load begins at the current publication, ends with the
\* document of one published since, or fails; its reads are not seen.
LEMMA ViewerStepsMapToCatalog ==
  ASSUME IInv, ~AllowUnsigned, UNCHANGED cams,
         \/ StartLoad \/ ReadURI \/ ReadHash \/ ReadRoot \/ ReadUi \/ LoadEnds \/ LoadFails
         \/ \E n \in Names : ReadAddress(n) \/ ReadAbi(n)
  PROVE  \/ Catalog!Begin \/ Catalog!Finish \/ Catalog!Fail
         \/ UNCHANGED <<Hashes, Begun, Delivered>>
<1>0. Hashes' = Hashes /\ Len(Hashes) = Len(cams) /\ \A i \in 1..Len(cams) : Hashes[i] = cams[i].hash
  BY DEF Hashes, IInv, TypeOK
<1>1. load # None => Pinned(load) /\ load.firstCam \in Nat /\ load.firstCam > 0
  BY DEF IInv, Pinned
<1>2. CASE StartLoad
  BY <1>0, <1>2 DEF StartLoad, Catalog!Begin, Hashes, Begun, Delivered
<1>3. CASE LoadFails
  BY <1>0, <1>1, <1>3 DEF LoadFails, Catalog!Fail, Hashes, Begun, Delivered
<1>4. CASE LoadEnds
  <2>1. load # None /\ load' = None /\ loaded' = load /\ load.doc # None
    BY <1>1, <1>4, PublicationAssumption, PartialOfNothing DEF LoadEnds, Pinned
  <2>2. PICK i \in load.firstCam..Len(cams) : load.doc = cams[i].hash
    BY <1>1, <2>1 DEF Pinned, HashAccepted
  <2>3. i \in 1..Len(cams) /\ Hashes[i] = load.doc
    BY <1>0, <1>1, <2>1, <2>2
  <2> QED
    BY <1>0, <1>1, <2>1, <2>2, <2>3 DEF Catalog!Finish, Hashes, Begun, Delivered
<1>5. CASE \/ ReadURI \/ ReadHash \/ ReadRoot \/ ReadUi
           \/ \E n \in Names : ReadAddress(n) \/ ReadAbi(n)
  <2>1. load # None /\ loaded' = loaded /\ load'.firstCam = load.firstCam
    BY <1>1, <1>5 DEF ReadURI, ReadHash, ReadRoot, ReadUi, ReadAddress, ReadAbi, ReadResource,
                      WithResource, Pinned, Loads
  <2>2. CASE load' = None
    BY <1>0, <1>1, <2>1, <2>2 DEF Catalog!Fail, Hashes, Begun, Delivered
  <2>3. CASE load' # None
    BY <1>0, <2>1, <2>3 DEF Begun, Delivered
  <2> QED
    BY <2>2, <2>3
<1> QED
  BY <1>2, <1>3, <1>4, <1>5

LEMMA StepsMapToCatalog ==
  ASSUME IInv, ~AllowUnsigned, [Next]_vars
  PROVE  [Catalog!Next]_<<Hashes, Begun, Delivered>>
<1>1. ASSUME NEW u \in URIs, NEW hash \in Docs \cup {ZeroHash}, SetCam(u, hash)
      PROVE  Catalog!Next
  BY <1>1, SetCamPublishes DEF Catalog!Next
<1>2. CASE \/ StartLoad \/ ReadURI \/ ReadHash \/ ReadRoot \/ ReadUi \/ LoadEnds \/ LoadFails
           \/ \E n \in Names : ReadAddress(n) \/ ReadAbi(n)
  <2>1. UNCHANGED cams
    BY <1>2 DEF StartLoad, ReadURI, ReadHash, ReadRoot, ReadUi, LoadEnds, LoadFails, ReadAddress,
                ReadAbi, ReadResource, hostVars
  <2> QED
    BY <1>2, <2>1, ViewerStepsMapToCatalog DEF Catalog!Next
<1>3. CASE UNCHANGED <<cams, viewerVars>>
  BY <1>3 DEF Hashes, Begun, Delivered, viewerVars
<1>4. CASE \/ \E r \in Resources, blob \in Blobs : EditResource(r, blob)
           \/ RestoreRoot \/ RefreshStarts \/ RefreshOpens \/ RefreshWrites \/ RefreshStops
           \/ PreflightRoot \/ PreflightEnds
           \/ \E r \in Resources : PreflightResource(r) \/ RefreshResource(r)
           \/ \E u \in URIs, f \in Resources \cup {"root"} : Upload(u, f)
           \/ \E n \in Names, address \in Addresses \cup {ZeroAddress} : SetContractAddress(n, address)
  BY <1>3, <1>4 DEF EditResource, RestoreRoot, RefreshStarts, RefreshOpens, RefreshWrites, RefreshStops,
     PreflightRoot, PreflightEnds, PreflightResource, RefreshResource, Upload, SetContractAddress, hostVars
<1>5. CASE UNCHANGED vars
  BY <1>3, <1>5 DEF vars, viewerVars
<1> QED
  BY <1>1, <1>2, <1>4, <1>5 DEF Next

\* For a viewer that insists on hashes a load amounts to one read of one publication
\* between its begin and its end, although the location, the hash and the bytes are
\* read one after another while the owner publishes (host.ts 26-62).
THEOREM PublicationImplementsCatalog ==
  ASSUME ~AllowUnsigned
  PROVE  Spec => ImplementsCatalog
<1>1. Init => Catalog!Init
  BY InitMapsToCatalog
<1>2. IInv /\ [Next]_vars => [Catalog!Next]_<<Hashes, Begun, Delivered>>
  BY StepsMapToCatalog
<1> QED
  BY <1>1, <1>2, PublicationInvariant, PTL
     DEF Spec, ImplementsCatalog, Catalog!Spec, Hashes, Begun, Delivered
=============================================================================
