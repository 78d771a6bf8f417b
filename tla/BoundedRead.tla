---------------------------- MODULE BoundedRead ----------------------------
(***************************************************************************)
(* How the bytes of a CAM resource are read: from an HTTP response          *)
(* (createSameOriginHttpResourceLoader and readBoundedResponseBytes of      *)
(* cam-protocol/src/resources.ts) or from a local file (readBoundedFile of  *)
(* tools/local-cam-files.ts).  The other end decides, read by read, what    *)
(* comes next; a file may be written to while it is read.  Bytes are        *)
(* counted, and numbered in the order the other end has them.               *)
(***************************************************************************)
EXTENDS Integers, Sequences, FiniteSetsExt

CONSTANTS
  MaxBytes,       \* CAM_RESOURCE_MAX_BYTES
  MaxChunk,       \* the size of a read of a file; the largest chunk of a stream
  MaxFile,        \* bound: how large a file grows
  None, Invalid, Error

ASSUME ReadAssumption ==
  /\ MaxBytes \in Nat /\ MaxChunk \in Nat \ {0} /\ MaxFile \in Nat
  /\ None \notin Nat /\ Error \notin Nat /\ Error # None

VARIABLES
  source,   \* "http" or "file"
  headers,  \* of a response: status, origin, content-encoding, content-length, stream
  size,     \* the size of the file, or of what the server has sent
  stage,    \* "open", "reading", "cancelling", "release" or "done"
  chunks,   \* the sizes of the chunks that were kept
  taken,    \* the bytes read, kept or not
  reads,    \* the parity of the reads: one that gives nothing is still a step
  ended,    \* the other end said that this is all
  locked,   \* the reader's lock, or the open file
  outcome   \* None, Error or the number of bytes returned

vars == <<source, headers, size, stage, chunks, taken, reads, ended, locked, outcome>>

Headers ==
  [sameOrigin : BOOLEAN, ok : BOOLEAN, redirected : BOOLEAN,
   encoding : {None, "identity", "gzip"},
   length : {None, Invalid} \cup 0..(MaxBytes + 1), stream : BOOLEAN]

Init ==
  /\ source \in {"http", "file"}
  /\ headers \in IF source = "http" THEN Headers ELSE {None}
  /\ size \in IF source = "http" THEN {0} ELSE 0..MaxFile
  /\ stage = "open" /\ chunks = <<>> /\ taken = 0 /\ reads = 0
  /\ ended = FALSE /\ locked = FALSE /\ outcome = None

\* The loop that copies the chunks: each one goes behind those before it.
Offsets(s) ==
  LET offset[i \in 0..Len(s)] == IF i = 0 THEN 0 ELSE offset[i - 1] + s[i] IN offset

Kept == Offsets(chunks)[Len(chunks)]

Declared == IF source = "http" THEN headers.length ELSE None

Ends(result) == stage' = "done" /\ outcome' = result

-----------------------------------------------------------------------------
(* Opening                                                                  *)

\* The loader rejects another origin and a bad status, the fetch a redirect, and
\* readBoundedResponseBytes a content encoding, a bad or large Content-Length and a
\* body that is no stream.
Refused ==
  \/ ~ headers.sameOrigin \/ headers.redirected \/ ~ headers.ok
  \/ headers.encoding = "gzip" \/ ~ headers.stream
  \/ headers.length = Invalid
  \/ headers.length \in Nat /\ headers.length > MaxBytes

OpenResponse ==
  /\ source = "http" /\ stage = "open"
  /\ IF Refused THEN Ends(Error) /\ UNCHANGED locked
     ELSE stage' = "reading" /\ locked' = TRUE /\ UNCHANGED outcome
  /\ UNCHANGED <<source, headers, size, chunks, taken, reads, ended>>

\* assertRegularFile and assertResourceSize, on the file of that moment; then open.
OpenFile ==
  /\ source = "file" /\ stage = "open"
  /\ IF size > MaxBytes THEN Ends(Error) /\ UNCHANGED locked
     ELSE stage' = "reading" /\ locked' = TRUE /\ UNCHANGED outcome
  /\ UNCHANGED <<source, headers, size, chunks, taken, reads, ended>>

\* The file is written to: it grows or is truncated.
FileChanges(n) ==
  /\ source = "file" /\ stage \in {"open", "reading"} /\ n # size
  /\ size' = n
  /\ UNCHANGED <<source, headers, stage, chunks, taken, reads, ended, locked, outcome>>

-----------------------------------------------------------------------------
(* Reading                                                                  *)

TooMuch(n) == n > MaxBytes \/ (Declared # None /\ n > Declared)

\* Mutated form of StreamChunk: an empty chunk is as good as any.
StreamChunkEmptyToo(n) ==
  /\ source = "http" /\ stage = "reading" /\ ~ ended
  /\ size' = size + n /\ taken' = taken + n /\ reads' = 1 - reads
  /\ IF TooMuch(taken')
     THEN stage' = "cancelling" /\ UNCHANGED chunks
     ELSE chunks' = (IF n = 0 THEN chunks ELSE Append(chunks, n)) /\ UNCHANGED stage
  /\ UNCHANGED <<source, headers, ended, locked, outcome>>

\* Mutated form of StreamChunk: a chunk is kept before it is counted.
StreamChunkKeptFirst(n) ==
  /\ source = "http" /\ stage = "reading" /\ ~ ended
  /\ size' = size + n /\ taken' = taken + n /\ reads' = 1 - reads
  /\ IF n = 0 THEN stage' = "release" /\ UNCHANGED chunks
     ELSE /\ chunks' = Append(chunks, n)
          /\ stage' = IF TooMuch(taken) THEN "cancelling" ELSE stage
  /\ UNCHANGED <<source, headers, ended, locked, outcome>>

\* reader.read gives a chunk: an empty one is an error, one too many is cancelled.
StreamChunk(n) ==
  /\ source = "http" /\ stage = "reading" /\ ~ ended
  /\ size' = size + n /\ taken' = taken + n /\ reads' = 1 - reads
  /\ \/ n = 0 /\ stage' = "release" /\ UNCHANGED chunks
     \/ n > 0 /\ TooMuch(taken') /\ stage' = "cancelling" /\ UNCHANGED chunks
     \/ n > 0 /\ ~ TooMuch(taken') /\ chunks' = Append(chunks, n) /\ UNCHANGED stage
  /\ UNCHANGED <<source, headers, ended, locked, outcome>>

\* reader.read is done; what follows the release decides.
StreamEnds ==
  /\ source = "http" /\ stage = "reading" /\ ~ ended
  /\ ended' = TRUE /\ stage' = "release"
  /\ UNCHANGED <<source, headers, size, chunks, taken, reads, locked, outcome>>

\* handle.read: at most what the limit leaves, plus one byte.
FileChunk(n) ==
  /\ source = "file" /\ stage = "reading" /\ ~ ended
  /\ n \in 1..Min({MaxChunk, MaxBytes + 1 - taken}) /\ taken + n <= size
  /\ taken' = taken + n /\ reads' = 1 - reads
  /\ IF TooMuch(taken') THEN stage' = "release" /\ UNCHANGED chunks
     ELSE chunks' = Append(chunks, n) /\ UNCHANGED stage
  /\ UNCHANGED <<source, headers, size, ended, locked, outcome>>

FileEnds ==
  /\ source = "file" /\ stage = "reading" /\ ~ ended /\ taken >= size
  /\ ended' = TRUE /\ stage' = "release"
  /\ UNCHANGED <<source, headers, size, chunks, taken, reads, locked, outcome>>

\* The read is rejected, or the chunk is not bytes.
ReadFails ==
  /\ stage = "reading" /\ ~ ended
  /\ stage' = "release"
  /\ UNCHANGED <<source, headers, size, chunks, taken, reads, ended, locked, outcome>>

-----------------------------------------------------------------------------
(* Leaving                                                                  *)

\* reader.cancel settles, one way or the other; its failure is swallowed.
Cancelled ==
  /\ stage = "cancelling" /\ stage' = "release"
  /\ UNCHANGED <<source, headers, size, chunks, taken, reads, ended, locked, outcome>>

\* Mutated form of Release: the end is enough, whatever the length said.
ReleaseAnyLength ==
  /\ stage = "release" /\ locked' = FALSE
  /\ Ends(IF ended THEN Kept ELSE Error)
  /\ UNCHANGED <<source, headers, size, chunks, taken, reads, ended>>

\* The finally block, then the comparison with Content-Length and the copy.
Release ==
  /\ stage = "release" /\ locked' = FALSE
  /\ Ends(IF ended /\ (Declared # None => taken = Declared) THEN Kept ELSE Error)
  /\ UNCHANGED <<source, headers, size, chunks, taken, reads, ended>>

Reader ==
  \/ OpenResponse \/ OpenFile
  \/ \E n \in 0..MaxChunk : StreamChunk(n) \/ FileChunk(n)
  \/ StreamEnds \/ FileEnds \/ ReadFails \/ Cancelled \/ Release

Next == Reader \/ \E n \in 0..MaxFile : FileChanges(n)

Spec == Init /\ [][Next]_vars

\* Every read and every cancel settles; nothing is assumed of what they give.
FairSpec == Spec /\ WF_vars(Reader)

-----------------------------------------------------------------------------
(* Properties                                                               *)

\* The types; the lock is held exactly while there is something to read or cancel,
\* and a file is never read further than one byte past the limit (resources.ts 559-612,
\* local-cam-files.ts 156-178).
TypeOK ==
  /\ stage \in {"open", "reading", "cancelling", "release", "done"}
  /\ taken \in 0..(MaxBytes + MaxChunk) /\ (source = "file" => taken <= MaxBytes + 1)
  /\ source \in {"http", "file"} /\ (source = "http" => headers \in Headers)
  /\ size \in Nat /\ reads \in 0..1 /\ chunks \in Seq(1..MaxChunk)
  /\ locked <=> stage \in {"reading", "cancelling", "release"}
  /\ outcome # None <=> stage = "done"

\* What is buffered never exceeds the limit, not even while an oversized stream or
\* a file that grew after it was measured is being read (resources.ts 559-592,
\* local-cam-files.ts 156-178).
BufferIsBounded == Kept <= MaxBytes /\ Kept <= taken

\* What is returned is all the other end had, and of the announced length: a stream
\* cut short or overlong, recoded, redirected or from elsewhere is never taken for
\* the resource (resources.ts 119-143, 538-612).
AcceptedIsWhole ==
  outcome \in Nat =>
    /\ outcome = taken /\ ended /\ outcome <= MaxBytes
    /\ source = "http" =>
         /\ outcome = size /\ headers.encoding # "gzip"
         /\ headers.sameOrigin /\ ~ headers.redirected
         /\ Declared # None => outcome = Declared

\* A read ends, also of a stream that never does and of a file that keeps growing,
\* and it leaves no lock and no open file (resources.ts 559-612, local-cam-files.ts
\* 156-178).
ReadsEnd == <>(stage = "done" /\ ~ locked)
=============================================================================
