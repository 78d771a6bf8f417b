---------------------------- MODULE CamResources ----------------------------
(***************************************************************************)
(* The URIs of cam-protocol/src/resources.ts: how a reference is resolved   *)
(* against the URI of the document it stands in, which references and roots *)
(* are accepted, how a CID is decoded, and when a digest matches.           *)
(*                                                                         *)
(* A path is the sequence of its parts between slashes: "/a/" is            *)
(* <<"", "a", "">>, and the empty string is <<"">>.                         *)
(***************************************************************************)
EXTENDS Integers, Sequences, SequencesExt, FiniteSetsExt

CONSTANTS
  DotNames, OtherNames,     \* names of parts, with and without a leading dot
  Escaped,                  \* names with % or a backslash
  SafeInteger,              \* Number.MAX_SAFE_INTEGER
  BufferSize,               \* 2^32, what a bitwise operation of JavaScript keeps: more than 13 bits
  DigestBytes,              \* 32
  Questions,                \* bound: what is asked
  None, Undefined

Names == DotNames \cup OtherNames \cup Escaped
Parts == Names \cup {"", ".", ".."}
Paths == Seq(Parts) \ {<<>>}
Bytes == 0..255

\* A base with a hierarchy starts at its root, a base or a reference is never empty, and
\* characters that are no digits are not decoded (assertURIString, HIERARCHICAL_URI_RE,
\* isSupportedIpfsCid).
IsQuestion(q) ==
  CASE q.op = "resolve" ->
         /\ q.base \in [form : {"hierarchical", "opaque", "plain"}, path : Paths, suffix : {None, "query", "fragment"}]
         /\ q.base.form = "hierarchical" => q.base.path[1] = ""
         /\ q.base.form = "plain" => q.base.path # <<"">>
         /\ q.ref.form = "path" => q.ref.path \in Paths \ {<<"">>}
    [] q.op = "base32" -> q.digits \in Seq(0..31)
    [] q.op = "base58" -> q.digits \in Seq(0..57)
    [] q.op \in {"varint", "cid"} -> q.bytes \in Seq(Bytes)
    [] OTHER -> TRUE

ASSUME NamesAssumption == DotNames \cap OtherNames = {} /\ Names \cap {"", ".", ".."} = {}
ASSUME NumbersAssumption ==
  /\ BufferSize \in Nat \ {0} /\ BufferSize % 8192 = 0
  /\ SafeInteger \in Nat /\ DigestBytes \in 0..127
ASSUME QuestionsAssumption == \A q \in Questions : IsQuestion(q)

-----------------------------------------------------------------------------
(* Loops.  A fold is written as a recursive function, and a step as a       *)
(* function of what was made so far and the next item.                      *)

Run(step, base, items) ==
  LET made[i \in 0..Len(items)] == IF i = 0 THEN base ELSE step[<<made[i - 1], items[i]>>]
  IN made

Loop(step, base, items) == Run(step, base, items)[Len(items)]

BigEndian(radix, digits) == Loop([x \in Nat \X Nat |-> radix * x[1] + x[2]], 0, digits)

LittleEndian(radix, digits) == BigEndian(radix, Reverse(digits))

-----------------------------------------------------------------------------
(* Paths                                                                    *)

IsAbsolute(path) == Len(path) > 1 /\ path[1] = ""
EndsWithSlash(path) == Len(path) > 1 /\ Last(path) = ""

\* Mutated form of CollapseStep: a parent is taken off whatever is there.
CollapseStepBlindly(absolute, parts, part) ==
  CASE part \in {"", "."} -> parts
    [] part = ".." /\ parts # <<>> -> Front(parts)
    [] part = ".." /\ parts = <<>> -> IF absolute THEN parts ELSE Append(parts, part)
    [] OTHER -> Append(parts, part)

\* The loop of normalizePath.
CollapseStep(absolute, parts, part) ==
  CASE part \in {"", "."} -> parts
    [] part = ".." /\ parts # <<>> /\ Last(parts) # ".." -> Front(parts)
    [] part = ".." /\ (parts = <<>> \/ Last(parts) = "..") ->
         IF absolute THEN parts ELSE Append(parts, part)
    [] OTHER -> Append(parts, part)

Collapse(absolute, path) ==
  Loop([x \in Seq(Parts) \X Parts |-> CollapseStep(absolute, x[1], x[2])], <<>>, path)

normalizePath(path) ==
  LET parts == Collapse(IsAbsolute(path), path)
      slash == IF EndsWithSlash(path) THEN <<"">> ELSE <<>>
  IN CASE IsAbsolute(path) /\ parts = <<>> -> <<"", "">>
       [] IsAbsolute(path) /\ parts # <<>> -> <<"">> \o parts \o slash
       [] OTHER -> (IF parts = <<>> THEN <<".">> ELSE parts) \o slash

directoryOf(path) ==
  IF path = <<"">> \/ EndsWithSlash(path) THEN path ELSE Append(Front(path), "")

\* What a reference's path is before it is normalized.
Against(base, path) == IF IsAbsolute(path) THEN path ELSE Front(directoryOf(base)) \o path

normalizeRelativePath(path, base) ==
  LET normalized == normalizePath(path)
  IN IF Len(base) > 1 /\ base[1] = "." /\ normalized[1] \notin DotNames \cup {".", "..", ""}
     THEN <<".">> \o normalized ELSE normalized

\* resolveCamResourceURI.  A base is hierarchical, opaque (mailto:x) or plain; a
\* reference has a scheme of its own, starts with //, ? or #, or is a path.
resolveCamResourceURI(base, ref) ==
  CASE ref.form = "scheme" -> ref
    [] ref.form = "schemeRelative" -> Undefined
    [] ref.form \in {"query", "fragment"} -> [base EXCEPT !.suffix = ref.form]
    [] ref.form = "path" /\ base.form = "hierarchical" ->
         [base EXCEPT !.path = normalizePath(Against(IF @ = <<"">> THEN <<"", "">> ELSE @, ref.path)),
                      !.suffix = ref.suffix]
    [] ref.form = "path" /\ base.form = "opaque" -> Undefined
    [] OTHER ->
         [base EXCEPT !.path = normalizeRelativePath(Against(@, ref.path), @), !.suffix = ref.suffix]

-----------------------------------------------------------------------------
(* Policy                                                                   *)

isCamResourcePath(path) == \A i \in DOMAIN path : path[i] \in DotNames \cup OtherNames

\* assertCamSecondaryResourceURI
IsSecondary(ref) ==
  \/ /\ ref.form = "path" /\ ref.suffix = None
     /\ Len(ref.path) > 1 /\ ref.path[1] = "." /\ isCamResourcePath(Tail(ref.path))
  \/ ref.form = "scheme" /\ ref.scheme = "ipfs" /\ ref.cid /\ isCamResourcePath(ref.path)

\* requireHttpURL
IsHttp(uri) == uri.form = "scheme" /\ uri.scheme \in {"http", "https"} /\ ~ uri.credentials /\ ~ uri.raw

assertLoadableCamRootURI(uri) ==
  uri.form = "scheme" /\ ~ uri.credentials /\ (IsHttp(uri) \/ (uri.scheme = "ipfs" /\ IsSecondary(uri)))

assertPublishedCamRootURI(uri) ==
  uri.form = "scheme" /\ ~ uri.credentials /\
    ((uri.scheme = "https" /\ IsHttp(uri)) \/ (uri.scheme = "ipfs" /\ IsSecondary(uri)))

-----------------------------------------------------------------------------
(* CIDs                                                                     *)

\* A character adds five bits; eight of them leave as a byte.
Base32Step(acc, digit) ==
  LET buffer == (acc.buffer * 32 + digit) % BufferSize
      bits == acc.bits + 5
  IN IF bits < 8 THEN [acc EXCEPT !.buffer = buffer, !.bits = bits]
     ELSE [buffer |-> buffer, bits |-> bits - 8,
           bytes |-> Append(acc.bytes, (buffer \div 2^(bits - 8)) % 256)]

decodeBase32(digits) ==
  LET Accs == [buffer : 0..BufferSize - 1, bits : 0..7, bytes : Seq(Bytes)]
      end == Loop([x \in Accs \X (0..31) |-> Base32Step(x[1], x[2])],
                  [buffer |-> 0, bits |-> 0, bytes |-> <<>>], digits)
  IN IF end.buffer % 2^end.bits # 0 THEN Undefined ELSE end.bytes

\* The bytes are kept with the lowest first, and turned round at the end.
Base58Step(bytes, digit) ==
  LET carry == Run([x \in Nat \X Bytes |-> (x[1] + 58 * x[2]) \div 256], digit, bytes)
      next == [i \in 1..Len(bytes) |-> (carry[i - 1] + 58 * bytes[i]) % 256]
  IN IF carry[Len(bytes)] > 0 THEN Append(next, carry[Len(bytes)]) ELSE next

decodeBase58btc(digits) ==
  LET leading == Max({n \in 0..Len(digits) : \A i \in 1..n : digits[i] = 0})
  IN Reverse(Loop([x \in Seq(Bytes) \X (0..57) |-> Base58Step(x[1], x[2])], <<0>>, digits)
             \o [i \in 1..leading |-> 0])

\* A varint ends at its first byte below 128; its digits are of base 128, the lowest first.
IsCut(bytes) == \A i \in DOMAIN bytes : bytes[i] >= 128
End(bytes) == Min({i \in DOMAIN bytes : bytes[i] < 128})
Value(bytes) == LittleEndian(128, [i \in 1..End(bytes) |-> bytes[i] % 128])
multiplier(bytes) == 128^(End(bytes) - 1)

\* Mutated form of readVarint: a last byte of zero is as good as none.
ReadAnyVarint(bytes) ==
  IF IsCut(bytes) \/ multiplier(bytes) > SafeInteger \/ Value(bytes) > SafeInteger
  THEN Undefined ELSE [value |-> Value(bytes), size |-> End(bytes)]

\* The value of the varint at the head of bytes and how many bytes it takes.
readVarint(bytes) ==
  IF IsCut(bytes) \/ multiplier(bytes) > SafeInteger \/ Value(bytes) > SafeInteger
     \/ (End(bytes) > 1 /\ bytes[End(bytes)] = 0)
  THEN Undefined ELSE [value |-> Value(bytes), size |-> End(bytes)]

After(bytes, varint) == SubSeq(bytes, varint.size + 1, Len(bytes))

\* isCidV1, given the bytes that base 32 decodes to: version 1, codec raw or dag-pb, sha2-256 and a digest of its size.
isCidV1(bytes) ==
  LET version == readVarint(bytes)
      fromCodec == After(bytes, version)
      codec == readVarint(fromCodec)
      fromHashCode == After(fromCodec, codec)
      hashCode == readVarint(fromHashCode)
      fromHashLength == After(fromHashCode, hashCode)
      hashLength == readVarint(fromHashLength)
  IN /\ version # Undefined /\ version.value = 1
     /\ codec # Undefined /\ codec.value \in {85, 112}
     /\ hashCode # Undefined /\ hashCode.value = 18
     /\ hashLength # Undefined /\ hashLength.value = DigestBytes
     /\ Len(After(fromHashLength, hashLength)) = hashLength.value

\* verifySha256ResourceIntegrity: the digest of the bytes is always in lower case.
verifyIntegrity(integrity, actual) ==
  /\ integrity.prefix = "sha256" /\ integrity.spelling = "lower"
  /\ integrity.digest = actual

-----------------------------------------------------------------------------
(* One question is asked and answered.                                      *)

VARIABLES asked, answer
vars == <<asked, answer>>

Init == asked \in Questions /\ answer = None

Answers(op, result) == answer = None /\ asked.op = op /\ answer' = <<result>> /\ UNCHANGED asked

Resolve == asked.op = "resolve" /\ Answers("resolve", resolveCamResourceURI(asked.base, asked.ref))
CheckRoot ==
  asked.op = "root" /\ Answers("root", <<assertPublishedCamRootURI(asked.uri), assertLoadableCamRootURI(asked.uri)>>)
Decode32 == asked.op = "base32" /\ Answers("base32", decodeBase32(asked.digits))
Decode58 == asked.op = "base58" /\ Answers("base58", decodeBase58btc(asked.digits))
ReadVarint == asked.op = "varint" /\ Answers("varint", readVarint(asked.bytes))
CheckCid == asked.op = "cid" /\ Answers("cid", isCidV1(asked.bytes))
Verify == asked.op = "integrity" /\ Answers("integrity", verifyIntegrity(asked.integrity, asked.actual))

Next == Resolve \/ CheckRoot \/ Decode32 \/ Decode58 \/ ReadVarint \/ CheckCid \/ Verify
Spec == Init /\ [][Next]_vars

-----------------------------------------------------------------------------
(* Properties                                                               *)

Answered(op) == answer # None /\ asked.op = op

\* Where a path leads, from a directory: its names from the root on.
WalkStep(at, part) ==
  CASE part \in {"", "."} -> at
    [] part = ".." -> IF at = <<>> THEN at ELSE Front(at)
    [] OTHER -> Append(at, part)

Walk(from, path) ==
  Loop([x \in Seq(Parts) \X Parts |-> WalkStep(x[1], x[2])],
       IF IsAbsolute(path) THEN <<>> ELSE from, path)

\* A directory that is deeper than any path of the instance climbs; no path leads into
\* a directory of that name.
Deep == [i \in 1..8 |-> ".."]
Start(base) == IF base.form = "hierarchical" THEN <<>> ELSE Deep

\* A key leads where its reference leads from the directory of its base, and it is
\* the same for every spelling of that: resolving a key again, as a reference or as a
\* base, changes nothing.  An accepted reference leads below the directory of its
\* document, to exactly the names it spells, so two accepted references are never one
\* key; and a root that may be published can be loaded (resources.ts 162-243, 296-388).
KeysAreDeterministic ==
  /\ Answered("resolve") /\ answer[1] # Undefined /\ asked.ref.form = "path" =>
       LET key == answer[1].path
           start == Start(asked.base)
           directory == Walk(start, directoryOf(asked.base.path))
       IN /\ Walk(start, key) = Walk(directory, asked.ref.path)
          /\ IsSecondary(asked.ref) => Walk(start, key) = directory \o Tail(asked.ref.path)
          /\ normalizePath(key) = IF asked.base.form = "plain" /\ key[1] = "." /\ Len(key) > 1 /\ key # <<".", "">>
                                  THEN Tail(key) ELSE key
          /\ EndsWithSlash(key) <=> EndsWithSlash(asked.ref.path) \/ key = <<"", "">>
  /\ Answered("root") => (answer[1][1] => answer[1][2])

\* Base 32 decodes to as many bytes as the text fills, and to its number: the bits that
\* fill no byte are zero.  Base 58 keeps the number too.  A number has one spelling as a
\* varint; an accepted CID is exactly its four header bytes and the digest, and a resource
\* passes only under its own digest (resources.ts 408-536).
IdentifiersAreExact ==
  /\ Answered("base32") =>
       LET number == BigEndian(32, asked.digits)
           spare == (5 * Len(asked.digits)) % 8
       IN IF number % 2^spare # 0 THEN answer[1] = Undefined
          ELSE /\ answer[1] \in Seq(Bytes) /\ Len(answer[1]) = (5 * Len(asked.digits)) \div 8
               /\ BigEndian(256, answer[1]) = number \div 2^spare
  /\ Answered("base58") =>
       answer[1] \in Seq(Bytes) /\ BigEndian(256, answer[1]) = BigEndian(58, asked.digits)
  /\ Answered("varint") /\ answer[1] # Undefined =>
       \A q \in Questions : q.op = "varint" =>
         LET other == readVarint(q.bytes)
         IN other # Undefined /\ other.value = answer[1].value =>
              SubSeq(q.bytes, 1, other.size) = SubSeq(asked.bytes, 1, answer[1].size)
  /\ Answered("cid") /\ answer[1] =>
       /\ asked.bytes[1] = 1 /\ asked.bytes[2] \in {85, 112}
       /\ asked.bytes[3] = 18 /\ asked.bytes[4] = DigestBytes
       /\ Len(asked.bytes) = 4 + DigestBytes
  /\ Answered("integrity") => (answer[1] => asked.integrity.digest = asked.actual)
=============================================================================
