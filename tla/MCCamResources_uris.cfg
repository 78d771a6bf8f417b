SPECIFICATION Spec
CONSTANTS
  DotNames = {".well-known"}
  OtherNames = {"a"}
  Escaped = {"%5c"}
  SafeInteger = 32767
  BufferSize = 1048576
  DigestBytes = 1
  Questions <- MCQuestions
  None = None
  Undefined = Undefined
CHECK_DEADLOCK FALSE
INVARIANTS KeysAreDeterministic IdentifiersAreExact
