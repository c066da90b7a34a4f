SPECIFICATION Spec
CONSTANTS
  Chars <- EdgeChars
  Lengths <- UpTo4
INVARIANT DecodesArgument
CHECK_DEADLOCK FALSE
