CONSTANTS
  Junk = Junk
  FMT_BUFFER = 8
  Formats <- ShortFormats
  Reps <- Years
  Sizes <- FewSizes
  Strings <- FewStrings
SPECIFICATION Spec
INVARIANT WithinBuffer
INVARIANT PrintedRight
INVARIANT BackAgain
