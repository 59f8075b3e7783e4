\* Two blocks, one of several lines; three copies, with and without the API.
SPECIFICATION Spec
CONSTANTS
  Texts = {line, block}
  Fits = {line}
  MaxCopies = 3
  line = line
  block = block
CHECK_DEADLOCK FALSE
INVARIANTS TypeOK
PROPERTIES CopiedOnce CopyEnds
