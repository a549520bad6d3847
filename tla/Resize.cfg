\* Sizes that look like the prefix, and one that ends like it.
SPECIFICATION Spec
CONSTANTS
  Sizes <- ResizeSizes
  MaxTyped = 3
  MaxChanges = 2
INVARIANTS
  TypeOK
  ReadsDoNotMatter
  TextIsUntouched
  PtyFollowsTerminal
CHECK_DEADLOCK FALSE
