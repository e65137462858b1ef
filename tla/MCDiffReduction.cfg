SPECIFICATION Spec
CONSTANTS
  Unregistered = Unregistered
  N = 3
  FileType <- Types
  Limit <- Limits
  NoLimit = Unregistered
  Header = 1
  GitHeader = 2
  Frame = 1
  Line = 1
INVARIANTS
  IInv
  CleanMeansSeen
  DisclosedExactly
  TextFits
