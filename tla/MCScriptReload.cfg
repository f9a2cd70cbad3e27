CONSTANTS
  calling = calling
  plain = plain
  before = before
  after = after
  f1 = f1
  f2 = f2
  Loader = Loader
  NoOne = NoOne
  Firers = {f1, f2}
  Writers = {Loader}
  Events = {before, after}
  Awaited = {before}
  Scripts = {calling, plain}
  MaxRevision = 2
  Handlers <- MCHandlers
  Matching <- MCMatching
  Weight <- MCWeight
  CallsBack <- MCCallsBack
SPECIFICATION FairSpec
INVARIANTS OneRevision ExecutableIsSecured
PROPERTIES ImplementsTable WaitForReturns ReloadEnds
