\* A deleted record can no longer be loaded: nothing may happen any more.
CONSTANTS
  editor = editor
  reader = reader
  free = free
  guarded = guarded
  Clients = {editor, reader}
  Fields = {free, guarded}
  Positions = {free}
  Readable <- MCReadable
  Updatable <- MCUpdatable
  NoValue = NoValue
SPECIFICATION Spec
INVARIANTS AuthorsMayUpdate OnlyPositionsOutliveTheRecord
PROPERTIES KeepsReadValues 
CHECK_DEADLOCK FALSE
