\* The manager's child and a user, two Hub URLs, three events.
CONSTANTS
  child = child
  terminal = terminal
  old = old
  new = new
  host = host
  chosen = chosen
  none = none
  Proc = {child, terminal}
  Managed = {child}
  Hub = {old, new}
  Name = {host, chosen}
  NoName = none
  DefaultName = host
  Options <- CommandLines
  MaxQrRefresh = 2
  MaxTokens = 6
  MaxEvents = 3
SPECIFICATION Spec
INVARIANTS
  RunsWhereAccepted
PROPERTIES
  EveryStartEnds
  ComesBack
CHECK_DEADLOCK FALSE
