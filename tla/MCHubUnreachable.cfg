\* One bridge, one Hub: a kill, and a Hub that fails to answer once.
CONSTANTS
  child = child
  terminal = terminal
  old = old
  new = new
  host = host
  chosen = chosen
  none = none
  Proc = {child}
  Managed = {child}
  Hub = {new}
  Name = {host, chosen}
  NoName = none
  DefaultName = host
  Options <- ChildAlone
  MaxQrRefresh = 2
  MaxTokens = 6
  MaxEvents = 3
SPECIFICATION Spec
PROPERTIES
  GoodCredentialsSurvive
CHECK_DEADLOCK FALSE
