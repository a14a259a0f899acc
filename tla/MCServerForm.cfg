\* Two forms, two plug-ins, two ports, a list of up to two items.
CONSTANTS
  Forms = {"kylix", "borland"}
  Plugins = {tcp, udp}
  Streams = {tcp}
  MaxPort = 2
  PortRange = 3
  Typed <- MCTyped
  MaxEntries = 2
SPECIFICATION Spec
INVARIANTS GivenBack 
\* The window closes.
CHECK_DEADLOCK FALSE
