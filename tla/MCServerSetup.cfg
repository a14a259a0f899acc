\* The command line server with four entries of three plug-ins.
CONSTANTS
  NumProtocols = 4
  Plugins = {tcp, udp, other}
  KeysFreed = FALSE
SPECIFICATION Spec
INVARIANTS EntriesExist ServesAll PortsFreed RightPlugin
SYMMETRY PluginSymmetry
\* The program ends.
CHECK_DEADLOCK FALSE
