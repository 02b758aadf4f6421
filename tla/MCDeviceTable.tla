--------------------------- MODULE MCDeviceTable ---------------------------
EXTENDS DeviceTable

CONSTANTS m, u, l

MCKind  == [d \in Devices |-> CASE d = m -> "man" [] d = u -> "ui" [] d = l -> "lmp"]
MCRoles == [d \in Devices |-> CASE d = m -> {"man"} [] d = u -> {"ui", "sen"} [] d = l -> {}]
=============================================================================
