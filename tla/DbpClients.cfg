CONSTANTS
    Clients = {1, 2, 3}
    Sockets = {4, 5, 6}
    MaxConn = 2
    Pushers = {"zigbee"}
SPECIFICATION FairSpec
INVARIANTS TypeOK SlotsAreCounted  
 
CHECK_DEADLOCK FALSE
