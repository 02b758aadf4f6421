CONSTANTS
    Messages <- Frames
    Noise <- NoiseBytes
    u16MaxLength = 3
    MaxFaults = 3
    Faults = {"loss", "noise", "interrupt"}
    XorByte <- Exclusive
SPECIFICATION Spec
INVARIANTS TypeOK  AcceptedWasSent DataInBounds
