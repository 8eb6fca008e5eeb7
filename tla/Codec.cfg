SPECIFICATION Spec
CONSTANTS
    ServerSamples <- MCServerSamples
    ClientSamples <- MCClientSamples
    MaxFrames = 2
    Damages = {13, 255}
    MaxVarintLen = 3
    MaxLastByte = 1
\* One message, from its first frame to the last one decoded.
CHECK_DEADLOCK FALSE
INVARIANTS
    TypeOK
    RoundTrip
    CutYieldsWhole
    DamageSparesEarlier
