SPECIFICATION RemoteFairSpec
CONSTANTS
    fan = fan
    boost = boost
    tdp = tdp
    Configured <- ConfiguredIfaces
    Tdp = tdp
    LocalIfaces = {boost}
    MaxFlaps = 0
PROPERTIES
    PresentIsRelayed
CHECK_DEADLOCK FALSE
