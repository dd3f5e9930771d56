SPECIFICATION Spec
CONSTANTS
    Nil = Nil
    MaxUint8 = 31
    MaxUint16 = 63
    MaxUint32 = 127
    MaxUint64 = 255
    MaxBig = 511
    HashSize = 2
    SubnetworkIDSize = 1
    IDLength = 3
    MultisetSize = 3
    ByteBase = 4
    HexBase = 2
    MaxAddressesPerMsg = 2
    MaxBlockLocatorsPerMsg = 2
    MaxInvPerMsg = 2
    MaxUserAgentLen = 2
INVARIANTS
    MessagesArriveUnchanged
    NothingIsRefused
    ObjectsSurvive
