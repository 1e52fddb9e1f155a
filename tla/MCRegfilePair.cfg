SPECIFICATION PairSpec
CONSTANTS
    Reg <- MCReg
    Word <- MCWord
PROPERTIES PortsAnticipateEdge ZeroAfterReset Interchangeable
