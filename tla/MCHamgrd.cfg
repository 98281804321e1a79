\* hamgrd starting while requests for its actors arrive.
CONSTANTS
    n1 = n1
    n2 = n2
    Node <- MCNode
    SvcType <- MCSvcType
    Inst <- MCInst
    DefaultTTL = 3
    Self <- MCSelf
    Peer <- MCPeer
    ActorInsts <- MCInst
    ActorKind <- MCActorKind
    CreatorOrder <- MCCreatorOrder
    ReqNo <- MCReqNo
    SlotId = 3
    SlotWidth = 8
    ArgWidth = 10
SPECIFICATION Spec
INVARIANT TypeOK
CHECK_DEADLOCK FALSE
