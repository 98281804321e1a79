\* hamgrd started with a slot id above 255: DPU_SLOT_ID keeps its low 8 bits.
CONSTANTS
    n1 = n1
    n2 = n2
    Node <- MCNode
    SvcType <- MCSvcType
    Inst <- MCInst
    DefaultTTL = 3
    Self <- MCSelf
    Peer <- MCPeer
    ActorInsts <- MCInst
    ActorKind <- MCActorKind
    CreatorOrder <- MCCreatorOrder
    ReqNo <- MCReqNo
    SlotId = 259
    SlotWidth = 8
    ArgWidth = 10
SPECIFICATION Spec
INVARIANT SlotViewsAgree
CHECK_DEADLOCK FALSE
