------------------------------- MODULE MCHamgrd -------------------------------
(***************************************************************************)
(* hamgrd on node n1 with the four creators main starts, requests from an  *)
(* actor on n2 for a DPU actor, an HA-scope actor and an address of a type *)
(* no creator serves.                                                      *)
(***************************************************************************)
EXTENDS Hamgrd, TLC

CONSTANTS n1, n2

MCNode == {n1, n2}
MCSvcType == {"hamgrd"}
MCInst == {"dpu0", "scope0", "other0"}
MCSelf == [node |-> n1, svc |-> "hamgrd", inst |-> ""]
MCPeer == [node |-> n2, svc |-> "hamgrd", inst |-> "dpu0"]
MCActorKind == ("dpu0" :> "dpu") @@ ("scope0" :> "hascope") @@ ("other0" :> "other")
MCReqNo == ("dpu0" :> 1) @@ ("scope0" :> 2) @@ ("other0" :> 3)
MCCreatorOrder == <<"dpu", "vdpu", "haset", "hascope">>
=============================================================================
