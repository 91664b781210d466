--------------------------- MODULE MC_QuorumMath ---------------------------
(***************************************************************************)
(* Enumerates every erasure layout d data + p parity shards within the     *)
(* bounds and every found mask over its d+p blobbers, and checks the       *)
(* repair arithmetic of uploadOrUpdateFile on each.                        *)
(***************************************************************************)
EXTENDS QuorumMath

CONSTANTS MaxData,      \* largest DataShards enumerated
          MaxParity     \* largest ParityShards enumerated

ASSUME MaxData + MaxParity <= W

VARIABLES d, p, found
vars == <<d, p, found>>

Init == /\ d \in 1 .. MaxData
        /\ p \in 0 .. MaxParity
        /\ found = 0

\* Step to the next found mask of the same layout, wrapping around.
NextMask == /\ found' = (found + 1) % 2^(d + p)
            /\ UNCHANGED <<d, p>>

Spec == Init /\ [][NextMask]_vars

TypeOK == /\ d \in 1 .. MaxData
          /\ p \in 0 .. MaxParity
          /\ found \in 0 .. AllOnesMask(d + p)

(***************************************************************************)
(* A repair never asks for less than the allocation's proportion: the     *)
(* fullconsensus that uploadOrUpdateFile shrinks by TrailingZeros32 (l.    *)
(* 309) stays at least the number of blobbers the repair targets, so a     *)
(* repair that reaches consensusThresh against it wrote to at least        *)
(* D/(D+P) of its targets.                                                 *)
(***************************************************************************)
RepairNeverLaxer ==
    RepairAccepted(found, d, p) =>
        RepairFullConsensus(found, d, p) >= OnesCount(RepairUploadMask(found, d, p))

(***************************************************************************)
(* A repair in which every targeted blobber acknowledges reaches          *)
(* consensus.  The spec (section 8) says fullconsensus shrinks to the      *)
(* number of blobbers still missing the object, which makes this hold; the *)
(* code subtracts TrailingZeros32 of the repair mask instead (l. 309).     *)
(***************************************************************************)
RepairAllAckedReachesConsensus ==
    RepairAccepted(found, d, p) =>
        MeetsThreshold(OnesCount(RepairUploadMask(found, d, p)),
                       RepairFullConsensus(found, d, p), d, p)

=============================================================================
