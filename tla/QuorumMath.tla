----------------------------- MODULE QuorumMath -----------------------------
(***************************************************************************)
(* The bitmask and quorum arithmetic of zboxcore/sdk/allocation.go.       *)
(* A mask is a non-negative integer of W bits (uint32 in the code, so      *)
(* W = 32 there); bit i stands for a.Blobbers[i].                          *)
(*                                                                         *)
(* The code compares percentages as float32:                               *)
(*   consensusThresh = float32(D)*100 / float32(D+P)            (l. 282)   *)
(*   ok iff float32(count*100) / fullconsensus >= consensusThresh          *)
(* Both sides are correctly rounded quotients of small integers; when the  *)
(* exact quotients are equal the roundings are equal, and when they differ *)
(* they differ by at least 100/(full*(D+P)), far more than one float32 ulp *)
(* near 100.  So the comparison is the exact rational one below.           *)
(***************************************************************************)
EXTENDS Integers
LOCAL INSTANCE Bitwise
LOCAL INSTANCE FiniteSetsExt

CONSTANT W          \* width in bits of the mask type

ASSUME W \in Nat \ {0}

\* Mutant of AllOnesMask: shifting by n-1, (1 << (n-1)) - 1.
AllOnesMaskShortShift(n) == ((IF n >= W THEN 0 ELSE 2^n) - 1) \div 2

\* uint32((1 << uint32(n)) - 1): a shift by at least the width gives 0, and
\* 0 - 1 wraps to all ones.
AllOnesMask(n) == ((IF n >= W THEN 0 ELSE 2^n) - 1) % 2^W

\* ^found & mask, with ^ the W-bit complement.
ComplementMask(found, mask) == ((2^W - 1) - found) & mask

\* bits.TrailingZeros32: index of the lowest set bit, W for 0.
RECURSIVE TrailingZerosFrom(_, _)
TrailingZerosFrom(x, i) ==
    IF i = W \/ (x \div 2^i) % 2 = 1 THEN i ELSE TrailingZerosFrom(x, i + 1)

TrailingZeros(x) == TrailingZerosFrom(x, 0)

\* Population count (bits.OnesCount32), used by the request code to count
\* the blobbers whose bit is set in a result mask.
RECURSIVE OnesCount(_)
OnesCount(x) == IF x = 0 THEN 0 ELSE (x % 2) + OnesCount(x \div 2)

\* The found mask of a list consensus over the blobbers in holders: bit i
\* is 1 << i in the W-bit mask type, which is 0 for i >= W.
FoundMask(holders) == MapThenSumSet(LAMBDA i : IF i < W THEN 2^i ELSE 0, holders)

\* Mutant of ConsensusThresh: the parity shards in the numerator.
ConsensusThreshParity(d, p) == <<p * 100, d + p>>

\* consensusThresh as the exact fraction <<numerator, denominator>>.
ConsensusThresh(d, p) == <<d * 100, d + p>>

\* MeetsThreshold with > for >=: a count exactly at the threshold fails.
MeetsThresholdStrict(count, full, d, p) ==
    LET t == ConsensusThresh(d, p)
    IN  count * 100 * t[2] > t[1] * full

\* float32(count*100)/full >= consensusThresh, as a rational comparison.
MeetsThreshold(count, full, d, p) ==
    LET t == ConsensusThresh(d, p)
    IN  count * 100 * t[2] >= t[1] * full

\* RepairFile (l. 291-311): the list consensus found an object held by the
\* blobbers of found (fileRef # nil) and not every blobber holds it.
RepairAccepted(found, d, p) ==
    /\ MeetsThreshold(OnesCount(found), d + p, d, p)
    /\ found # AllOnesMask(d + p)

\* uploadReq.uploadMask = (^found & uploadReq.uploadMask)   (l. 308)
RepairUploadMask(found, d, p) == ComplementMask(found, AllOnesMask(d + p))

\* Mutant of RepairFullConsensus: subtracting the popcount of the repair mask.
RepairFullConsensusMinusTargets(found, d, p) ==
    (d + p) - OnesCount(ComplementMask(found, AllOnesMask(d + p)))

\* uploadReq.fullconsensus - float32(bits.TrailingZeros32(uploadMask)) (l. 309)
RepairFullConsensus(found, d, p) ==
    (d + p) - TrailingZeros(RepairUploadMask(found, d, p))

=============================================================================
