---------------------------- MODULE MC_MaskWidth ----------------------------
(***************************************************************************)
(* The repair decision of uploadOrUpdateFile on allocations with more      *)
(* blobbers than the mask type has bits.  holders is the set of blobbers   *)
(* that hold the object; the list consensus reports it as a found mask of  *)
(* W bits, and the code compares it with uint32((1 << n) - 1).  The        *)
(* arithmetic does not depend on the width, so W = 4 with up to 6          *)
(* blobbers shows what W = 32 does with 33 or more.                        *)
(***************************************************************************)
EXTENDS QuorumMath

CONSTANT MaxBlobbers    \* largest len(a.Blobbers) enumerated

VARIABLES d, p, holders
vars == <<d, p, holders>>

Blobbers == 0 .. d + p - 1

Init == /\ d \in 1 .. MaxBlobbers
        /\ p \in 0 .. MaxBlobbers - d
        /\ holders \in SUBSET Blobbers

\* The object comes to be held by another set of the layout's blobbers.
Change == /\ holders' \in SUBSET Blobbers
          /\ UNCHANGED <<d, p>>

Spec == Init /\ [][Change]_vars

(***************************************************************************)
(* RepairFile answers "No repair required" (found == uploadMask, l. 303)   *)
(* only when every blobber of the allocation holds the object.  Section 3  *)
(* of the spec asks for a mask of at least D+P bits; uploadMask is a       *)
(* uint32, so blobbers past the 32nd are never compared nor repaired.      *)
(***************************************************************************)
NoRepairRequiredOnlyWhenComplete ==
    FoundMask(holders) = AllOnesMask(d + p) => holders = Blobbers

=============================================================================
