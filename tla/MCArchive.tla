----------------------------- MODULE MCArchive -----------------------------
(* Archives of Count records for TLC.                                      *)
EXTENDS Archive, FiniteSets

CONSTANTS Count, Sizes, MaxReplaced, MaxMerged, Packed, Origins, Rooms

MaxSize == Max(Sizes)

(* Runs of records with the same offset are laid out one after the other;  *)
(* shares says which records share the offset of the next, and room        *)
(* whether the header leaves place for a marker.                           *)
RecordsOf(stored, packed, shares, room) ==
  LET offset[h \in 1 .. Count] ==
        IF h = 1 THEN AlignSize(Count * RecordSize + HeaderSize + (IF room THEN MarkerSize ELSE 0))
        ELSE IF shares[h - 1] THEN offset[h - 1]
        ELSE AlignSize(offset[h - 1] + MaxSize + ZlibSize)
  IN [h \in 1 .. Count |-> [offset |-> offset[h], stored |-> stored[h] + (IF packed THEN ZlibSize ELSE 0),
                            unpacked |-> IF packed THEN stored[h] ELSE 0]]

AtMost(n, f, none) == Cardinality({h \in DOMAIN f : f[h] # none}) <= n

MCRecords ==
  {RecordsOf(stored, packed, shares, room) :
     stored \in [1 .. Count -> Sizes], packed \in Packed,
     shares \in [1 .. Count - 1 -> BOOLEAN], room \in Rooms}
MCSource == IF MaxReplaced = 0 THEN {[h \in 1 .. Count |-> Kept]}
            ELSE {f \in [1 .. Count -> {Kept} \cup Sizes] : AtMost(MaxReplaced, f, Kept)}
MCMerge == IF MaxMerged = 0 THEN {[h \in 1 .. Count |-> 0]}
           ELSE {f \in [1 .. Count -> 0 .. Count + 1] : AtMost(MaxMerged, f, 0)}

MCInputs == [records : MCRecords, source : MCSource, merge : MCMerge, origins : Origins]
=============================================================================
