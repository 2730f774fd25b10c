---------------------------- MODULE MCRangeAlarms ----------------------------
(***************************************************************************)
(* Instances of RangeAlarms for TLC.  WordMod is below 2^32 because TLC's  *)
(* integers are.                                                           *)
(***************************************************************************)
EXTENDS RangeAlarms

Word == 2^24

\* Values within and beyond the limits and the two distances, and, at the end
\* of the range, small negative numbers and the first prevValue.
NearLimits ==
  [h \in Handlers |->
     0..h.top \cap
       ({0, h.max - 5, h.top - 20, h.top - 4, h.top}
        \cup {h.min - d : d \in {5, 11, 21}} \cup {h.max + d : d \in {0, 9, 11, 21}})]
=============================================================================
