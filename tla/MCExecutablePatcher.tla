------------------------- MODULE MCExecutablePatcher -------------------------
(* Patches of two or three records for an executable of two segments.      *)
EXTENDS ExecutablePatcher

CONSTANTS Sizes

MCSegments == <<[memory |-> 10, size |-> 8, file |-> 2], [memory |-> 18, size |-> 6, file |-> 12]>>

(* One hole; two; one across the border of the segments.                   *)
MCSpaces == {
  <<[offset |-> 10, size |-> 6]>>,
  <<[offset |-> 10, size |-> 3], [offset |-> 14, size |-> 4]>>,
  <<[offset |-> 15, size |-> 5]>>}

Text(size, offsets) ==
  [kind |-> "string", inplace |-> FALSE, known |-> TRUE, size |-> size, limit |-> 0, offsets |-> offsets]

MCRecords(o) ==
  {Text(size, <<o>>) : size \in Sizes} \union
  {[Text(1, <<o>>) EXCEPT !.inplace = TRUE, !.limit = 1],
   [Text(2, <<o>>) EXCEPT !.inplace = TRUE],
   [Text(2, <<o>>) EXCEPT !.inplace = TRUE, !.limit = 1],
   [Text(2, <<o>>) EXCEPT !.known = FALSE],
   [Text(2, <<o>>) EXCEPT !.kind = "values"],
   Text(1, <<30>>)}

MCPatches ==
  [spaces : MCSpaces,
   records : {<<a, b>> : a \in MCRecords(20) \union {Text(2, <<20, 18>>)}, b \in MCRecords(22)} \union
             {<<Text(n, <<18>>), a, b>> : n \in Sizes, a \in MCRecords(20), b \in MCRecords(22)}]
=============================================================================
