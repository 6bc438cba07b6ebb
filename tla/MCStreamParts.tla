--------------------------- MODULE MCStreamParts ----------------------------
(***************************************************************************)
(* StreamParts for TLC: `read` works on the receiving part of the stream   *)
(* s1, the other calls on its sending part.                                *)
(***************************************************************************)
EXTENDS StreamParts

CONSTANTS s1, read

MCPartOf == [c \in Calls |-> IF c = read THEN Receiving(s1) ELSE Sending(s1)]
=============================================================================
