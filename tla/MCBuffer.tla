------------------------------- MODULE MCBuffer -------------------------------
(* Buffer with two pages of three usable slots and three functions: each page is *)
(* in the range of two functions and out of that of the third, on either side,   *)
(* and the second page straddles the upper end of the first function's range.    *)
EXTENDS Buffer

MCPages == {8, 12}
MCOrigins == {5, 17, 20}
==============================================================================
