---------------------------- MODULE MCParamStore ----------------------------
(***************************************************************************)
(* Dictionaries for TLC.  Three steps make one exactly representable       *)
(* value.  A period is a U32 with whole limits; a rate is an F32 whose     *)
(* lower limit rounds down, as 0.01 does, or up, as 0.1 does.              *)
(***************************************************************************)
EXTENDS ParamStore

P(t, lo, hi, d) == [type |-> t, min |-> lo, max |-> hi, default |-> d]

Flight  == <<P("U32", 3, 9, 6), P("F32", 1, 9, 3)>>
Tighter == <<P("U32", 6, 9, 6), P("F32", 2, 6, 3)>>
Longer  == Append(Flight, P("F32", 2, 6, 3))

Whole   == <<P("U32", 3, 9, 6), P("F32", 3, 6, 3)>>

AllBuilds  == {Flight, Tighter, Longer, Whole}
FlightOnly == {Flight}

MCNaN    == -1
MCInputs == {-1, 1, 5, 10}
=============================================================================
