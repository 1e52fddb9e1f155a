--------------------------- MODULE MCSqrtProgram ----------------------------
(* Words of twelve bits: four of them the fraction, three displays.        *)
EXTENDS SqrtProgram

(* Squares, their neighbours, the ends. *)
SomeInputs == {0, 1, 2, 3, 5, 8, 17, 35, 36, 37, 48, 50, 62, 63, 64}

(* Up to the square of the first step: what the search was made for.       *)
RootableInputs == 0 .. FirstStep * FirstStep

(* As far as the number itself is not negative in fixed point: the lower   *)
(* half of what the switches can be set to.                                *)
PositiveInputs == 0 .. 2 * FirstStep * FirstStep - 1
=============================================================================
