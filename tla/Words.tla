------------------------------- MODULE Words --------------------------------
(***************************************************************************)
(* Instruction words, for the two that take them apart: the disassembler   *)
(* and the processor's decoder.  A word is a pair of half-words, since     *)
(* TLC's integers have 31 bits and a sign.                                 *)
(***************************************************************************)
EXTENDS Integers

HalfWord == 0 .. 65535
InstructionWord == [hi : HalfWord, lo : HalfWord]

(* Bits top..low of a word, as a number. *)
Field(w, top, low) ==
    IF low >= 16     THEN (w.hi \div 2 ^ (low - 16)) % 2 ^ (top - low + 1)
    ELSE IF top < 16 THEN (w.lo \div 2 ^ low) % 2 ^ (top - low + 1)
    ELSE (w.lo \div 2 ^ low) + (2 ^ (16 - low) * (w.hi % 2 ^ (top - 15)))
=============================================================================
