---------------------------- MODULE SqrtProgram -----------------------------
(***************************************************************************)
(* The program the processor is shipped with (lab_jb_hsmith/sqrt.asm): it  *)
(* reads the switches, searches the square root in fixed point, converts   *)
(* it to decimal digits and writes those to the displays.  One action per  *)
(* basic block, on the registers the block leaves behind, with the word    *)
(* arithmetic of the instructions.                                         *)
(*                                                                         *)
(* The program does not end: behind its last instruction the memory holds  *)
(* nothing, and the PC runs through it and wraps around to address 0.      *)
(***************************************************************************)
EXTENDS Integers

CONSTANTS
    One,                \* 1.0 in fixed point: 2^14 in the code
    FirstStep,          \* the search starts with steps of 256
    Scale,              \* 100000: the displayed number has five decimals
    Tenth,              \* 429496730: 1/10 as a fraction of a word
    Digits,             \* 8, one for each display
    Inputs              \* what the switches can be set to

(* The shift amounts 14 and 18 and the 8 displays of 4 bits fit together:  *)
WordMod == 4 * FirstStep * FirstStep * One          \* 2^32

ASSUME SqrtAssumption ==
    /\ One \in Nat \ {0}
    /\ FirstStep \in Nat \ {0}
    /\ Scale \in Nat
    /\ Tenth \in Nat
    /\ Digits \in Nat
    /\ Inputs \subseteq 0 .. 4 * FirstStep * FirstStep - 1

(* The displays take 4 bits each, and there are no more than a word holds. *)
(* (Apart from that, all this says is what a power is, which the proofs    *)
(* need and the provers do not know.)                                      *)
ASSUME RadixAssumption ==
    /\ \A b \in {10, 16} :
          /\ b ^ 0 = 1
          /\ \A k \in 0 .. Digits : /\ b ^ k \in Nat \ {0}
                                    /\ b ^ (k + 1) = b * b ^ k
    /\ \A k \in 0 .. Digits : 16 ^ k <= WordMod

VARIABLES
    sw,                 \* the switches
    pc,                 \* the block to be executed next
    n,                  \* auxiliary: the number whose root is being taken
    t0,                 \* the number, later the digits
    t1,                 \* the guess, later what is left to convert
    t2,                 \* the step
    s0,                 \* the result, scaled
    digit,              \* how many digits have been converted
    out                 \* the register behind the displays

vars == <<sw, pc, n, t0, t1, t2, s0, digit, out>>

-----------------------------------------------------------------------------
Signed(word) == IF word >= WordMod \div 2 THEN word - WordMod ELSE word

mul(a, b) == (a * b) % WordMod
mulhu(a, b) == (a * b) \div WordMod
mulh(a, b) == ((Signed(a) * Signed(b)) \div WordMod) % WordMod

(* The product of two fixed point numbers as five instructions make it:    *)
(* the low half shifted right, the high half left, joined by an `or' of    *)
(* bits that do not overlap.                                               *)
FixedMul(a, b) ==
    (mul(a, b) \div One) + ((mulhu(a, b) * (WordMod \div One)) % WordMod)

-----------------------------------------------------------------------------
(* The registers hold whatever they held. *)
Init ==
    /\ sw \in Inputs
    /\ pc = "start"
    /\ n = 0
    /\ t0 = 0
    /\ t1 = 0
    /\ t2 = 0
    /\ s0 = 0
    /\ digit = 0
    /\ out = 0

(* csrrw t0, 0xf00; slli t0, 14; the first guess and the first step.       *)
Start ==
    /\ pc = "start"
    /\ n' = sw
    /\ t0' = (sw * One) % WordMod
    /\ t1' = 0
    /\ t2' = FirstStep * One
    /\ pc' = "loop"
    /\ UNCHANGED <<sw, s0, digit, out>>

(* The guess is squared and compared.  Each branch of this processor also  *)
(* leaves its link in a register: the first one in s0, which nothing has   *)
(* been put into yet, the other ones in a2, which is not used.             *)
Link == 12

Found == t0 = FixedMul(t1, t1)

Exact ==
    /\ pc = "loop"
    /\ Found
    /\ s0' = Link
    /\ pc' = "exit"
    /\ UNCHANGED <<sw, n, t0, t1, t2, digit, out>>

Move ==
    /\ pc = "loop"
    /\ ~ Found
    /\ s0' = Link
    /\ t1' = IF Signed(t0) < Signed(FixedMul(t1, t1)) THEN (t1 - t2) % WordMod
                                                      ELSE (t1 + t2) % WordMod
    /\ pc' = "half"
    /\ UNCHANGED <<sw, n, t0, t2, digit, out>>

HalveStopsEarly ==                  \* mutant: the loop leaves before a step of 1
    /\ pc = "half"
    /\ t2' = t2 \div 2
    /\ pc' = IF t2' <= 1 THEN "exit" ELSE "loop"
    /\ UNCHANGED <<sw, n, t0, t1, s0, digit, out>>

Halve ==
    /\ pc = "half"
    /\ t2' = t2 \div 2
    /\ pc' = IF t2' = 0 THEN "exit" ELSE "loop"
    /\ UNCHANGED <<sw, n, t0, t1, s0, digit, out>>

(* The result in units of the last decimal; the loop over the digits reads *)
(* it from s0 the first time and from t1 afterwards.                       *)
Exit ==
    /\ pc = "exit"
    /\ s0' = FixedMul(t1, Scale)
    /\ t0' = 0
    /\ t2' = Scale
    /\ digit' = 0
    /\ pc' = "digit"
    /\ UNCHANGED <<sw, n, t1, out>>

(* One of the eight copies of the conversion: the fraction of x/10 times   *)
(* 10 is the digit, and it is appended below the ones before it.           *)
ConvertSigned ==                    \* mutant: mulh for both halves
    /\ pc = "digit"
    /\ digit < Digits
    /\ LET x == IF digit = 0 THEN s0 ELSE t1
       IN /\ t2' = mulh(mul(x, Tenth), 10)
          /\ t1' = mulh(x, Tenth)
    /\ t0' = ((t0 * 16) % WordMod) + t2'
    /\ digit' = digit + 1
    /\ UNCHANGED <<sw, pc, n, s0, out>>

Convert ==
    /\ pc = "digit"
    /\ digit < Digits
    /\ LET x == IF digit = 0 THEN s0 ELSE t1
       IN /\ t2' = mulhu(mul(x, Tenth), 10)
          /\ t1' = mulh(x, Tenth)
    /\ t0' = ((t0 * 16) % WordMod) + t2'
    /\ digit' = digit + 1
    /\ UNCHANGED <<sw, pc, n, s0, out>>

(* csrrw zero, 0xf02, t0, and on through the empty memory to address 0.    *)
Show ==
    /\ pc = "digit"
    /\ digit = Digits
    /\ out' = t0
    /\ pc' = "start"
    /\ UNCHANGED <<sw, n, t0, t1, t2, s0, digit>>

Program == Start \/ Exact \/ Move \/ Halve \/ Exit \/ Convert \/ Show

MoveSwitches ==
    /\ sw' \in Inputs
    /\ UNCHANGED <<pc, n, t0, t1, t2, s0, digit, out>>

Next == Program \/ MoveSwitches

Spec == Init /\ [][Next]_vars

(* The clock runs on; nobody has to touch the switches. *)
FairSpec == Spec /\ WF_vars(Program)

-----------------------------------------------------------------------------
(* The displays (top.sv, hexdriver.sv).  The first digit converted, the    *)
(* last one of the number, ends up in the top four bits of the word, and   *)
(* the board wires these to HEX0, the rightmost display.                   *)
Nibble(word, k) == (word \div 16 ^ k) % 16

hexdriver ==                        \* active-low segments g f e d c b a
    << "1000000", "1111001", "0100100", "0110000", "0011001", "0010010",
       "0000010", "1111000", "0000000", "0011000", "0001000", "0000011",
       "1000110", "0100001", "0000110", "0001110" >>

HEXUnreversed(k) == hexdriver[Nibble(out, k) + 1]       \* mutant: HEX0 from bits 3..0

HEX(k) == hexdriver[Nibble(out, Digits - 1 - k) + 1]

(* The digit a person sees on display k, and whether the displays, read    *)
(* from HEX7 down to HEX0, show a number in decimal.                       *)
Seen(k) == CHOOSE d \in 0 .. 15 : hexdriver[d + 1] = HEX(k)

Showing(number) ==
    \A k \in 0 .. Digits - 1 : Seen(k) = (number \div 10 ^ k) % 10

-----------------------------------------------------------------------------
(* The root of m lies within one unit in the last place of the guess.      *)
RootWithin(guess, m) ==
    /\ (guess - 1) * (guess - 1) <= m * One * One \/ guess = 0
    /\ m * One * One <= (guess + 1) * (guess + 1)

(* The search always arrives: when the loop is left, by a hit or with the  *)
(* steps used up, the guess is next to the root.                           *)
SearchAccurate == pc = "exit" => RootWithin(t1, n)

(* The digits converted so far are those of the result, last one first,    *)
(* and what is left to convert is the rest of it.                          *)
DigitsExact ==
    pc = "digit" =>
        /\ digit > 0 => t1 = s0 \div 10 ^ digit
        /\ \A k \in 0 .. digit - 1 :
              Nibble(t0, digit - 1 - k) = (s0 \div 10 ^ k) % 10

RootShown(m) ==
    \E guess \in 0 .. FirstStep * One :
        RootWithin(guess, m) /\ Showing((guess * Scale) \div One)

(* Whoever leaves the switches alone sees the root of the number on them   *)
(* sooner or later, and nothing else from then on.                         *)
DisplayFollowsSwitches ==
    \A m \in Inputs : <>[](sw = m) => <>[]RootShown(m)

-----------------------------------------------------------------------------
(* What the assignment asks for.                                           *)

(* "a tolerance of 1/100000" (lab_jb/2021F_lab_jb/README.md:104-105): the  *)
(* result differs from the root by no more than one unit of its last       *)
(* decimal.                                                                *)
WithinTolerance ==
    pc = "digit" => /\ (s0 - 1) * (s0 - 1) <= n * Scale * Scale \/ s0 = 0
                    /\ n * Scale * Scale <= (s0 + 1) * (s0 + 1)
=============================================================================
