---------------------------- MODULE RegfilePair -----------------------------
(***************************************************************************)
(* The two register files of the repository side by side on the same       *)
(* ports: lab_jb_hsmith/regfile.sv (Regfile.tla) and the course skeleton's *)
(* lab_jb/rtl/regfile32x32.sv, which has no reset, keeps whatever is       *)
(* written to register 0 and hides it in the read ports.  The project may  *)
(* be built with either, so they should not be told apart.  In one case    *)
(* they are: a write that is pending when the clock ticks under reset is   *)
(* dropped by the first and done by the second.                            *)
(***************************************************************************)
EXTENDS Regfile

VARIABLES
    mem32x32,           \* the storage of the skeleton's register file
    dropped             \* auxiliary: registers whose last write only one of them did

pairVars == <<vars, mem32x32, dropped>>

-----------------------------------------------------------------------------
Read32x32BypassFirst(readaddr) ==   \* mutant: the bypass outranks register 0
    IF readaddr = writeaddr /\ we = 1 THEN writedata
    ELSE IF readaddr = 0 THEN 0
    ELSE mem32x32[readaddr]

Read32x32(readaddr) ==
    IF readaddr = 0                        THEN 0
    ELSE IF readaddr = writeaddr /\ we = 1 THEN writedata
    ELSE mem32x32[readaddr]

Edge32x32 ==
    IF we = 1 THEN [mem32x32 EXCEPT ![writeaddr] = writedata] ELSE mem32x32

(* The same contents at power-up, seen by the same reset. *)
PairInit ==
    /\ Init
    /\ mem32x32 = mem
    /\ dropped = {}

PairClockEdge ==
    /\ ClockEdge
    /\ mem32x32' = Edge32x32
    /\ dropped' = IF we = 0 \/ writeaddr = 0 THEN dropped
                  ELSE IF rst = 1 THEN dropped \cup {writeaddr}
                  ELSE dropped \ {writeaddr}

PairResetEdge == ResetEdge /\ UNCHANGED <<mem32x32, dropped>>

PairResetRelease == ResetRelease /\ UNCHANGED <<mem32x32, dropped>>

PairNext == PairClockEdge \/ PairResetEdge \/ PairResetRelease

PairSpec == PairInit /\ [][PairNext]_pairVars

-----------------------------------------------------------------------------
(* Once reset, the two register files answer every read of a register     *)
(* without a dropped write alike, for ever, although what they store under *)
(* register 0 may differ.                                                  *)
Interchangeable ==
    [](rst = 1 => [](\A r \in Reg \ dropped : Read(r) = Read32x32(r)))
=============================================================================
