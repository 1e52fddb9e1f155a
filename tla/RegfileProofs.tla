---------------------------- MODULE RegfileProofs ----------------------------
(***************************************************************************)
(* Theorems about the two register files, for any set of registers, any    *)
(* register contents and any sequence of port values and resets.           *)
(***************************************************************************)
EXTENDS RegfilePair, TLAPS

(* Both storages and all ports hold values of their widths. *)
PortsOK ==
    /\ mem \in [Reg -> Word]
    /\ mem32x32 \in [Reg -> Word]
    /\ rst \in {0, 1}
    /\ we \in {0, 1}
    /\ writeaddr \in Reg
    /\ writedata \in Word

(* A pressed reset has cleared register 0, and apart from it and from the  *)
(* registers with a dropped write the two storages are the same.           *)
ResetHasCleared == rst = 1 => mem[0] = 0

SameStorage == \A r \in Reg \ (dropped \cup {0}) : mem[r] = mem32x32[r]

PairInv == PortsOK /\ ResetHasCleared /\ SameStorage

LEMMA PairInitInv == PairInit => PairInv
  BY RegAssumption, WordAssumption
     DEF PairInit, Init, PairInv, PortsOK, ResetHasCleared, SameStorage

LEMMA ClockEdgeInv ==
    ASSUME PairInv, PairClockEdge
    PROVE  PairInv'
<1> USE DEF PairInv, PairClockEdge
<1>1. PortsOK'
  BY RegAssumption, WordAssumption DEF PortsOK, ClockEdge, Edge, Edge32x32
<1>2. ResetHasCleared'
  BY RegAssumption DEF PortsOK, ResetHasCleared, ClockEdge, Edge
<1>3. SameStorage'
  <2> SUFFICES ASSUME NEW r \in Reg, r \notin dropped', r # 0
               PROVE  mem'[r] = mem32x32'[r]
    BY DEF SameStorage
  <2>1. CASE we = 1 /\ writeaddr = r
    BY <2>1 DEF PortsOK, ClockEdge, Edge, Edge32x32
  <2>2. CASE ~ (we = 1 /\ writeaddr = r)
    <3>1. r \notin dropped
      BY <2>2 DEF PortsOK
    <3>2. mem'[r] = mem[r] /\ mem32x32'[r] = mem32x32[r]
      BY <2>2 DEF PortsOK, ClockEdge, Edge, Edge32x32
    <3>3. QED
      BY <3>1, <3>2 DEF SameStorage
  <2>3. QED
    BY <2>1, <2>2
<1>4. QED
  BY <1>1, <1>2, <1>3

LEMMA ResetEdgeInv ==
    ASSUME PairInv, PairResetEdge
    PROVE  PairInv'
  BY RegAssumption, WordAssumption
     DEF PairInv, PortsOK, ResetHasCleared, SameStorage, PairResetEdge, ResetEdge

LEMMA PairStepInv == PairInv /\ [PairNext]_pairVars => PairInv'
<1> SUFFICES ASSUME PairInv, [PairNext]_pairVars
             PROVE  PairInv'
  OBVIOUS
<1>1. CASE PairResetRelease
  BY <1>1 DEF PairResetRelease, ResetRelease, PairInv, PortsOK, ResetHasCleared, SameStorage
<1>2. CASE UNCHANGED pairVars
  BY <1>2 DEF pairVars, vars, PairInv, PortsOK, ResetHasCleared, SameStorage
<1>3. QED
  BY <1>1, <1>2, ClockEdgeInv, ResetEdgeInv DEF PairNext

(* Once register 0 holds 0, it holds 0 for ever. *)
LEMMA ZeroStays ==
    PairInv /\ mem[0] = 0 /\ [PairNext]_pairVars => (mem[0] = 0)'
<1> SUFFICES ASSUME PairInv, mem[0] = 0, [PairNext]_pairVars
             PROVE  mem'[0] = 0
  OBVIOUS
<1>1. CASE PairClockEdge
  BY <1>1, RegAssumption DEF PairClockEdge, ClockEdge, Edge, PairInv, PortsOK
<1>2. CASE PairResetEdge
  BY <1>2, RegAssumption DEF PairResetEdge, ResetEdge, PairInv, PortsOK
<1>3. QED
  BY <1>1, <1>2 DEF PairNext, PairResetRelease, ResetRelease, pairVars, vars

(* Register 0 reads as 0 from the first reset on, although regfile.sv has  *)
(* no guard on the path from the storage to a read port.                   *)
THEOREM ZeroReadsZero == PairSpec => ZeroAfterReset
<1>1. PairInv /\ rst = 1 => mem[0] = 0
  BY DEF PairInv, ResetHasCleared
<1>2. mem[0] = 0 => Read(0) = 0
  BY DEF Read
<1>3. QED
  BY <1>1, <1>2, PairInitInv, PairStepInv, ZeroStays, PTL DEF PairSpec, ZeroAfterReset

(* The write bypass of regfile.sv shows, for every register, what the      *)
(* storage is going to hold after the edge; under reset the register with  *)
(* a write at the port keeps what it held, and the others are as shown.    *)
THEOREM BypassAnticipatesEdge == PairSpec => PortsAnticipateEdge
<1> DEFINE After(r) == IF Pending(r) /\ 1 \in {rst, rst'} THEN mem[r] ELSE Read(r)
<1>1. PairInv /\ [PairNext]_pairVars =>
        [\A r \in Reg : r # 0 \/ mem[0] = 0 => mem'[r] = After(r)]_vars
  <2> SUFFICES ASSUME PairInv, [PairNext]_pairVars, ~ UNCHANGED vars,
                      NEW r \in Reg, r # 0 \/ mem[0] = 0
               PROVE  mem'[r] = After(r)
    OBVIOUS
  <2>1. CASE PairClockEdge
    <3>1. mem' = Edge /\ rst' = rst
      BY <2>1 DEF PairClockEdge, ClockEdge
    <3>2. QED
      BY <3>1, RegAssumption DEF Edge, Read, Pending, PairInv, PortsOK
  <2>2. CASE PairResetEdge
    BY <2>2, RegAssumption
       DEF PairResetEdge, ResetEdge, Read, Pending, PairInv, PortsOK
  <2>3. CASE PairResetRelease
    BY <2>3, RegAssumption
       DEF PairResetRelease, ResetRelease, Read, Pending, PairInv, PortsOK
  <2>4. QED
    BY <2>1, <2>2, <2>3 DEF PairNext, pairVars
<1>2. QED
  BY <1>1, PairInitInv, PairStepInv, PTL DEF PairSpec, PortsAnticipateEdge

(* From the first reset on the two register files answer alike for every   *)
(* register, but for those whose last write came under reset: that write   *)
(* only regfile32x32.sv did.                                               *)
THEOREM RegfilesInterchangeable == PairSpec => Interchangeable
<1>1. PairInv /\ rst = 1 => mem[0] = 0
  BY DEF PairInv, ResetHasCleared
<1>2. PairInv /\ mem[0] = 0 => \A r \in Reg \ dropped : Read(r) = Read32x32(r)
  BY DEF PairInv, PortsOK, SameStorage, Read, Read32x32
<1>3. QED
  BY <1>1, <1>2, PairInitInv, PairStepInv, ZeroStays, PTL DEF PairSpec, Interchangeable
=============================================================================
