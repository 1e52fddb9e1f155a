------------------------------ MODULE Regfile -------------------------------
(***************************************************************************)
(* The register file of the processor (lab_jb_hsmith/regfile.sv): one      *)
(* write port that takes effect on the rising clock edge, two read ports   *)
(* that are combinational and see the value still waiting at the write     *)
(* port (write bypass), and an asynchronous reset that clears register 0   *)
(* and nothing else.                                                       *)
(*                                                                         *)
(* The ports are variables, so that the module can be run on its own with  *)
(* every sequence of port values (Next) and can be instantiated by the     *)
(* processor with its pipeline registers wired to the ports.               *)
(***************************************************************************)
EXTENDS Integers

CONSTANTS
    Reg,                \* register addresses
    Word                \* register contents

ASSUME RegAssumption == 0 \in Reg
ASSUME WordAssumption == 0 \in Word

VARIABLES
    mem,                \* the storage
    rst,                \* reset input
    we,                 \* write enable input
    writeaddr,          \* write address input
    writedata           \* write data input

ports == <<rst, we, writeaddr, writedata>>
vars == <<mem, rst, we, writeaddr, writedata>>

-----------------------------------------------------------------------------
ReadNoBypass(readaddr) ==           \* mutant: the storage only
    IF we = 1 /\ readaddr = 0 THEN 0 ELSE mem[readaddr]

(* A read port: what readdata is while readaddr is presented.              *)
Read(readaddr) ==
    IF we = 1 /\ readaddr = 0              THEN 0
    ELSE IF we = 1 /\ readaddr = writeaddr THEN writedata
    ELSE mem[readaddr]

EdgeWritesZero ==                   \* mutant: no special case for register 0
    IF rst = 1     THEN [mem EXCEPT ![0] = 0]
    ELSE IF we = 1 THEN [mem EXCEPT ![writeaddr] = writedata]
    ELSE mem

(* What the storage holds after a rising edge of clk or rst.               *)
Edge ==
    IF rst = 1                          THEN [mem EXCEPT ![0] = 0]
    ELSE IF we = 1 /\ writeaddr = 0     THEN [mem EXCEPT ![0] = 0]
    ELSE IF we = 1                      THEN [mem EXCEPT ![writeaddr] = writedata]
    ELSE mem

-----------------------------------------------------------------------------
(* The component on its own: the storage powers up with any contents, and  *)
(* the surrounding logic presents any port values after each clock edge.   *)
Init ==
    /\ mem \in [Reg -> Word]
    /\ rst = 0
    /\ we = 0
    /\ writeaddr = 0
    /\ writedata = 0

ClockEdge ==
    /\ mem' = Edge
    /\ we' \in {0, 1}
    /\ writeaddr' \in Reg
    /\ writedata' \in Word
    /\ UNCHANGED rst

(* The rising edge of rst, between clock edges. *)
ResetEdge ==
    /\ rst = 0
    /\ rst' = 1
    /\ mem' = [mem EXCEPT ![0] = 0]
    /\ UNCHANGED <<we, writeaddr, writedata>>

ResetRelease ==
    /\ rst = 1
    /\ rst' = 0
    /\ UNCHANGED <<mem, we, writeaddr, writedata>>

Next == ClockEdge \/ ResetEdge \/ ResetRelease

Spec == Init /\ [][Next]_vars

-----------------------------------------------------------------------------
(* What a port shows is what the storage holds after the next edge,        *)
(* whether the value was there already or is still waiting at the write    *)
(* port: bypass and write agree.  Reset is the exception: it drops the     *)
(* waiting value, so that this register, and no other, keeps what it held  *)
(* while the port went on showing what was to be written.  Register 0 may  *)
(* hold anything until it has been cleared.                                *)
Pending(r) == we = 1 /\ r = writeaddr /\ r # 0

PortsAnticipateEdge ==
    [][\A r \in Reg : r # 0 \/ mem[0] = 0 =>
          mem'[r] = IF Pending(r) /\ 1 \in {rst, rst'} THEN mem[r] ELSE Read(r)]_vars

(* Register 0 reads as 0 for ever once a reset has been seen, whatever is  *)
(* written to it.                                                          *)
ZeroAfterReset == [](rst = 1 => [](Read(0) = 0))
=============================================================================
