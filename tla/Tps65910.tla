------------------------------ MODULE Tps65910 ------------------------------
(***************************************************************************)
(* The power chip driver of src/boot/tps65910.c, as voltage_update in      *)
(* src/boot/main.c uses it: hand the voltage registers to the I2C port,    *)
(* set the MPU voltage, set the core voltage.  Every change is a read, an  *)
(* edit and a write of one register over the adapter of module I2c, whose  *)
(* result is not looked at.                                                *)
(*                                                                         *)
(* A register is a byte of one control bit and a voltage field: Flag       *)
(* stands for the bit (0x80 of the voltage registers, 0x10 of the device   *)
(* control register), the voltages are the bytes below it.                 *)
(***************************************************************************)
EXTENDS I2c

CONSTANTS
    Flag,         \* the control bit; the field is below it
    Devctrl, Vdd1, Vdd2,   \* the registers
    OpSel,        \* TPS65910_OP_REG_SEL_x, the field for a voltage
    Leftovers     \* what the buffer of a read may hold before it

ASSUME TpsAssumption ==
    /\ Flag \in Nat \ {0}
    /\ Bytes = 0 .. 2 * Flag - 1
    /\ Regs = {Devctrl, Vdd1, Vdd2}
    /\ OpSel \in [{"1_1_3", "1_2_0", "1_2_6", "1_3_2_5"} -> 0 .. Flag - 1]
    /\ Leftovers # {} /\ Leftovers \subseteq Bytes

VARIABLES
    mpu_vdd,   \* the MPU voltage asked for
    step,      \* the register access the driver is at, 0 before the first
    val        \* its local val

tpsvars == <<mpu_vdd, step, val>>

SetFlag(v) == IF v >= Flag THEN v ELSE v + Flag
ClearFlag(v) == v % Flag
(* A slip: the field is not cleared first. *)
KeepFlagSlip(v) == v

KeepFlag(v) == v - (v % Flag)

(* The register accesses of voltage_update, in order, with the edit made   *)
(* between a read and the write after it.                                  *)
Change(r, edit) == [reg |-> r, edit |-> edit]

voltage_select(r) == Change(r, [v \in Bytes |-> ClearFlag(v)])
voltage_configure(r, sel) == Change(r, [v \in Bytes |-> KeepFlag(v) + sel])

Changes ==
    <<Change(Devctrl, [v \in Bytes |-> SetFlag(v)]),  \* tps65910_set_i2c_control
      voltage_select(Vdd1), voltage_configure(Vdd1, OpSel[mpu_vdd]),   \* MPU
      voltage_select(Vdd2), voltage_configure(Vdd2, OpSel["1_1_3"])>>  \* CORE

(* voltage_update gets to the power chip. *)
StartUpdate(vdd) ==
    /\ step = 0
    /\ step' = 1
    /\ mpu_vdd' = vdd
    /\ UNCHANGED <<val, i2cvars>>

AtChange == step \in 1 .. Len(Changes)

(* The buffer of __inb is a local that is not set. *)
Inb ==
    /\ AtChange /\ val = <<>>
    /\ \E b \in Leftovers : BeginTransfer(<<Write(<<Changes[step].reg>>), Read(b)>>)
    /\ UNCHANGED tpsvars

InbReturns ==
    /\ AtChange /\ pc = "return" /\ val = <<>>
    /\ pc' = "idle"
    /\ val' = <<Changes[step].edit[msgs[2].buf[1]]>>
    /\ UNCHANGED <<mpu_vdd, step, env, msgs, msg, idx, timeout, tries, rval, flagRD,
                   ctrl, slave>>

Outb ==
    /\ AtChange /\ val # <<>>
    /\ BeginTransfer(<<Write(<<Changes[step].reg, val[1]>>)>>)
    /\ UNCHANGED tpsvars

OutbReturns ==
    /\ AtChange /\ pc = "return" /\ val # <<>>
    /\ pc' = "idle"
    /\ step' = step + 1
    /\ val' = <<>>
    /\ UNCHANGED <<mpu_vdd, env, msgs, msg, idx, timeout, tries, rval, flagRD,
                   ctrl, slave>>

(* The driver, the adapter under it, and the bus. *)
Driver == Inb \/ InbReturns \/ Outb \/ OutbReturns \/ (Cpu /\ UNCHANGED tpsvars)
Wire == (Bus \/ Refuse \/ LoseBus) /\ UNCHANGED tpsvars

TpsInit == I2cInit /\ mpu_vdd = "1_1_3" /\ step = 0 /\ val = <<>>

Updated == step > Len(Changes)

-----------------------------------------------------------------------------
(* Properties *)

TpsTypeOK ==
    /\ mpu_vdd \in DOMAIN OpSel
    /\ step \in 0 .. Len(Changes) + 1
    /\ val \in {<<>>} \cup {<<b>> : b \in Bytes}
    /\ regs \in [Regs -> Bytes]

(* "first update mpu voltage", "update the core voltage": when the update  *)
(* is over the voltages are the ones asked for.  It does not hold, even on *)
(* a bus without faults: priv->flags is left as the first read set it.     *)
VoltagesSet ==
    Updated => regs[Vdd1] = OpSel[mpu_vdd] /\ regs[Vdd2] = OpSel["1_1_3"]
=============================================================================
