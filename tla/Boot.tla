-------------------------------- MODULE Boot --------------------------------
(***************************************************************************)
(* lowlevel_init of src/boot/main.c from reset to the NAND chip: watchdog, *)
(* timer, clocks, pins, DDR memory, memory controller, power chip, the     *)
(* clocks again at their final rates, and the NAND's ports.  The processor *)
(* executes the statements of modules Clock and Peripherals one by one and *)
(* drives the power chip of module Tps65910; beside it the hardware locks  *)
(* and releases PLLs, starts modules, calibrates and answers.              *)
(*                                                                         *)
(* The hardware is external.  What the registers hold at first is what a   *)
(* cold or a warm reset leaves: everything off, or everything running.     *)
(***************************************************************************)
EXTENDS Peripherals, Tps65910

CONSTANT Boards    \* the chips booted: revision, fuse, cold or warm reset

(* The fuse codes of the rated frequencies. *)
AM335X_ZCZ == [f300 |-> \h1FEF, f600 |-> \h1FAF, f720 |-> \h1F2F,
               f800 |-> \h1E2F, f1000 |-> \h1C2F]
AM335X_ZCE == [f300 |-> \h1FDF, f600 |-> \h1F9F]

ASSUME BoardAssumption ==
    Boards \subseteq [rev : 0 .. 15, fuse : 0 .. \h1FFF, warm : BOOLEAN]

VARIABLES
    board,     \* fixed: the chip booted
    at,        \* the statement the processor is at
    tmp,       \* the local of do_setup_dpll
    mpu_m,     \* dpll_mpu_opp100.m
    port,      \* the chip select the NAND's ports are at, or -1
    mmio,      \* the registers
    locked,    \* hardware: the PLLs that are locked
    rate,      \* hardware: the multiplier and divider a PLL was locked with
    ready,     \* hardware: the modules that are functional
    vtp,       \* hardware: the calibration of the DDR pads
    posting    \* hardware: the watchdog has a write to take

software == <<board, at, tmp, mpu_m, port>>
hardware == <<mmio, locked, rate, ready, vtp, posting>>
vars == <<i2cvars, tpsvars, software, hardware>>

-----------------------------------------------------------------------------
(* What the chip is *)

MPUPLL_M == {300, 600, 720, 800, 1000}

get_efuse_mpu_max_freq(b) ==
    CASE b.rev = 1 -> 800
      [] b.rev >= 2 /\ b.fuse = AM335X_ZCZ.f1000 -> 1000
      [] b.rev >= 2 /\ b.fuse = AM335X_ZCZ.f800 -> 800
      [] b.rev >= 2 /\ b.fuse = AM335X_ZCZ.f720 -> 720
      [] b.rev >= 2 /\ b.fuse \in {AM335X_ZCZ.f600, AM335X_ZCE.f600} -> 600
      [] b.rev >= 2 /\ b.fuse \in {AM335X_ZCZ.f300, AM335X_ZCE.f300} -> 300
      [] OTHER -> 720

get_tps65910_mpu_vdd(b, freq) ==
    CASE b.rev >= 2 /\ freq = 1000 -> "1_3_2_5"
      [] b.rev >= 2 /\ freq = 800 -> "1_2_6"
      [] b.rev >= 2 /\ freq = 720 -> "1_2_0"
      [] OTHER -> "1_1_3"

-----------------------------------------------------------------------------
(* The program *)

Fused == -1   \* stands for the field get_efuse_mpu_max_freq is stored in

dpll_mpu_opp100 == dpll_params(Fused, <<1, -1, -1, -1, -1>>)
dpll_core_opp100 == dpll_params(1000, <<-1, -1, 10, 8, 4>>)

voltage_update ==
    <<[do |-> "efuse"], [do |-> "voltages"]>>
      \o do_setup_dpll("core", dpll_core_opp100)
      \o do_setup_dpll("mpu", dpll_mpu_opp100)

(* The part of omap_nand_init before it calls nand_init: the search for    *)
(* the chip select of a NAND, write protection off, eight bits wide.       *)
GPMC_CONFIG == GPMC_BASE + \h50
WIDE == 2 ^ 12
omap_nand_init ==
    <<[do |-> "select"]>> \o SetBits(GPMC_CONFIG, 16) \o <<[do |-> "width"]>>

(* A slip: the memory is set up before the clocks. *)
lowlevel_initSlip ==
    watchdog_disable \o timer_init
      \o config_ddr(\h18B, ddr3_evm_data, ddr3_evm_cmd_ctrl_data,
                    ddr3_evm_emif_reg_data)
      \o prcm_init \o board_pin_mux
      \o gpmc_init(0) \o omap_i2c_init(I2C0_BASE) \o voltage_update
      \o omap_nand_init

lowlevel_init ==
    watchdog_disable \o timer_init \o prcm_init \o board_pin_mux
      \o config_ddr(\h18B, ddr3_evm_data, ddr3_evm_cmd_ctrl_data,
                    ddr3_evm_emif_reg_data)
      \o gpmc_init(0) \o omap_i2c_init(I2C0_BASE) \o voltage_update
      \o omap_nand_init

Touching == {k \in DOMAIN lowlevel_init : "reg" \in DOMAIN lowlevel_init[k]}
Addresses == {lowlevel_init[k].reg : k \in Touching}
               \cup {gpmc_cs(cs) : cs \in 0 .. GPMC_MAX_CS - 1}
Modules == {mods[k] : k \in DOMAIN mods}

Now == lowlevel_init[at]
Running == at \in DOMAIN lowlevel_init

-----------------------------------------------------------------------------
(* The hardware *)

ClkmodeOf(d) == mmio[dpll_regs[d].clkmode] % CM_CLKMODE_DPLL_EN
ClkselOf(d) == mmio[dpll_regs[d].clksel]

PllLocks(d) ==
    /\ ClkmodeOf(d) = DPLL_EN_LOCK /\ d \notin locked
    /\ locked' = locked \cup {d}
    /\ rate' = [rate EXCEPT ![d] = <<MultiplierOf(ClkselOf(d)), DividerOf(ClkselOf(d))>>]
    /\ UNCHANGED <<i2cvars, tpsvars, software, mmio, ready, vtp, posting>>

PllBypasses(d) ==
    /\ ClkmodeOf(d) = DPLL_EN_MN_BYPASS /\ d \in locked
    /\ locked' = locked \ {d}
    /\ UNCHANGED <<i2cvars, tpsvars, software, mmio, rate, ready, vtp, posting>>

ModuleStarts(a) ==
    /\ mmio[a] % MODULE_CLKCTRL_MODULEMODE = SW_EXPLICIT_EN /\ a \notin ready
    /\ ready' = ready \cup {a}
    /\ UNCHANGED <<i2cvars, tpsvars, software, mmio, locked, rate, vtp, posting>>

VtpCalibrates ==
    /\ vtp = "running" /\ vtp' = "ready"
    /\ UNCHANGED <<i2cvars, tpsvars, software, mmio, locked, rate, ready, posting>>

WatchdogPosts ==
    /\ posting /\ posting' = FALSE
    /\ UNCHANGED <<i2cvars, tpsvars, software, mmio, locked, rate, ready, vtp>>

Silicon == \/ \E d \in Dplls : PllLocks(d) \/ PllBypasses(d)
           \/ \E a \in Modules : ModuleStarts(a)
           \/ VtpCalibrates \/ WatchdogPosts

(* What the hardware does at once when a register takes a value: a module  *)
(* that is switched off stops, the calibration starts with its start bit,  *)
(* a write to the watchdog is posted.                                      *)
Takes(a, v) ==
    /\ mmio' = [mmio EXCEPT ![a] = v]
    /\ ready' = IF a \in Modules /\ v % MODULE_CLKCTRL_MODULEMODE # SW_EXPLICIT_EN
                THEN ready \ {a} ELSE ready
    /\ vtp' = CASE a = VTP0_CTRL_ADDR /\ v % 2 = 0 -> "off"
                [] a = VTP0_CTRL_ADDR /\ v % 2 = 1 /\ vtp = "off" -> "running"
                [] OTHER -> vtp
    /\ posting' = (posting \/ a = WDTREG_WSPR)
    /\ UNCHANGED <<locked, rate>>

-----------------------------------------------------------------------------
(* The processor *)

Goes == at' = at + 1 /\ UNCHANGED <<board, port, i2cvars, tpsvars>>

WriteRegister ==
    /\ Running /\ Now.do = "write"
    /\ Takes(Now.reg, Now.val)
    /\ Goes /\ UNCHANGED <<tmp, mpu_m>>

EditField ==
    /\ Running /\ Now.do = "field"
    /\ Takes(Now.reg, mmio[Now.reg] - (mmio[Now.reg] % Now.size) + Now.val)
    /\ Goes /\ UNCHANGED <<tmp, mpu_m>>

IsSet(a, bit) == (mmio[a] \div bit) % 2 = 1

EditBit ==
    /\ Running
    /\ \/ /\ Now.do = "set"
          /\ Takes(Now.reg, IF IsSet(Now.reg, Now.bit) THEN mmio[Now.reg]
                            ELSE mmio[Now.reg] + Now.bit)
       \/ /\ Now.do = "clear"
          /\ Takes(Now.reg, IF IsSet(Now.reg, Now.bit) THEN mmio[Now.reg] - Now.bit
                            ELSE mmio[Now.reg])
    /\ Goes /\ UNCHANGED <<tmp, mpu_m>>

ReadMultiplier ==
    /\ Running /\ Now.do = "read"
    /\ tmp' = mmio[Now.reg]
    /\ Goes /\ UNCHANGED <<mpu_m, hardware>>

WriteMultiplier ==
    /\ Running /\ Now.do = "clksel"
    /\ Takes(Now.reg, Clksel(tmp, IF Now.m = Fused THEN mpu_m ELSE Now.m, Now.n))
    /\ Goes /\ UNCHANGED <<tmp, mpu_m>>

SpinEnds ==
    /\ Running /\ Now.do = "spin"
    /\ CASE Now.what = "locked" -> Now.on \in locked
         [] Now.what = "bypassed" -> Now.on \notin locked
         [] Now.what = "module" -> Now.on \in ready
         [] Now.what = "vtp" -> vtp = "ready"
         [] Now.what = "watchdog" -> ~posting
    /\ Goes /\ UNCHANGED <<tmp, mpu_m, hardware>>

GetFrequency ==
    /\ Running /\ Now.do = "efuse"
    /\ mpu_m' = get_efuse_mpu_max_freq(board)
    /\ Goes /\ UNCHANGED <<tmp, hardware>>

UpdateVoltages ==
    /\ Running /\ Now.do = "voltages"
    /\ StartUpdate(get_tps65910_mpu_vdd(board, mpu_m))
    /\ UNCHANGED <<software, hardware>>

VoltagesDone ==
    /\ Running /\ Now.do = "voltages" /\ Updated
    /\ Goes /\ UNCHANGED <<tmp, mpu_m, hardware>>

(* The chip selects of the device type of a NAND.  Without one             *)
(* omap_nand_init returns -1, and lowlevel_init goes on to load.           *)
Nands == {cs \in 0 .. GPMC_MAX_CS - 1 : (mmio[gpmc_cs(cs)] \div 2 ^ 10) % 4 = 2}

SelectChip ==
    /\ Running /\ Now.do = "select"
    /\ port' = IF Nands = {} THEN -1 ELSE CHOOSE cs \in Nands : \A other \in Nands : cs <= other
    /\ at' = IF Nands = {} THEN Len(lowlevel_init) + 1 ELSE at + 1
    /\ UNCHANGED <<board, tmp, mpu_m, hardware, i2cvars, tpsvars>>

EightBits ==
    /\ Running /\ Now.do = "width"
    /\ Takes(gpmc_cs(port), IF IsSet(gpmc_cs(port), WIDE) THEN mmio[gpmc_cs(port)] - WIDE
                            ELSE mmio[gpmc_cs(port)])
    /\ Goes /\ UNCHANGED <<tmp, mpu_m>>

Processor ==
    \/ WriteRegister \/ EditField \/ EditBit \/ ReadMultiplier \/ WriteMultiplier
    \/ SpinEnds \/ GetFrequency \/ UpdateVoltages \/ VoltagesDone
    \/ SelectChip \/ EightBits
    \/ (Driver /\ UNCHANGED <<software, hardware>>)

I2cBus == Wire /\ UNCHANGED <<software, hardware>>

(* nand_init is called: modules NandBus and NandLoad go on from here. *)
AtLoader == at = Len(lowlevel_init) + 1

Next == Processor \/ Silicon \/ I2cBus

(* A multiplier some earlier boot may have left. *)
WarmClksel == 600 * 256 + 23

FirstValue(a, warm) ==
    LET pll(f) == {dpll_regs[d][f] : d \in Dplls} IN
    CASE a \in pll("clkmode") -> IF warm THEN DPLL_EN_LOCK ELSE DPLL_EN_MN_BYPASS
      [] a \in pll("clksel") -> IF warm THEN WarmClksel ELSE 0
      [] a \in Modules -> IF warm THEN SW_EXPLICIT_EN ELSE 0
      [] a = VTP0_CTRL_ADDR -> IF warm THEN VTP_CTRL_ENABLE + VTP_CTRL_START_EN ELSE 0
      [] a \in {gpmc_cs(cs) : cs \in 0 .. GPMC_MAX_CS - 1} -> IF warm THEN \h1800 ELSE 0
      [] OTHER -> 0

Init ==
    /\ TpsInit
    /\ board \in Boards
    /\ at = 1 /\ tmp = 0 /\ mpu_m = 550 /\ port = -1
    /\ mmio = [a \in Addresses |-> FirstValue(a, board.warm)]
    /\ locked = IF board.warm THEN Dplls ELSE {}
    /\ rate = [d \in Dplls |-> IF board.warm THEN <<600, 23>> ELSE <<0, 0>>]
    /\ ready = IF board.warm THEN Modules ELSE {}
    /\ vtp = IF board.warm THEN "ready" ELSE "off"
    /\ posting = FALSE

(* The processor runs; a PLL locks, a module starts and a calibration ends *)
(* when they were asked to; the I2C controller moves what is on its bus.   *)
Spec == /\ Init /\ [][Next]_vars
        /\ WF_vars(Processor)
        /\ WF_vars(Silicon)
        /\ WF_vars(Bus /\ UNCHANGED <<tpsvars, software, hardware>>)

-----------------------------------------------------------------------------
(* Properties *)

TypeOK ==
    /\ TpsTypeOK
    /\ at \in 1 .. Len(lowlevel_init) + 1
    /\ mpu_m \in MPUPLL_M \cup {550}
    /\ port \in -1 .. GPMC_MAX_CS - 1
    /\ DOMAIN mmio = Addresses /\ \A a \in Addresses : mmio[a] \in Nat
    /\ locked \subseteq Dplls /\ ready \subseteq Modules
    /\ \A d \in Dplls : rate[d][1] \in 0 .. 2047 /\ rate[d][2] \in 0 .. 127
    /\ vtp \in {"off", "running", "ready"} /\ posting \in BOOLEAN

(* No multiplier and no divider changes under a PLL that is locked: the    *)
(* bypass is complete before do_setup_dpll goes on, at every rate change   *)
(* and from any state a reset leaves the PLLs in.                          *)
DpllsSafe ==
    [][\A d \in Dplls : d \in locked =>
          /\ ClkselOf(d)' = ClkselOf(d)
          /\ \A k \in 1 .. 5 : dpll_regs[d].div[k] # NULL /\ dpll_regs[d].div[k] \in Addresses =>
                mmio'[dpll_regs[d].div[k]] = mmio[dpll_regs[d].div[k]]]_vars

(* The module whose clock a block of registers needs. *)
Block == [p \in {CMPER.GPMCCLKCTRL, CMPER.EMIFCLKCTRL, CMWKUP.WKUP_I2C0CTRL} |->
             CASE p = CMPER.GPMCCLKCTRL -> GPMC_BASE .. GPMC_BASE + \hFFF
               [] p = CMPER.EMIFCLKCTRL -> EMIF4_0_CFG_BASE .. EMIF4_0_CFG_BASE + \hFFF
               [] OTHER -> I2C0_BASE .. I2C0_BASE + \hFFF]

(* No register of the memory controllers or the I2C port is written, and   *)
(* no transfer runs, before the module is functional; the memory is set up *)
(* behind a locked PLL and calibrated pads.                                *)
ClockedBeforeUse ==
    /\ Running /\ Now.do \in {"write", "field", "set", "clear", "clksel"} =>
          \A p \in DOMAIN Block : Now.reg \in Block[p] =>
              /\ p \in ready
              /\ p = CMPER.EMIFCLKCTRL => "ddr" \in locked /\ vtp = "ready"
    /\ pc # "idle" => CMWKUP.WKUP_I2C0CTRL \in ready

(* The multiplier a PLL is asked for last. *)
Multiplier(d) == CASE d = "mpu" -> get_efuse_mpu_max_freq(board) [] d = "core" -> 1000
                   [] d = "per" -> 960 [] d = "ddr" -> 303

(* The clock of the I2C bus, divided from the 48 MHz of its port. *)
HundredKHz == 48000000 = 100000 * (mmio[I2C0_BASE + \hB0] + 1)
                         * (mmio[I2C0_BASE + \hB4] + 7 + mmio[I2C0_BASE + \hB8] + 5)

(* When the NAND driver is called, every PLL is locked at the rate asked   *)
(* for last, the MPU's at what the fuse says; every module enabled still   *)
(* runs except the clock of the RTC, which the pad stores switch off; the  *)
(* chip select found, also after a warm reset that left others open, is    *)
(* the one opened at the NAND's address, with all its timings, eight bits  *)
(* wide and not write protected; and the I2C port runs at 100 kHz.         *)
ReadyToLoad ==
    AtLoader =>
        /\ locked = Dplls
        /\ \A d \in Dplls : rate[d] = <<Multiplier(d), OSC - 1>>
        /\ ready = Modules \ {CMRTC.RTCCLKCTRL}
        /\ port = 0 /\ ~IsSet(gpmc_cs(port), WIDE) /\ IsSet(GPMC_CONFIG, 16)
        /\ mmio[gpmc_cs(port) + \h18] = 64 + SYS_NAND_BASE \div 2 ^ 24
        /\ \A k \in 1 .. 6 : mmio[gpmc_cs(port) + 4 * (k - 1)] = M_NAND_GPMC_CONFIG[k]
        /\ HundredKHz

(* The boot gets to the NAND driver from a cold and from a warm reset,     *)
(* with a power chip that answers and with one that refuses its bytes.     *)
ReachesLoader == <>AtLoader
=============================================================================
