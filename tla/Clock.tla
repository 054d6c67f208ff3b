-------------------------------- MODULE Clock --------------------------------
(***************************************************************************)
(* The clock set-up of src/boot/clock.c as the statements it executes.  A  *)
(* statement is a store to a register, an edit of the low bits of one, a   *)
(* wait for the hardware, or one half of the edit of a multiplier, which   *)
(* the code splits: it reads the register before it puts the PLL into      *)
(* bypass and writes it after.  Module Boot executes them.                 *)
(***************************************************************************)
EXTENDS Registers

writel(v, a) == <<[do |-> "write", reg |-> a, val |-> v]>>

(* clrsetbits of the bits below size. *)
clrsetbits(a, size, v) == <<[do |-> "field", reg |-> a, size |-> size, val |-> v]>>

(* A loop that reads until the hardware gives the answer. *)
Spin(what, on) == <<[do |-> "spin", what |-> what, on |-> on]>>

NULL == 0
OSC == 24

-----------------------------------------------------------------------------
(* The PLLs *)

dpll_regs ==
    [mpu  |-> [clkmode |-> CM_WKUP + \h88, clksel |-> CM_WKUP + \h2C,
               div |-> <<CM_WKUP + \hA8, NULL, NULL, NULL, NULL>>],
     core |-> [clkmode |-> CM_WKUP + \h90, clksel |-> CM_WKUP + \h68,
               div |-> <<NULL, NULL, CM_WKUP + \h80, CM_WKUP + \h84, CM_WKUP + \hD8>>],
     per  |-> [clkmode |-> CM_WKUP + \h8C, clksel |-> CM_WKUP + \h9C,
               div |-> <<CM_WKUP + \hAC, NULL, NULL, NULL, NULL>>],
     ddr  |-> [clkmode |-> CM_WKUP + \h94, clksel |-> CM_WKUP + \h40,
               div |-> <<NULL, NULL, CM_WKUP + \hA0, NULL, NULL>>]]

Dplls == DOMAIN dpll_regs

dpll_params(m, m2) == [m |-> m, n |-> OSC - 1, m2 |-> m2]
dpll_mpu == dpll_params(300, <<1, -1, -1, -1, -1>>)
dpll_core == dpll_params(50, <<-1, -1, 1, 1, 1>>)
dpll_per == dpll_params(960, <<5, -1, -1, -1, -1>>)
dpll_ddr_evm_sk == dpll_params(303, <<1, -1, -1, -1, -1>>)

DPLL_EN_MN_BYPASS == 4
DPLL_EN_LOCK == 7
CM_CLKMODE_DPLL_EN == 8      \* the bits of the mask lie below it

lock_dpll(d) ==
    clrsetbits(dpll_regs[d].clkmode, CM_CLKMODE_DPLL_EN, DPLL_EN_LOCK)
      \o Spin("locked", d)

(* A slip: the wait is the one of lock_dpll. *)
bypass_dpllSlip(d) ==
    clrsetbits(dpll_regs[d].clkmode, CM_CLKMODE_DPLL_EN, DPLL_EN_MN_BYPASS)
      \o Spin("locked", d)

bypass_dpll(d) ==
    clrsetbits(dpll_regs[d].clkmode, CM_CLKMODE_DPLL_EN, DPLL_EN_MN_BYPASS)
      \o Spin("bypassed", d)

(* Each divider that has a value goes to the register of its index.  The   *)
(* DDR PLL's has index 0 and its register index 2: the value goes to NULL. *)
setup_post_dividers(d, params) ==
    LET divider(i) == IF params.m2[i] >= 0
                      THEN writel(params.m2[i], dpll_regs[d].div[i]) ELSE <<>>
    IN divider(1) \o divider(2) \o divider(3) \o divider(4) \o divider(5)

ReadClksel(d) == <<[do |-> "read", reg |-> dpll_regs[d].clksel]>>
WriteClksel(d, params) ==
    <<[do |-> "clksel", reg |-> dpll_regs[d].clksel, m |-> params.m, n |-> params.n]>>

(* A slip: the PLL is not put into bypass. *)
do_setup_dpllSlip(d, params) ==
    ReadClksel(d)
      \o WriteClksel(d, params) \o setup_post_dividers(d, params)
      \o lock_dpll(d)

do_setup_dpll(d, params) ==
    ReadClksel(d) \o bypass_dpll(d)
      \o WriteClksel(d, params) \o setup_post_dividers(d, params)
      \o lock_dpll(d)

(* The multiplier edited into what was read: bits 8 to 18 and 0 to 6. *)
Clksel(was, m, n) ==
    (was - ((was \div 256) % 2048) * 256 - (was % 128))
      + (m % 2048) * 256 + (n % 128)

MultiplierOf(v) == (v \div 256) % 2048
DividerOf(v) == v % 128

setup_dplls ==
    do_setup_dpll("core", dpll_core)
      \o do_setup_dpll("mpu", dpll_mpu)
      \o do_setup_dpll("per", dpll_per)
      \o writel(\h300, CMWKUP.CLKDCOLDODPLLPER)
      \o do_setup_dpll("ddr", dpll_ddr_evm_sk)

-----------------------------------------------------------------------------
(* The domains and the modules *)

MODULE_CLKCTRL_MODULEMODE == 4     \* the bits of the mask lie below it
CD_CLKCTRL_CLKTRCTRL == 4
SW_WKUP == 2
SW_EXPLICIT_EN == 2

enable_clk_domain(a) == clrsetbits(a, CD_CLKCTRL_CLKTRCTRL, SW_WKUP)

enable_clk_mod(a) ==
    clrsetbits(a, MODULE_CLKCTRL_MODULEMODE, SW_EXPLICIT_EN) \o Spin("module", a)

domains == <<CMPER.L3CLKSTCTRL, CMPER.L4FWCLKSTCTRL,
             CMPER.L3SCLKSTCTRL, CMPER.L4LSCLKSTCTRL,
             CMWKUP.WKCLKSTCTRL, CMPER.EMIFFWCLKCTRL, CMRTC.CLKSTCTRL>>

mods == <<CMPER.L3CLKCTRL,     CMPER.L4LSCLKCTRL,     CMPER.L4FWCLKCTRL,
          CMWKUP.WKL4WKCLKCTRL, CMPER.L3INSTRCLKCTRL, CMPER.L4HSCLKCTRL,
          CMWKUP.WKGPIO0CLKCTRL, CMWKUP.WKCTRLCLKCTRL, CMPER.TIMER2CLKCTRL,
          CMPER.GPMCCLKCTRL,   CMPER.ELMCLKCTRL,      CMPER.MMC0CLKCTRL,
          CMPER.MMC1CLKCTRL,   CMWKUP.WKUP_I2C0CTRL,  CMPER.GPIO1CLKCTRL,
          CMPER.GPIO2CLKCTRL,  CMPER.GPIO3CLKCTRL,    CMPER.I2C1CLKCTRL,
          CMPER.CPGMAC0CLKCTRL, CMPER.SPI0CLKCTRL,    CMRTC.RTCCLKCTRL,
          CMPER.USB0CLKCTRL,   CMPER.EMIFFWCLKCTRL,   CMPER.EMIFCLKCTRL>>

CMDPLL_CLKTIMER2CLK == CM_DPLL + \h08

enable_basic_clocks ==
    [k \in 1 .. Len(domains) |-> enable_clk_domain(domains[k])[1]]
      \o [k \in 1 .. 2 * Len(mods) |-> enable_clk_mod(mods[(k + 1) \div 2])[2 - (k % 2)]]
      \o writel(1, CMDPLL_CLKTIMER2CLK)

prcm_init == enable_basic_clocks \o setup_dplls
=============================================================================
