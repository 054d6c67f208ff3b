------------------------------ MODULE Registers ------------------------------
(***************************************************************************)
(* The register map of include/asm/regs.h, as far as the boot code writes  *)
(* it, and the pads of the control module.  Addresses are numbers: the     *)
(* code computes them from two bases, and where it adds an offset to the   *)
(* wrong base it writes another module's register.                         *)
(***************************************************************************)
EXTENDS Integers, Sequences

DM_TIMER2_BASE == \h48040000
EMIF4_0_CFG_BASE == \h4C000000
DDR_CTRL_ADDR == \h44E10E04
DDR_CONTROL_BASE_ADDR == \h44E11404
GPMC_BASE == \h50000000
WDT_BASE == \h44E35000
CTRL_BASE == \h44E10000
PRCM_BASE == \h44E00000
CM_PER == \h44E00000
CM_WKUP == \h44E00400
CM_DPLL == \h44E00500
CM_RTC == \h44E00800
VTP0_CTRL_ADDR == \h44E10E0C
DDR_PHY_CMD_ADDR == \h44E12000
DDR_PHY_DATA_ADDR == <<\h44E120C8, \h47C0C8C8>>
I2C0_BASE == \h44E0B000

(* The clock control registers of the modules and domains enabled. *)
CMWKUP == [WKCLKSTCTRL |-> CM_WKUP, WKCTRLCLKCTRL |-> CM_WKUP + \h04,
           WKGPIO0CLKCTRL |-> CM_WKUP + \h08, WKL4WKCLKCTRL |-> CM_WKUP + \h0c,
           CLKDCOLDODPLLPER |-> CM_WKUP + \h7c, WKUP_I2C0CTRL |-> CM_WKUP + \hB8]

CMPER == [L4LSCLKSTCTRL |-> CM_PER,           L3SCLKSTCTRL |-> CM_PER + \h04,
          L4FWCLKSTCTRL |-> CM_PER + \h08,    L3CLKSTCTRL |-> CM_PER + \h0c,
          CPGMAC0CLKCTRL |-> CM_PER + \h14,   USB0CLKCTRL |-> CM_PER + \h1C,
          EMIFCLKCTRL |-> CM_PER + \h28,      GPMCCLKCTRL |-> CM_PER + \h30,
          MMC0CLKCTRL |-> CM_PER + \h3C,      ELMCLKCTRL |-> CM_PER + \h40,
          I2C1CLKCTRL |-> CM_PER + \h48,      SPI0CLKCTRL |-> CM_PER + \h4C,
          L4LSCLKCTRL |-> CM_PER + \h60,      L4FWCLKCTRL |-> CM_PER + \h64,
          TIMER2CLKCTRL |-> CM_PER + \h80,    GPIO1CLKCTRL |-> CM_PER + \hAC,
          GPIO2CLKCTRL |-> CM_PER + \hB0,     GPIO3CLKCTRL |-> CM_PER + \hB4,
          EMIFFWCLKCTRL |-> CM_PER + \hD0,    L3INSTRCLKCTRL |-> CM_PER + \hDC,
          L3CLKCTRL |-> CM_PER + \hE0,        MMC1CLKCTRL |-> CM_PER + \hF4,
          L4HSCLKCTRL |-> CM_PER + \h120]

CMRTC == [RTCCLKCTRL |-> CM_RTC, CLKSTCTRL |-> CM_RTC + \h4]

(* The pads, in the order of their registers. *)
pad_signals ==
  <<"gpmc_ad0", "gpmc_ad1", "gpmc_ad2", "gpmc_ad3", "gpmc_ad4", "gpmc_ad5",
    "gpmc_ad6", "gpmc_ad7", "gpmc_ad8", "gpmc_ad9", "gpmc_ad10", "gpmc_ad11",
    "gpmc_ad12", "gpmc_ad13", "gpmc_ad14", "gpmc_ad15", "gpmc_a0", "gpmc_a1",
    "gpmc_a2", "gpmc_a3", "gpmc_a4", "gpmc_a5", "gpmc_a6", "gpmc_a7",
    "gpmc_a8", "gpmc_a9", "gpmc_a10", "gpmc_a11", "gpmc_wait0", "gpmc_wpn",
    "gpmc_be1n", "gpmc_csn0", "gpmc_csn1", "gpmc_csn2", "gpmc_csn3",
    "gpmc_clk", "gpmc_advn_ale", "gpmc_oen_ren", "gpmc_wen", "gpmc_be0n_cle",
    "lcd_data0", "lcd_data1", "lcd_data2", "lcd_data3", "lcd_data4",
    "lcd_data5", "lcd_data6", "lcd_data7", "lcd_data8", "lcd_data9",
    "lcd_data10", "lcd_data11", "lcd_data12", "lcd_data13", "lcd_data14",
    "lcd_data15", "lcd_vsync", "lcd_hsync", "lcd_pclk", "lcd_ac_bias_en",
    "mmc0_dat3", "mmc0_dat2", "mmc0_dat1", "mmc0_dat0", "mmc0_clk",
    "mmc0_cmd", "mii1_col", "mii1_crs", "mii1_rxerr", "mii1_txen",
    "mii1_rxdv", "mii1_txd3", "mii1_txd2", "mii1_txd1", "mii1_txd0",
    "mii1_txclk", "mii1_rxclk", "mii1_rxd3", "mii1_rxd2", "mii1_rxd1",
    "mii1_rxd0", "rmii1_refclk", "mdio_data", "mdio_clk", "spi0_sclk",
    "spi0_d0", "spi0_d1", "spi0_cs0", "spi0_cs1", "ecap0_in_pwm0_out",
    "uart0_ctsn", "uart0_rtsn", "uart0_rxd", "uart0_txd", "uart1_ctsn",
    "uart1_rtsn", "uart1_rxd", "uart1_txd", "i2c0_sda", "i2c0_scl",
    "mcasp0_aclkx", "mcasp0_fsx", "mcasp0_axr0", "mcasp0_ahclkr",
    "mcasp0_aclkr">>

PAD_CR == \h800

(* __pin(x) *)
pin == [p \in {pad_signals[k] : k \in DOMAIN pad_signals} |->
           PAD_CR + 4 * ((CHOOSE k \in DOMAIN pad_signals : pad_signals[k] = p) - 1)]
=============================================================================
