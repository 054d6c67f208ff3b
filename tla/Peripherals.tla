----------------------------- MODULE Peripherals -----------------------------
(***************************************************************************)
(* The set-up of the watchdog, the timer, the pins, the DDR memory, the    *)
(* memory controller and the I2C port, as the statements of main.c,        *)
(* timer.c, mux.c, ddr.c, gpmc.c and i2c.c, in the form of module Clock.   *)
(***************************************************************************)
EXTENDS Clock

SetBits(a, bit) == <<[do |-> "set", reg |-> a, bit |-> bit]>>
ClearBits(a, bit) == <<[do |-> "clear", reg |-> a, bit |-> bit]>>

-----------------------------------------------------------------------------
(* Watchdog and timer *)

WDTREG_WSPR == WDT_BASE + \h48

watchdog_disable ==
    writel(\haaaa, WDTREG_WSPR) \o Spin("watchdog", WDTREG_WSPR)
      \o writel(\h5555, WDTREG_WSPR) \o Spin("watchdog", WDTREG_WSPR)

TMREG_TCLR == DM_TIMER2_BASE + \h38
TMREG_TLDR == DM_TIMER2_BASE + \h40

timer_init == writel(0, TMREG_TLDR) \o writel(8 + 32 + 2 + 1, TMREG_TCLR)

-----------------------------------------------------------------------------
(* Pins *)

PULLUP_EN == 16
RXACTIVE == 32
SLEWCTRL == 64
PULLUDEN == 0

Entry(p, v) == <<[pad |-> p, val |-> v]>>
Entries(ps, v) == [k \in 1 .. Len(ps) |-> [pad |-> ps[k], val |-> v]]

rgmii1_pin_mux ==
    Entry("mii1_txen", 2) \o Entry("mii1_rxdv", 2 + RXACTIVE)
      \o Entries(<<"mii1_txd3", "mii1_txd2", "mii1_txd1", "mii1_txd0",
                   "mii1_txclk">>, 2)
      \o Entries(<<"mii1_rxclk", "mii1_rxd3", "mii1_rxd2", "mii1_rxd1",
                   "mii1_rxd0">>, 2 + RXACTIVE)
      \o Entry("mdio_data", RXACTIVE + PULLUP_EN) \o Entry("mdio_clk", PULLUP_EN)

mmc0_pin_mux ==
    Entries(<<"mmc0_dat3", "mmc0_dat2", "mmc0_dat1", "mmc0_dat0", "mmc0_clk",
              "mmc0_cmd">>, RXACTIVE + PULLUP_EN)
      \o Entry("mcasp0_aclkr", 4 + RXACTIVE)
      \o Entry("spi0_cs1", 5 + RXACTIVE + PULLUP_EN)

i2c0_pin_mux ==
    Entries(<<"i2c0_sda", "i2c0_scl">>, RXACTIVE + PULLUDEN + SLEWCTRL)

i2c1_pin_mux ==
    Entries(<<"spi0_d1", "spi0_cs0">>, 2 + RXACTIVE + PULLUDEN + SLEWCTRL)

nand_pin_mux ==
    Entries(<<"gpmc_ad0", "gpmc_ad1", "gpmc_ad2", "gpmc_ad3", "gpmc_ad4",
              "gpmc_ad5", "gpmc_ad6", "gpmc_ad7", "gpmc_wait0">>,
            PULLUP_EN + RXACTIVE)
      \o Entry("gpmc_wpn", 7 + PULLUP_EN + RXACTIVE)
      \o Entries(<<"gpmc_csn0", "gpmc_advn_ale", "gpmc_oen_ren", "gpmc_wen",
                   "gpmc_be0n_cle">>, PULLUDEN)

(* A slip: the offset of the pads in the block is left out. *)
PadAddressSlip(p) == PRCM_BASE + pin[p] - PAD_CR

(* The pads are registers of the control module; the base used is the      *)
(* PRCM's.                                                                 *)
PadAddress(p) == PRCM_BASE + pin[p]

configure_module_pin_mux(mux) ==
    [k \in 1 .. Len(mux) |-> writel(mux[k].val, PadAddress(mux[k].pad))[1]]

board_pin_mux ==
    configure_module_pin_mux(rgmii1_pin_mux \o mmc0_pin_mux \o i2c0_pin_mux
                               \o i2c1_pin_mux \o nand_pin_mux)

-----------------------------------------------------------------------------
(* DDR memory *)

VTP_CTRL_START_EN == 1
VTP_CTRL_ENABLE == 64

config_vtp ==
    SetBits(VTP0_CTRL_ADDR, VTP_CTRL_ENABLE)
      \o ClearBits(VTP0_CTRL_ADDR, VTP_CTRL_START_EN)
      \o SetBits(VTP0_CTRL_ADDR, VTP_CTRL_START_EN)
      \o Spin("vtp", VTP0_CTRL_ADDR)

(* Pairs of an offset and a value, stored in order. *)
Stores(base, pairs) ==
    [k \in 1 .. Len(pairs) |-> writel(pairs[k][2], base + pairs[k][1])[1]]

ddr3_evm_cmd_ctrl_data == [csratio |-> \h80, iclkout |-> 0]

config_cmd_ctrl(cmd) ==
    Stores(DDR_PHY_CMD_ADDR,
           << <<\h1C, cmd.csratio>>, <<\h2C, cmd.iclkout>>,
              <<\h50, cmd.csratio>>, <<\h60, cmd.iclkout>>,
              <<\h84, cmd.csratio>>, <<\h94, cmd.iclkout>> >>)

ddr3_evm_data == [rdsratio |-> \h3B, wdsratio |-> \h3C, wiratio |-> 0,
                  giratio |-> 0, fwsratio |-> \hA5, wrsratio |-> \h74]

config_ddr_data(data) ==
    LET ratios == << <<\hC8, data.rdsratio>>, <<\hDC, data.wdsratio>>,
                     <<\hF0, data.wiratio>>, <<\hFC, data.giratio>>,
                     <<\h108, data.fwsratio>>, <<\h120, data.wrsratio>> >>
    IN Stores(DDR_PHY_DATA_ADDR[1], ratios) \o Stores(DDR_PHY_DATA_ADDR[2], ratios)

config_io_ctrl(ioctrl) ==
    Stores(DDR_CONTROL_BASE_ADDR,
           << <<0, ioctrl>>, <<4, ioctrl>>, <<8, ioctrl>>, <<\h3C, ioctrl>>, <<\h40, ioctrl>> >>)

ddr3_evm_emif_reg_data ==
    [sdram_config |-> \h61C04BB2, ref_ctrl |-> \h93B, sdram_tim1 |-> \h0888A39B,
     sdram_tim2 |-> \h26517FDA, sdram_tim3 |-> \h501F84EF, zq_config |-> \h50074BE4,
     phy_ctlr_1 |-> \h100006, int_config |-> 0]

config_ddr_phy(emif) ==
    Stores(EMIF4_0_CFG_BASE, << <<\hE8, emif.phy_ctlr_1>>, <<\hEC, emif.phy_ctlr_1>> >>)

set_sdram_timings(emif) ==
    Stores(EMIF4_0_CFG_BASE,
           << <<\h18, emif.sdram_tim1>>, <<\h1C, emif.sdram_tim1>>,
              <<\h20, emif.sdram_tim2>>, <<\h24, emif.sdram_tim2>>,
              <<\h28, emif.sdram_tim3>>, <<\h2C, emif.sdram_tim3>> >>)

SECURE_EMIF_SDRAM_CONFIG == CTRL_BASE + \h110

config_sdram(emif) ==
    (IF emif.zq_config = 0 THEN <<>>
     ELSE Stores(EMIF4_0_CFG_BASE, << <<\h10, \h2800>>, <<\hCC, emif.zq_config>> >>)
            \o writel(emif.sdram_config, SECURE_EMIF_SDRAM_CONFIG)
            \o Stores(EMIF4_0_CFG_BASE,
                      << <<\h08, emif.sdram_config>>, <<\h10, emif.ref_ctrl>>,
                         <<\h14, emif.ref_ctrl>> >>))
      \o Stores(EMIF4_0_CFG_BASE,
                << <<\h54, IF emif.int_config = 0 THEN \h00FFFF10 ELSE emif.int_config>>,
                   <<\h10, emif.ref_ctrl>>, <<\h14, emif.ref_ctrl>>,
                   <<\h08, emif.sdram_config>> >>)

config_ddr(ioctrl, data, ctrl, emif) ==
    config_vtp \o config_cmd_ctrl(ctrl) \o config_ddr_data(data)
      \o config_io_ctrl(ioctrl)
      \o writel(1, DDR_CTRL_ADDR + \h514)
      \o config_ddr_phy(emif) \o set_sdram_timings(emif) \o config_sdram(emif)

-----------------------------------------------------------------------------
(* Memory controller and I2C port *)

gpmc_cs(cs) == GPMC_BASE + \h60 + \h30 * cs
GPMC_MAX_CS == 8

M_NAND_GPMC_CONFIG == <<\h800, \h1e1e00, \h1e1e00, \h16051807, \h151e1e, \h16000f80>>

(* The words before the first zero. *)
Copied(cfg) == (CHOOSE k \in DOMAIN cfg : cfg[k] = 0 /\ \A l \in 1 .. k - 1 : cfg[l] # 0) - 1

gpmc_cs_config(cfg, cs, base, size) ==
    LET n == Copied(cfg) IN
    writel(0, gpmc_cs(cs) + \h18)
      \o [k \in 1 .. n |-> writel(cfg[k], gpmc_cs(cs) + 4 * (k - 1))[1]]
      \o writel((size % 16) * 256 + ((base \div \h1000000) % 64) + 64, gpmc_cs(cs) + 4 * n)

GPMC_SIZE_256M == 0
SYS_NAND_BASE == \h8000000

gpmc_init(cs) ==
    Stores(GPMC_BASE, << <<\h10, 8>>, <<\h18, 0>>, <<\h1C, 0>>, <<\h50, \h12>> >>)
      \o gpmc_cs_config(Append(M_NAND_GPMC_CONFIG, 0), cs, SYS_NAND_BASE, GPMC_SIZE_256M)

(* The prescaler and the half periods of a bus of the speed given. *)
setup_clk(base, sclk, iclk, speed) ==
    LET div == (iclk \div speed) \div 2 IN
    Stores(base, << <<\hB0, (sclk \div iclk) - 1>>, <<\hB4, div - 7>>, <<\hB8, div - 5>> >>)

omap_i2c_init(base) ==
    writel(0, base + \hA4) \o setup_clk(base, 48000000, 24000000, 100000)
      \o writel(2 ^ 15, base + \hA4)
=============================================================================
