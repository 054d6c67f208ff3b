---------------------------- MODULE Boot_proofs ----------------------------
(***************************************************************************)
(* lowlevel_init for every board, every reset and everything the I2C bus   *)
(* may do: the program is what its parts are, statement by statement; what *)
(* the registers, the PLLs, the modules and the power chip's driver are in *)
(* at each statement is an inductive invariant; and what the boot promises *)
(* follows from it.                                                        *)
(***************************************************************************)
EXTENDS Boot, I2c_proofs

Statements ==
    [do : {"write"}, reg : Nat, val : Nat]
      \cup [do : {"field"}, reg : Nat, size : {4, 8}, val : Nat]
      \cup [do : {"set", "clear"}, reg : Nat, bit : {1, 16, 64}]
      \cup [do : {"read"}, reg : Nat]
      \cup [do : {"clksel"}, reg : Nat, m : Int, n : Nat]
      \cup [do : {"spin"}, what : {"locked", "bypassed", "module", "vtp", "watchdog"}, on : Nat \cup Dplls]
      \cup [do : {"efuse", "voltages", "select", "width"}]

LEMMA Joined ==
    ASSUME NEW S, NEW s \in Seq(S), NEW t \in Seq(S)
    PROVE  /\ s \o t \in Seq(S) /\ Len(s \o t) = Len(s) + Len(t)
           /\ Len(s) \in Nat /\ Len(t) \in Nat
           /\ \A k \in 1 .. Len(s) : (s \o t)[k] = s[k]
           /\ \A k \in Len(s) + 1 .. Len(s) + Len(t) : (s \o t)[k] = t[k - Len(s)]
  BY SMTT(30)

(* u is the statements of s and then those of t. *)
IsJoin(u, s, t) ==
    /\ u \in Seq(Statements) /\ Len(u) = Len(s) + Len(t) /\ Len(s) \in Nat /\ Len(t) \in Nat
    /\ \A k \in 1 .. Len(s) : u[k] = s[k]
    /\ \A k \in Len(s) + 1 .. Len(s) + Len(t) : u[k] = t[k - Len(s)]

LEMMA JoinIsJoin ==
    ASSUME NEW s \in Seq(Statements), NEW t \in Seq(Statements)
    PROVE  IsJoin(s \o t, s, t)
  BY Joined, Zenon DEF IsJoin

LEMMA One ==
    ASSUME NEW S, NEW x \in S
    PROVE  <<x>> \in Seq(S) /\ Len(<<x>>) = 1 /\ <<x>>[1] = x
  OBVIOUS

LEMMA None == ASSUME NEW S PROVE <<>> \in Seq(S) /\ Len(<<>>) = 0
  OBVIOUS

LEMMA Added ==
    ASSUME NEW S, NEW s \in Seq(S), NEW x \in S
    PROVE  /\ s \o <<x>> \in Seq(S) /\ Len(s \o <<x>>) = Len(s) + 1
           /\ \A k \in 1 .. Len(s) : (s \o <<x>>)[k] = s[k]
           /\ (s \o <<x>>)[Len(s) + 1] = x
  BY One, Joined

LEMMA Four ==
    ASSUME NEW S, NEW a \in S, NEW b \in S, NEW c \in S, NEW d \in S
    PROVE  LET s == <<a>> \o <<b>> \o <<c>> \o <<d>> IN
           s \in Seq(S) /\ Len(s) = 4 /\ s[1] = a /\ s[2] = b /\ s[3] = c /\ s[4] = d
<1>2. <<a>> \o <<b>> \in Seq(S) /\ Len(<<a>> \o <<b>>) = 2
      /\ (<<a>> \o <<b>>)[1] = a /\ (<<a>> \o <<b>>)[2] = b
  BY One, Added
<1>3. LET s == <<a>> \o <<b>> \o <<c>> IN
      s \in Seq(S) /\ Len(s) = 3 /\ s[1] = a /\ s[2] = b /\ s[3] = c
  BY <1>2, Added
<1> QED
  BY <1>3, Added



Write_(a, v) == [do |-> "write", reg |-> a, val |-> v]
Field_(a, n, v) == [do |-> "field", reg |-> a, size |-> n, val |-> v]
Spin_(w, o) == [do |-> "spin", what |-> w, on |-> o]

LEMMA Two ==
    ASSUME NEW S, NEW a \in S, NEW b \in S
    PROVE  LET s == <<a>> \o <<b>> IN s \in Seq(S) /\ Len(s) = 2 /\ s[1] = a /\ s[2] = b
  BY One, Added

LEMMA WatchdogPart ==
    LET s == watchdog_disable IN
    /\ s \in Seq(Statements) /\ Len(s) = 4
    /\ s[1] = Write_(WDTREG_WSPR, \haaaa) /\ s[2] = Spin_("watchdog", WDTREG_WSPR)
    /\ s[3] = Write_(WDTREG_WSPR, \h5555) /\ s[4] = Spin_("watchdog", WDTREG_WSPR)
<1> DEFINE a == Write_(WDTREG_WSPR, \haaaa)
           b == Spin_("watchdog", WDTREG_WSPR)
           c == Write_(WDTREG_WSPR, \h5555)
<1>1. a \in Statements /\ b \in Statements /\ c \in Statements
  BY SMTT(10) DEF Statements, Write_, Spin_, WDTREG_WSPR, WDT_BASE
<1>2. watchdog_disable = <<a>> \o <<b>> \o <<c>> \o <<b>>
  BY DEF watchdog_disable, writel, Spin, Write_, Spin_
<1> HIDE DEF a, b, c
<1>3. LET s == <<a>> \o <<b>> \o <<c>> \o <<b>> IN
      s \in Seq(Statements) /\ Len(s) = 4 /\ s[1] = a /\ s[2] = b /\ s[3] = c /\ s[4] = b
  BY <1>1, Four
<1>4. LET s == watchdog_disable IN
      s \in Seq(Statements) /\ Len(s) = 4 /\ s[1] = a /\ s[2] = b /\ s[3] = c /\ s[4] = b
  BY <1>2, <1>3
<1> QED
  BY <1>4, SMTT(10) DEF a, b, c

LEMMA TimerPart ==
    LET s == timer_init IN
    /\ s \in Seq(Statements) /\ Len(s) = 2
    /\ s[1] = Write_(TMREG_TLDR, 0) /\ s[2] = Write_(TMREG_TCLR, 43)
<1>1. Write_(TMREG_TLDR, 0) \in Statements /\ Write_(TMREG_TCLR, 43) \in Statements
  BY SMTT(10) DEF Statements, Write_, TMREG_TLDR, TMREG_TCLR, DM_TIMER2_BASE
<1>2. timer_init = <<Write_(TMREG_TLDR, 0)>> \o <<Write_(TMREG_TCLR, 43)>>
  BY SMTT(10) DEF timer_init, writel, Write_
<1> DEFINE a == Write_(TMREG_TLDR, 0)
           b == Write_(TMREG_TCLR, 43)
<1> HIDE DEF a, b
<1>3. LET s == <<a>> \o <<b>> IN s \in Seq(Statements) /\ Len(s) = 2 /\ s[1] = a /\ s[2] = b
  BY <1>1, Two DEF a, b
<1> QED
  BY <1>2, <1>3, SMTT(10) DEF a, b

LEMMA DomainsPart ==
    LET s == [k \in 1 .. Len(domains) |-> enable_clk_domain(domains[k])[1]] IN
    /\ s \in Seq(Statements) /\ Len(s) = 7
    /\ \A k \in 1 .. 7 : s[k] = Field_(domains[k], 4, 2)
<1>1. Len(domains) = 7 /\ \A k \in 1 .. 7 : domains[k] \in Nat
  BY SMTT(10) DEF domains, CMPER, CMWKUP, CMRTC, CM_PER, CM_WKUP, CM_RTC
<1>2. \A a \in Nat : enable_clk_domain(a)[1] = Field_(a, 4, 2) /\ Field_(a, 4, 2) \in Statements
  BY SMTT(10) DEF enable_clk_domain, clrsetbits, Field_, Statements, CD_CLKCTRL_CLKTRCTRL, SW_WKUP
<1> QED
  BY <1>1, <1>2, SMTT(10)

LEMMA ModulesPart ==
    LET s == [k \in 1 .. 2 * Len(mods) |-> enable_clk_mod(mods[(k + 1) \div 2])[2 - (k % 2)]] IN
    /\ s \in Seq(Statements) /\ Len(s) = 48
    /\ \A j \in 1 .. 24 : /\ s[2 * j - 1] = Field_(mods[j], 4, 2)
                          /\ s[2 * j] = Spin_("module", mods[j])
<1>1. Len(mods) = 24 /\ \A k \in 1 .. 24 : mods[k] \in Nat
  BY SMTT(10) DEF mods, CMPER, CMWKUP, CMRTC, CM_PER, CM_WKUP, CM_RTC
<1>2. \A a \in Nat : /\ enable_clk_mod(a)[1] = Field_(a, 4, 2) /\ Field_(a, 4, 2) \in Statements
                     /\ enable_clk_mod(a)[2] = Spin_("module", a) /\ Spin_("module", a) \in Statements
  BY SMTT(10), Added, One DEF enable_clk_mod, clrsetbits, Spin, Spin_, Field_, Statements,
     MODULE_CLKCTRL_MODULEMODE, SW_EXPLICIT_EN
<1> DEFINE s == [k \in 1 .. 2 * Len(mods) |-> enable_clk_mod(mods[(k + 1) \div 2])[2 - (k % 2)]]
<1>3. \A k \in 1 .. 48 : (k + 1) \div 2 \in 1 .. 24 /\ 2 - (k % 2) \in {1, 2}
  OBVIOUS
<1>4. \A k \in 1 .. 48 : s[k] \in Statements
  BY <1>1, <1>2, <1>3, SMTT(10)
<1>5. \A j \in 1 .. 24 : s[2 * j - 1] = Field_(mods[j], 4, 2) /\ s[2 * j] = Spin_("module", mods[j])
  BY <1>1, <1>2, SMTT(10)
<1> QED
  BY <1>1, <1>4, <1>5, SMTT(10)

-----------------------------------------------------------------------------
Clksel_(d, m, n) == [do |-> "clksel", reg |-> dpll_regs[d].clksel, m |-> m, n |-> n]

LEMMA DpllRegisters ==
    /\ Dplls = {"mpu", "core", "per", "ddr"}
    /\ dpll_regs["mpu"].clkmode = 1155531912 /\ dpll_regs["mpu"].clksel = 1155531820
    /\ dpll_regs["core"].clkmode = 1155531920 /\ dpll_regs["core"].clksel = 1155531880
    /\ dpll_regs["per"].clkmode = 1155531916 /\ dpll_regs["per"].clksel = 1155531932
    /\ dpll_regs["ddr"].clkmode = 1155531924 /\ dpll_regs["ddr"].clksel = 1155531840
    /\ dpll_regs["mpu"].div = <<1155531944, 0, 0, 0, 0>>
    /\ dpll_regs["core"].div = <<0, 0, 1155531904, 1155531908, 1155531992>>
    /\ dpll_regs["per"].div = <<1155531948, 0, 0, 0, 0>>
    /\ dpll_regs["ddr"].div = <<0, 0, 1155531936, 0, 0>>
  BY SMTT(10) DEF dpll_regs, Dplls, CM_WKUP, NULL

LEMMA SetupPart ==
    ASSUME NEW d \in Dplls, NEW p, p.m \in Int, p.n \in Nat, NEW v \in Seq(Statements),
           v = setup_post_dividers(d, p)
    PROVE  LET s == do_setup_dpll(d, p)
               n == Len(v) IN
           /\ s \in Seq(Statements) /\ Len(s) = n + 6 /\ n \in Nat
           /\ s[1] = [do |-> "read", reg |-> dpll_regs[d].clksel]
           /\ s[2] = Field_(dpll_regs[d].clkmode, 8, 4)
           /\ s[3] = Spin_("bypassed", d)
           /\ s[4] = Clksel_(d, p.m, p.n)
           /\ \A k \in 5 .. n + 4 : s[k] = v[k - 4]
           /\ s[n + 5] = Field_(dpll_regs[d].clkmode, 8, 7)
           /\ s[n + 6] = Spin_("locked", d)
<1> DEFINE a == [do |-> "read", reg |-> dpll_regs[d].clksel]
           b == Field_(dpll_regs[d].clkmode, 8, 4)
           c == Spin_("bypassed", d)
           e == Clksel_(d, p.m, p.n)
           f == Field_(dpll_regs[d].clkmode, 8, 7)
           g == Spin_("locked", d)
<1>1. dpll_regs[d].clksel \in Nat /\ dpll_regs[d].clkmode \in Nat
  BY DpllRegisters, SMTT(60)
<1>2. {a, b, c, e, f, g} \subseteq Statements
  BY <1>1, SMTT(10) DEF Statements, Field_, Spin_, Clksel_
<1>3. do_setup_dpll(d, p) = <<a>> \o (<<b>> \o <<c>>) \o <<e>> \o v \o (<<f>> \o <<g>>)
  BY SMTT(10) DEF do_setup_dpll, ReadClksel, bypass_dpll, lock_dpll, WriteClksel, clrsetbits,
     Spin, Field_, Spin_, Clksel_, DPLL_EN_LOCK, DPLL_EN_MN_BYPASS, CM_CLKMODE_DPLL_EN
<1> HIDE DEF a, b, c, e, f, g
<1> DEFINE bc == <<b>> \o <<c>>
           fg == <<f>> \o <<g>>
           s2 == <<a>> \o bc
           s3 == s2 \o <<e>>
           s4 == s3 \o v
           s5 == s4 \o fg
<1>4. /\ bc \in Seq(Statements) /\ Len(bc) = 2 /\ bc[1] = b /\ bc[2] = c
      /\ fg \in Seq(Statements) /\ Len(fg) = 2 /\ fg[1] = f /\ fg[2] = g
  BY <1>2, Two
<1>5. <<a>> \in Seq(Statements) /\ Len(<<a>>) = 1 /\ <<a>>[1] = a
  BY <1>2, One
<1> HIDE DEF bc, fg
<1>6. s2 \in Seq(Statements) /\ Len(s2) = 3 /\ s2[1] = a /\ s2[2] = b /\ s2[3] = c
  <2>1. IsJoin(s2, <<a>>, bc)
    BY <1>4, <1>5, JoinIsJoin, Zenon
  <2> HIDE DEF s2
  <2> QED
    BY <2>1, <1>4, <1>5 DEF IsJoin
<1> HIDE DEF s2
<1>7. /\ s3 \in Seq(Statements) /\ Len(s3) = 4
      /\ s3[1] = a /\ s3[2] = b /\ s3[3] = c /\ s3[4] = e
  <2>1. IsJoin(s3, s2, <<e>>) /\ <<e>>[1] = e /\ Len(<<e>>) = 1
    BY <1>2, <1>6, One, JoinIsJoin, Zenon
  <2> HIDE DEF s3
  <2> QED
    BY <2>1, <1>6 DEF IsJoin
<1> HIDE DEF s3
<1>8. /\ s4 \in Seq(Statements) /\ Len(s4) = Len(v) + 4 /\ Len(v) \in Nat
      /\ s4[1] = a /\ s4[2] = b /\ s4[3] = c /\ s4[4] = e
      /\ \A k \in 5 .. Len(v) + 4 : s4[k] = v[k - 4]
  <2>1. IsJoin(s4, s3, v)
    BY <1>7, JoinIsJoin, Zenon
  <2> HIDE DEF s4
  <2> QED
    BY <2>1, <1>7 DEF IsJoin
<1> HIDE DEF s4
<1>9. /\ s5 \in Seq(Statements) /\ Len(s5) = Len(v) + 6
      /\ \A k \in 1 .. Len(v) + 4 : s5[k] = s4[k]
      /\ s5[Len(v) + 5] = f /\ s5[Len(v) + 6] = g
  <2>1. IsJoin(s5, s4, fg)
    BY <1>4, <1>8, JoinIsJoin, Zenon
  <2> HIDE DEF s5
  <2> DEFINE n == Len(v)
  <2>2. n \in Nat /\ Len(s4) = n + 4
    BY <1>8
  <2>3. s5[n + 5] = fg[n + 5 - (n + 4)] /\ s5[n + 6] = fg[n + 6 - (n + 4)]
    <3> HIDE DEF n
    <3> QED
      BY <2>1, <2>2, <1>4 DEF IsJoin
  <2>4. n + 5 - (n + 4) = 1 /\ n + 6 - (n + 4) = 2
    BY <2>2
  <2>5. s5 \in Seq(Statements) /\ Len(s5) = Len(v) + 6 /\ \A k \in 1 .. Len(v) + 4 : s5[k] = s4[k]
    BY <2>1, <2>2, <1>4 DEF IsJoin
  <2> QED
    BY <2>3, <2>4, <2>5, <1>4
<1>10. do_setup_dpll(d, p) = s5
  BY <1>3 DEF bc, fg, s2, s3, s4
<1>11. LET s == do_setup_dpll(d, p)
           n == Len(v) IN
       /\ s \in Seq(Statements) /\ Len(s) = n + 6 /\ n \in Nat
       /\ s[1] = a /\ s[2] = b /\ s[3] = c /\ s[4] = e
       /\ \A k \in 5 .. n + 4 : s[k] = v[k - 4]
       /\ s[n + 5] = f /\ s[n + 6] = g
  BY <1>8, <1>9, <1>10
<1> QED
  BY <1>11, SMTT(10) DEF a, b, c, e, f, g

LEMMA OneDivider ==
    ASSUME NEW d \in {"mpu", "per", "ddr"}, NEW p, NEW x \in Nat, p.m2 = <<x, -1, -1, -1, -1>>
    PROVE  LET v == setup_post_dividers(d, p) IN
           /\ v \in Seq(Statements) /\ Len(v) = 1
           /\ v[1] = Write_(dpll_regs[d].div[1], x)
<1> DEFINE w == Write_(dpll_regs[d].div[1], x)
<1>1. w \in Statements
  BY DpllRegisters, SMTT(10) DEF Write_, Statements
<1>2. setup_post_dividers(d, p) = <<w>> \o <<>> \o <<>> \o <<>> \o <<>>
  BY SMTT(10) DEF setup_post_dividers, writel, Write_
<1> HIDE DEF w
<1>3. /\ <<w>> \o <<>> \in Seq(Statements) /\ Len(<<w>> \o <<>>) = 1 /\ (<<w>> \o <<>>)[1] = w
  BY <1>1, One, None, Joined
<1>4. LET s == <<w>> \o <<>> \o <<>> IN s \in Seq(Statements) /\ Len(s) = 1 /\ s[1] = w
  BY <1>3, None, Joined
<1>5. LET s == <<w>> \o <<>> \o <<>> \o <<>> IN s \in Seq(Statements) /\ Len(s) = 1 /\ s[1] = w
  BY <1>4, None, Joined
<1>6. LET s == <<w>> \o <<>> \o <<>> \o <<>> \o <<>> IN
      s \in Seq(Statements) /\ Len(s) = 1 /\ s[1] = w
  BY <1>5, None, Joined
<1> QED
  BY <1>2, <1>6 DEF w

LEMMA CoreDividers ==
    ASSUME NEW p, NEW x \in Nat, NEW y \in Nat, NEW z \in Nat, p.m2 = <<-1, -1, x, y, z>>
    PROVE  LET v == setup_post_dividers("core", p) IN
           /\ v \in Seq(Statements) /\ Len(v) = 3
           /\ v[1] = Write_(dpll_regs["core"].div[3], x)
           /\ v[2] = Write_(dpll_regs["core"].div[4], y)
           /\ v[3] = Write_(dpll_regs["core"].div[5], z)
<1> DEFINE a == Write_(dpll_regs["core"].div[3], x)
           b == Write_(dpll_regs["core"].div[4], y)
           c == Write_(dpll_regs["core"].div[5], z)
<1>1. a \in Statements /\ b \in Statements /\ c \in Statements
  BY DpllRegisters, SMTT(10) DEF Write_, Statements
<1>2. setup_post_dividers("core", p) = <<>> \o <<>> \o <<a>> \o <<b>> \o <<c>>
  BY SMTT(10) DEF setup_post_dividers, writel, Write_
<1> HIDE DEF a, b, c
<1>3. <<>> \o <<>> \in Seq(Statements) /\ Len(<<>> \o <<>>) = 0
  BY None, Joined
<1>4. LET s == <<>> \o <<>> \o <<a>> IN s \in Seq(Statements) /\ Len(s) = 1 /\ s[1] = a
  BY <1>1, <1>3, Added
<1>5. LET s == <<>> \o <<>> \o <<a>> \o <<b>> IN
      s \in Seq(Statements) /\ Len(s) = 2 /\ s[1] = a /\ s[2] = b
  BY <1>1, <1>4, Added
<1>6. LET s == <<>> \o <<>> \o <<a>> \o <<b>> \o <<c>> IN
      s \in Seq(Statements) /\ Len(s) = 3 /\ s[1] = a /\ s[2] = b /\ s[3] = c
  BY <1>1, <1>5, Added
<1> QED
  BY <1>2, <1>6 DEF a, b, c

(* The set-up of a PLL at offset o of a program, with n statements. *)
IsSetup(s, o, d, n, m) ==
    /\ s[o + 1] = [do |-> "read", reg |-> dpll_regs[d].clksel]
    /\ s[o + 2] = Field_(dpll_regs[d].clkmode, 8, 4)
    /\ s[o + 3] = Spin_("bypassed", d)
    /\ s[o + 4] = Clksel_(d, m, 23)
    /\ \A k \in o + 5 .. o + n - 2 :
          /\ s[k].do = "write"
          /\ \E i \in 1 .. 5 : s[k].reg = dpll_regs[d].div[i]
    /\ s[o + n - 1] = Field_(dpll_regs[d].clkmode, 8, 7)
    /\ s[o + n] = Spin_("locked", d)

LEMMA SetupOne ==
    ASSUME NEW d \in {"mpu", "per", "ddr"}, NEW p, NEW x \in Nat,
           p.m2 = <<x, -1, -1, -1, -1>>, p.m \in Int, p.n = 23
    PROVE  LET s == do_setup_dpll(d, p) IN
           s \in Seq(Statements) /\ Len(s) = 7 /\ IsSetup(s, 0, d, 7, p.m)
<1> DEFINE v == setup_post_dividers(d, p)
           s == do_setup_dpll(d, p)
<1>1. v \in Seq(Statements) /\ Len(v) = 1 /\ v[1] = Write_(dpll_regs[d].div[1], x)
  BY OneDivider
<1>2. d \in Dplls
  BY DpllRegisters
<1>3. /\ s \in Seq(Statements) /\ Len(s) = Len(v) + 6
      /\ s[1] = [do |-> "read", reg |-> dpll_regs[d].clksel]
      /\ s[2] = Field_(dpll_regs[d].clkmode, 8, 4)
      /\ s[3] = Spin_("bypassed", d)
      /\ s[4] = Clksel_(d, p.m, p.n)
      /\ \A k \in 5 .. Len(v) + 4 : s[k] = v[k - 4]
      /\ s[Len(v) + 5] = Field_(dpll_regs[d].clkmode, 8, 7)
      /\ s[Len(v) + 6] = Spin_("locked", d)
  <2> HIDE DEF v
  <2> v = setup_post_dividers(d, p) /\ p.n \in Nat
    BY DEF v
  <2> HIDE DEF s
  <2> QED
    BY SetupPart, <1>1, <1>2, ZenonT(30) DEF s
<1> HIDE DEF s, v
<1>4. s[5].do = "write" /\ s[5].reg = dpll_regs[d].div[1]
  BY <1>1, <1>3, SMTT(10) DEF Write_
<1>5. IsSetup(s, 0, d, 7, p.m)
  BY <1>1, <1>3, <1>4, SMTT(10) DEF IsSetup
<1> QED
  BY <1>1, <1>3, <1>5 DEF s

LEMMA SetupCore ==
    ASSUME NEW p, NEW x \in Nat, NEW y \in Nat, NEW z \in Nat,
           p.m2 = <<-1, -1, x, y, z>>, p.m \in Int, p.n = 23
    PROVE  LET s == do_setup_dpll("core", p) IN
           s \in Seq(Statements) /\ Len(s) = 9 /\ IsSetup(s, 0, "core", 9, p.m)
<1> DEFINE v == setup_post_dividers("core", p)
           s == do_setup_dpll("core", p)
<1>1. /\ v \in Seq(Statements) /\ Len(v) = 3
      /\ v[1] = Write_(dpll_regs["core"].div[3], x)
      /\ v[2] = Write_(dpll_regs["core"].div[4], y)
      /\ v[3] = Write_(dpll_regs["core"].div[5], z)
  BY CoreDividers
<1>2. "core" \in Dplls
  BY DpllRegisters
<1>3. /\ s \in Seq(Statements) /\ Len(s) = Len(v) + 6
      /\ s[1] = [do |-> "read", reg |-> dpll_regs["core"].clksel]
      /\ s[2] = Field_(dpll_regs["core"].clkmode, 8, 4)
      /\ s[3] = Spin_("bypassed", "core")
      /\ s[4] = Clksel_("core", p.m, p.n)
      /\ \A k \in 5 .. Len(v) + 4 : s[k] = v[k - 4]
      /\ s[Len(v) + 5] = Field_(dpll_regs["core"].clkmode, 8, 7)
      /\ s[Len(v) + 6] = Spin_("locked", "core")
  <2> HIDE DEF v
  <2> v = setup_post_dividers("core", p) /\ p.n \in Nat
    BY DEF v
  <2> HIDE DEF s
  <2> QED
    BY SetupPart, <1>1, <1>2, ZenonT(30) DEF s
<1> HIDE DEF s, v
<1>4. \A k \in 5 .. 7 : /\ s[k].do = "write"
                        /\ \E i \in 1 .. 5 : s[k].reg = dpll_regs["core"].div[i]
  <2>1. s[5] = v[1] /\ s[6] = v[2] /\ s[7] = v[3]
    BY <1>1, <1>3, SMTT(10)
  <2> QED
    BY <2>1, <1>1, SMTT(10) DEF Write_
<1>5. IsSetup(s, 0, "core", 9, p.m)
  BY <1>1, <1>3, <1>4, SMTT(10) DEF IsSetup
<1> QED
  BY <1>1, <1>3, <1>5 DEF s

-----------------------------------------------------------------------------
(* A program of stores to registers of A. *)
OnlyStores(s, A) ==
    /\ s \in Seq(Statements)
    /\ \A k \in 1 .. Len(s) : s[k].do = "write" /\ s[k].reg \in A

LEMMA StoresPart ==
    ASSUME NEW A \in SUBSET Nat, NEW base \in Nat, NEW pairs, Len(pairs) \in Nat,
           \A k \in 1 .. Len(pairs) : base + pairs[k][1] \in A /\ pairs[k][2] \in Nat
    PROVE  LET s == Stores(base, pairs) IN
           /\ OnlyStores(s, A) /\ Len(s) = Len(pairs)
           /\ \A k \in 1 .. Len(pairs) : s[k] = Write_(base + pairs[k][1], pairs[k][2])
<1> DEFINE s == Stores(base, pairs)
<1>1. s = [k \in 1 .. Len(pairs) |-> Write_(base + pairs[k][1], pairs[k][2])]
  BY DEF Stores, writel, Write_
<1>2. \A k \in 1 .. Len(pairs) : Write_(base + pairs[k][1], pairs[k][2]) \in Statements
  BY DEF Write_, Statements
<1>3. s \in Seq(Statements) /\ Len(s) = Len(pairs)
  BY <1>1, <1>2
<1>4. \A k \in 1 .. Len(pairs) : s[k] = Write_(base + pairs[k][1], pairs[k][2])
  BY <1>1
<1> HIDE DEF s
<1>5. ASSUME NEW k \in 1 .. Len(pairs)
      PROVE  s[k].do = "write" /\ s[k].reg \in A
  <2>1. s[k] = Write_(base + pairs[k][1], pairs[k][2]) /\ base + pairs[k][1] \in A
    BY <1>4
  <2> QED
    BY <2>1 DEF Write_
<1>6. OnlyStores(s, A)
  BY <1>3, <1>5 DEF OnlyStores
<1> QED
  BY <1>3, <1>4, <1>6 DEF s

LEMMA StorePart ==
    ASSUME NEW A \in SUBSET Nat, NEW a \in A, NEW v \in Nat
    PROVE  OnlyStores(writel(v, a), A) /\ Len(writel(v, a)) = 1 /\ writel(v, a)[1] = Write_(a, v)
<1>1. Write_(a, v) \in Statements /\ writel(v, a) = <<Write_(a, v)>>
  BY DEF Write_, Statements, writel
<1> QED
  BY <1>1, One DEF OnlyStores, Write_

LEMMA StoresJoined ==
    ASSUME NEW A, NEW s, NEW t, OnlyStores(s, A), OnlyStores(t, A)
    PROVE  OnlyStores(s \o t, A) /\ Len(s \o t) = Len(s) + Len(t) /\ IsJoin(s \o t, s, t)
<1>1. IsJoin(s \o t, s, t)
  BY JoinIsJoin, Zenon DEF OnlyStores
<1> DEFINE u == s \o t
<1> HIDE DEF u
<1>2. ASSUME NEW k \in 1 .. Len(u)
      PROVE  u[k].do = "write" /\ u[k].reg \in A
  <2>1. CASE k <= Len(s)
    BY <2>1, <1>1 DEF u, IsJoin, OnlyStores
  <2>2. CASE k > Len(s)
    <3>1. k - Len(s) \in 1 .. Len(t) /\ u[k] = t[k - Len(s)]
      BY <2>2, <1>1 DEF u, IsJoin
    <3> QED
      BY <3>1 DEF OnlyStores
  <2> QED
    BY <2>1, <2>2, <1>1 DEF u, IsJoin
<1> QED
  BY <1>1, <1>2 DEF u, IsJoin, OnlyStores

-----------------------------------------------------------------------------
(* Where the stores of config_ddr go, but for the calibration register. *)
DdrRegisters == {a \in Nat : (\h44E10F00 <= a /\ a <= \h4C000FFF) \/ a = \h44E10110}

DdrBases == {DDR_PHY_CMD_ADDR, DDR_PHY_DATA_ADDR[1], DDR_PHY_DATA_ADDR[2],
             DDR_CONTROL_BASE_ADDR, EMIF4_0_CFG_BASE}

LEMMA DdrBlocks ==
    /\ DdrRegisters \in SUBSET Nat
    /\ \A b \in DdrBases : b \in Nat /\ \A k \in 0 .. 300 : b + k \in DdrRegisters
<1>1. DdrRegisters \in SUBSET Nat
  BY SMTT(10) DEF DdrRegisters
<1>2. \A b \in Nat : \h44E11000 <= b /\ b <= \h4C000000 =>
          \A k \in 0 .. 300 : b + k \in DdrRegisters
  BY SMTT(10) DEF DdrRegisters
<1>3. \A b \in {DDR_PHY_CMD_ADDR, DDR_CONTROL_BASE_ADDR, EMIF4_0_CFG_BASE} :
          b \in Nat /\ \h44E11000 <= b /\ b <= \h4C000000
  BY SMTT(10) DEF DDR_PHY_CMD_ADDR, DDR_CONTROL_BASE_ADDR, EMIF4_0_CFG_BASE
<1>4. \A b \in {DDR_PHY_DATA_ADDR[1], DDR_PHY_DATA_ADDR[2]} :
          b \in Nat /\ \h44E11000 <= b /\ b <= \h4C000000
  BY SMTT(10) DEF DDR_PHY_DATA_ADDR
<1>5. \A b \in DdrBases : b \in Nat /\ \h44E11000 <= b /\ b <= \h4C000000
  BY <1>3, <1>4, SMTT(10) DEF DdrBases
<1> QED
  BY <1>1, <1>2, <1>5, SMTT(60)

LEMMA DdrStores ==
    ASSUME NEW n \in Nat, NEW base \in DdrBases, NEW pairs, Len(pairs) = n,
           \A k \in 1 .. n : pairs[k][1] \in 0 .. 300 /\ pairs[k][2] \in Nat
    PROVE  OnlyStores(Stores(base, pairs), DdrRegisters) /\ Len(Stores(base, pairs)) = n
<1>1. \A k \in 1 .. n : base + pairs[k][1] \in DdrRegisters /\ pairs[k][2] \in Nat
  BY DdrBlocks
<1>2. base \in Nat /\ DdrRegisters \in SUBSET Nat /\ Len(pairs) \in Nat
  BY DdrBlocks
<1> HIDE DEF Stores
<1>3. \A k \in 1 .. Len(pairs) : base + pairs[k][1] \in DdrRegisters /\ pairs[k][2] \in Nat
  BY <1>1
<1> QED
  BY <1>2, <1>3, StoresPart, Zenon

LEMMA CmdPart ==
    LET s == config_cmd_ctrl(ddr3_evm_cmd_ctrl_data) IN
    OnlyStores(s, DdrRegisters) /\ Len(s) = 6
<1> DEFINE cmd == ddr3_evm_cmd_ctrl_data
           pairs == << <<\h1C, cmd.csratio>>, <<\h2C, cmd.iclkout>>,
                       <<\h50, cmd.csratio>>, <<\h60, cmd.iclkout>>,
                       <<\h84, cmd.csratio>>, <<\h94, cmd.iclkout>> >>
<1>1. config_cmd_ctrl(cmd) = Stores(DDR_PHY_CMD_ADDR, pairs)
  BY DEF config_cmd_ctrl
<1>2. cmd.csratio \in Nat /\ cmd.iclkout \in Nat
  BY SMTT(10) DEF ddr3_evm_cmd_ctrl_data
<1> HIDE DEF cmd
<1>3. Len(pairs) = 6 /\ \A k \in 1 .. 6 : pairs[k][1] \in 0 .. 300 /\ pairs[k][2] \in Nat
  BY <1>2, SMTT(10)
<1> HIDE DEF pairs
<1>4. DDR_PHY_CMD_ADDR \in DdrBases /\ 6 \in Nat
  BY DEF DdrBases
<1>5. LET s == Stores(DDR_PHY_CMD_ADDR, pairs) IN OnlyStores(s, DdrRegisters) /\ Len(s) = 6
  BY <1>3, <1>4, DdrStores, Zenon
<1> QED
  BY <1>1, <1>5, Zenon DEF cmd

LEMMA VtpPart ==
    LET s == config_vtp IN
    /\ s \in Seq(Statements) /\ Len(s) = 4
    /\ s[1] = [do |-> "set", reg |-> VTP0_CTRL_ADDR, bit |-> 64]
    /\ s[2] = [do |-> "clear", reg |-> VTP0_CTRL_ADDR, bit |-> 1]
    /\ s[3] = [do |-> "set", reg |-> VTP0_CTRL_ADDR, bit |-> 1]
    /\ s[4] = Spin_("vtp", VTP0_CTRL_ADDR)
<1> DEFINE a == [do |-> "set", reg |-> VTP0_CTRL_ADDR, bit |-> 64]
           b == [do |-> "clear", reg |-> VTP0_CTRL_ADDR, bit |-> 1]
           c == [do |-> "set", reg |-> VTP0_CTRL_ADDR, bit |-> 1]
           d == Spin_("vtp", VTP0_CTRL_ADDR)
<1>1. a \in Statements /\ b \in Statements /\ c \in Statements /\ d \in Statements
  BY SMTT(10) DEF Statements, Spin_, VTP0_CTRL_ADDR
<1>2. config_vtp = <<a>> \o <<b>> \o <<c>> \o <<d>>
  BY DEF config_vtp, SetBits, ClearBits, Spin, Spin_, VTP_CTRL_ENABLE, VTP_CTRL_START_EN
<1> HIDE DEF a, b, c, d
<1>3. LET s == <<a>> \o <<b>> \o <<c>> \o <<d>> IN
      s \in Seq(Statements) /\ Len(s) = 4 /\ s[1] = a /\ s[2] = b /\ s[3] = c /\ s[4] = d
  BY <1>1, Four
<1>4. LET s == config_vtp IN
      s \in Seq(Statements) /\ Len(s) = 4 /\ s[1] = a /\ s[2] = b /\ s[3] = c /\ s[4] = d
  BY <1>2, <1>3
<1> QED
  BY <1>4, SMTT(10) DEF a, b, c, d

LEMMA DataPart ==
    LET s == config_ddr_data(ddr3_evm_data) IN
    OnlyStores(s, DdrRegisters) /\ Len(s) = 12
<1> DEFINE data == ddr3_evm_data
           pairs == << <<\hC8, data.rdsratio>>, <<\hDC, data.wdsratio>>,
                       <<\hF0, data.wiratio>>, <<\hFC, data.giratio>>,
                       <<\h108, data.fwsratio>>, <<\h120, data.wrsratio>> >>
<1>1. config_ddr_data(data)
        = Stores(DDR_PHY_DATA_ADDR[1], pairs) \o Stores(DDR_PHY_DATA_ADDR[2], pairs)
  BY DEF config_ddr_data
<1>2. {data.rdsratio, data.wdsratio, data.wiratio, data.giratio, data.fwsratio, data.wrsratio}
        \subseteq Nat
  BY SMTT(10) DEF ddr3_evm_data
<1> HIDE DEF data
<1>3. Len(pairs) = 6 /\ \A k \in 1 .. 6 : pairs[k][1] \in 0 .. 300 /\ pairs[k][2] \in Nat
  BY <1>2, SMTT(10)
<1> HIDE DEF pairs
<1>4. DDR_PHY_DATA_ADDR[1] \in DdrBases /\ DDR_PHY_DATA_ADDR[2] \in DdrBases /\ 6 \in Nat
  BY DEF DdrBases
<1>5. /\ LET s == Stores(DDR_PHY_DATA_ADDR[1], pairs) IN OnlyStores(s, DdrRegisters) /\ Len(s) = 6
      /\ LET s == Stores(DDR_PHY_DATA_ADDR[2], pairs) IN OnlyStores(s, DdrRegisters) /\ Len(s) = 6
  BY <1>3, <1>4, DdrStores, Zenon
<1>6. LET s == Stores(DDR_PHY_DATA_ADDR[1], pairs)
          t == Stores(DDR_PHY_DATA_ADDR[2], pairs)
      IN  OnlyStores(s \o t, DdrRegisters) /\ Len(s \o t) = Len(s) + Len(t)
  BY <1>5, StoresJoined, ZenonT(60)
<1> QED
  BY <1>1, <1>5, <1>6 DEF data

LEMMA IoPart ==
    ASSUME NEW v \in Nat
    PROVE  LET s == config_io_ctrl(v) IN OnlyStores(s, DdrRegisters) /\ Len(s) = 5
<1> DEFINE pairs == << <<0, v>>, <<4, v>>, <<8, v>>, <<\h3C, v>>, <<\h40, v>> >>
<1>1. config_io_ctrl(v) = Stores(DDR_CONTROL_BASE_ADDR, pairs)
  BY DEF config_io_ctrl
<1>3. Len(pairs) = 5 /\ \A k \in 1 .. 5 : pairs[k][1] \in 0 .. 300 /\ pairs[k][2] \in Nat
  BY SMTT(10)
<1> HIDE DEF pairs
<1>4. DDR_CONTROL_BASE_ADDR \in DdrBases /\ 5 \in Nat
  BY DEF DdrBases
<1>5. LET s == Stores(DDR_CONTROL_BASE_ADDR, pairs) IN OnlyStores(s, DdrRegisters) /\ Len(s) = 5
  BY <1>3, <1>4, DdrStores, Zenon
<1> QED
  BY <1>1, <1>5, Zenon

(* The numbers of the memory chips. *)
LEMMA EmifNumbers ==
    LET e == ddr3_evm_emif_reg_data IN
    /\ {e.sdram_config, e.ref_ctrl, e.sdram_tim1, e.sdram_tim2, e.sdram_tim3, e.zq_config,
        e.phy_ctlr_1} \subseteq Nat
    /\ e.int_config = 0 /\ e.zq_config # 0
  BY SMTT(10) DEF ddr3_evm_emif_reg_data

LEMMA PhyPart ==
    ASSUME NEW emif, emif.phy_ctlr_1 \in Nat
    PROVE  LET s == config_ddr_phy(emif) IN OnlyStores(s, DdrRegisters) /\ Len(s) = 2
<1> DEFINE pairs == << <<\hE8, emif.phy_ctlr_1>>, <<\hEC, emif.phy_ctlr_1>> >>
<1>1. config_ddr_phy(emif) = Stores(EMIF4_0_CFG_BASE, pairs)
  BY DEF config_ddr_phy
<1>3. Len(pairs) = 2 /\ \A k \in 1 .. 2 : pairs[k][1] \in 0 .. 300 /\ pairs[k][2] \in Nat
  BY SMTT(10)
<1> HIDE DEF pairs
<1>4. EMIF4_0_CFG_BASE \in DdrBases /\ 2 \in Nat
  BY DEF DdrBases
<1>5. LET s == Stores(EMIF4_0_CFG_BASE, pairs) IN OnlyStores(s, DdrRegisters) /\ Len(s) = 2
  BY <1>3, <1>4, DdrStores, Zenon
<1> QED
  BY <1>1, <1>5, Zenon

LEMMA TimingsPart ==
    ASSUME NEW emif, emif.sdram_tim1 \in Nat, emif.sdram_tim2 \in Nat, emif.sdram_tim3 \in Nat
    PROVE  LET s == set_sdram_timings(emif) IN OnlyStores(s, DdrRegisters) /\ Len(s) = 6
<1> DEFINE pairs == << <<\h18, emif.sdram_tim1>>, <<\h1C, emif.sdram_tim1>>,
                       <<\h20, emif.sdram_tim2>>, <<\h24, emif.sdram_tim2>>,
                       <<\h28, emif.sdram_tim3>>, <<\h2C, emif.sdram_tim3>> >>
<1>1. set_sdram_timings(emif) = Stores(EMIF4_0_CFG_BASE, pairs)
  BY DEF set_sdram_timings
<1>3. Len(pairs) = 6 /\ \A k \in 1 .. 6 : pairs[k][1] \in 0 .. 300 /\ pairs[k][2] \in Nat
  BY SMTT(10)
<1> HIDE DEF pairs
<1>4. EMIF4_0_CFG_BASE \in DdrBases /\ 6 \in Nat
  BY DEF DdrBases
<1>5. LET s == Stores(EMIF4_0_CFG_BASE, pairs) IN OnlyStores(s, DdrRegisters) /\ Len(s) = 6
  BY <1>3, <1>4, DdrStores, Zenon
<1> QED
  BY <1>1, <1>5, Zenon

LEMMA SdramPart ==
    ASSUME NEW emif, emif.sdram_config \in Nat, emif.ref_ctrl \in Nat, emif.zq_config \in Nat,
           emif.zq_config # 0, emif.int_config = 0
    PROVE  LET s == config_sdram(emif) IN OnlyStores(s, DdrRegisters) /\ Len(s) = 10
<1> DEFINE p == << <<\h10, \h2800>>, <<\hCC, emif.zq_config>> >>
           q == << <<\h08, emif.sdram_config>>, <<\h10, emif.ref_ctrl>>,
                   <<\h14, emif.ref_ctrl>> >>
           r == << <<\h54, IF emif.int_config = 0 THEN \h00FFFF10 ELSE emif.int_config>>,
                   <<\h10, emif.ref_ctrl>>, <<\h14, emif.ref_ctrl>>,
                   <<\h08, emif.sdram_config>> >>
           w == writel(emif.sdram_config, SECURE_EMIF_SDRAM_CONFIG)
           B == EMIF4_0_CFG_BASE
<1>1. config_sdram(emif) = (Stores(B, p) \o w \o Stores(B, q)) \o Stores(B, r)
  BY SMTT(60) DEF config_sdram
<1>2. /\ Len(p) = 2 /\ \A k \in 1 .. 2 : p[k][1] \in 0 .. 300 /\ p[k][2] \in Nat
      /\ Len(q) = 3 /\ \A k \in 1 .. 3 : q[k][1] \in 0 .. 300 /\ q[k][2] \in Nat
      /\ Len(r) = 4 /\ \A k \in 1 .. 4 : r[k][1] \in 0 .. 300 /\ r[k][2] \in Nat
  BY SMTT(10)
<1>3. SECURE_EMIF_SDRAM_CONFIG \in DdrRegisters
  BY SMTT(10) DEF SECURE_EMIF_SDRAM_CONFIG, DdrRegisters, CTRL_BASE
<1> HIDE DEF p, q, r
<1>4. B \in DdrBases /\ 2 \in Nat /\ 3 \in Nat /\ 4 \in Nat
  BY DEF DdrBases
<1>5. OnlyStores(w, DdrRegisters) /\ Len(w) = 1
  BY <1>3, DdrBlocks, StorePart
<1> HIDE DEF w, B
<1> DEFINE sp == Stores(B, p)
           sq == Stores(B, q)
           sr == Stores(B, r)
<1>6. OnlyStores(sp, DdrRegisters) /\ Len(sp) = 2
  BY <1>2, <1>4, DdrStores, Zenon
<1>7. OnlyStores(sq, DdrRegisters) /\ Len(sq) = 3
  BY <1>2, <1>4, DdrStores, Zenon
<1>8. OnlyStores(sr, DdrRegisters) /\ Len(sr) = 4
  BY <1>2, <1>4, DdrStores, Zenon
<1> HIDE DEF sp, sq, sr
<1>9. OnlyStores(sp \o w, DdrRegisters) /\ Len(sp \o w) = Len(sp) + Len(w)
  BY <1>5, <1>6, StoresJoined, ZenonT(60)
<1>10. /\ OnlyStores(sp \o w \o sq, DdrRegisters)
       /\ Len(sp \o w \o sq) = Len(sp \o w) + Len(sq)
  BY <1>7, <1>9, StoresJoined, ZenonT(60)
<1>11. /\ OnlyStores(sp \o w \o sq \o sr, DdrRegisters)
       /\ Len(sp \o w \o sq \o sr) = Len(sp \o w \o sq) + Len(sr)
  BY <1>8, <1>10, StoresJoined, ZenonT(60)
<1>12. Len(sp \o w \o sq \o sr) = 10
  BY <1>5, <1>6, <1>7, <1>8, <1>9, <1>10, <1>11, SMTT(10)
<1>13. config_sdram(emif) = sp \o w \o sq \o sr
  BY <1>1, Zenon DEF sp, sq, sr
<1> QED
  BY <1>11, <1>12, <1>13, Zenon

(* config_ddr: the calibration, and then the stores. *)
LEMMA DdrPart ==
    LET s == config_ddr(\h18B, ddr3_evm_data, ddr3_evm_cmd_ctrl_data, ddr3_evm_emif_reg_data) IN
    /\ s \in Seq(Statements) /\ Len(s) = 46
    /\ \A k \in 1 .. 4 : s[k] = config_vtp[k]
    /\ \A k \in 5 .. 46 : s[k].do = "write" /\ s[k].reg \in DdrRegisters
<1> DEFINE v == config_vtp
           a == config_cmd_ctrl(ddr3_evm_cmd_ctrl_data)
           b == config_ddr_data(ddr3_evm_data)
           c == config_io_ctrl(\h18B)
           d == writel(1, DDR_CTRL_ADDR + \h514)
           e == config_ddr_phy(ddr3_evm_emif_reg_data)
           f == set_sdram_timings(ddr3_evm_emif_reg_data)
           g == config_sdram(ddr3_evm_emif_reg_data)
<1>1. config_ddr(\h18B, ddr3_evm_data, ddr3_evm_cmd_ctrl_data, ddr3_evm_emif_reg_data)
        = v \o a \o b \o c \o d \o e \o f \o g
  BY DEF config_ddr
<1>2. v \in Seq(Statements) /\ Len(v) = 4
  BY VtpPart, SMTT(10)
<1>3. OnlyStores(a, DdrRegisters) /\ Len(a) = 6
  BY CmdPart, Zenon
<1>4. OnlyStores(b, DdrRegisters) /\ Len(b) = 12
  BY DataPart, Zenon
<1>5. OnlyStores(c, DdrRegisters) /\ Len(c) = 5
  BY IoPart, SMTT(10)
<1>6. OnlyStores(d, DdrRegisters) /\ Len(d) = 1
  <2>1. DDR_CTRL_ADDR + \h514 \in DdrRegisters
    BY SMTT(10) DEF DDR_CTRL_ADDR, DdrRegisters
  <2>2. DdrRegisters \in SUBSET Nat /\ 1 \in Nat
    BY DdrBlocks
  <2>3. \A x \in DdrRegisters : OnlyStores(writel(1, x), DdrRegisters) /\ Len(writel(1, x)) = 1
    BY <2>2, StorePart
  <2> QED
    BY <2>1, <2>3, SMTT(10)
<1>7. OnlyStores(e, DdrRegisters) /\ Len(e) = 2
  BY PhyPart, EmifNumbers, SMTT(10)
<1>8. OnlyStores(f, DdrRegisters) /\ Len(f) = 6
  BY TimingsPart, EmifNumbers, SMTT(10)
<1>9. OnlyStores(g, DdrRegisters) /\ Len(g) = 10
  BY SdramPart, EmifNumbers, SMTT(10)
<1> HIDE DEF v, a, b, c, d, e, f, g
<1> DEFINE Good(s) ==
        /\ s \in Seq(Statements) /\ Len(s) >= 4
        /\ \A k \in 1 .. 4 : s[k] = v[k]
        /\ \A k \in 5 .. Len(s) : s[k].do = "write" /\ s[k].reg \in DdrRegisters
<1>10. ASSUME NEW s, NEW t, Good(s), OnlyStores(t, DdrRegisters)
       PROVE  Good(s \o t) /\ Len(s \o t) = Len(s) + Len(t)
  <2>1. IsJoin(s \o t, s, t)
    BY <1>10, JoinIsJoin, Zenon DEF OnlyStores
  <2> DEFINE u == s \o t
             n == Len(s)
             m == Len(t)
  <2> HIDE DEF u
  <2>2. /\ u \in Seq(Statements) /\ Len(u) = n + m /\ \A k \in 1 .. n : u[k] = s[k]
        /\ n \in Nat /\ m \in Nat
    BY <2>1, <1>10 DEF u, IsJoin
  <2>3. ASSUME NEW k \in n + 1 .. n + m PROVE u[k].do = "write" /\ u[k].reg \in DdrRegisters
    <3>1. k - n \in 1 .. m /\ u[k] = t[k - n]
      BY <2>1, <1>10 DEF u, IsJoin
    <3> QED
      BY <3>1, <1>10 DEF OnlyStores
  <2> HIDE DEF n, m
  <2>4. n >= 4
    BY <1>10 DEF n
  <2>5. \A k \in 1 .. 4 : u[k] = v[k]
    BY <2>2, <2>4, <1>10, SMTT(30)
  <2>6. \A k \in 5 .. n : s[k].do = "write" /\ s[k].reg \in DdrRegisters
    BY <1>10 DEF n
  <2>7. \A k \in 5 .. n + m : u[k].do = "write" /\ u[k].reg \in DdrRegisters
    BY <2>2, <2>3, <2>4, <2>6
  <2>8. Good(u)
    BY <2>2, <2>4, <2>5, <2>7
  <2> QED
    BY <2>2, <2>8 DEF u, n, m
<1>11. Good(v)
  BY <1>2
<1> HIDE DEF Good
<1>12. Good(v \o a) /\ Len(v \o a) = Len(v) + Len(a)
  BY <1>3, <1>11, <1>10, Zenon
<1>13. Good(v \o a \o b) /\ Len(v \o a \o b) = Len(v \o a) + Len(b)
  BY <1>4, <1>12, <1>10, Zenon
<1>14. Good(v \o a \o b \o c) /\ Len(v \o a \o b \o c) = Len(v \o a \o b) + Len(c)
  BY <1>5, <1>13, <1>10, Zenon
<1>15. /\ Good(v \o a \o b \o c \o d)
       /\ Len(v \o a \o b \o c \o d) = Len(v \o a \o b \o c) + Len(d)
  BY <1>6, <1>14, <1>10, Zenon
<1>16. /\ Good(v \o a \o b \o c \o d \o e)
       /\ Len(v \o a \o b \o c \o d \o e) = Len(v \o a \o b \o c \o d) + Len(e)
  BY <1>7, <1>15, <1>10, Zenon
<1>17. /\ Good(v \o a \o b \o c \o d \o e \o f)
       /\ Len(v \o a \o b \o c \o d \o e \o f) = Len(v \o a \o b \o c \o d \o e) + Len(f)
  BY <1>8, <1>16, <1>10, Zenon
<1>18. /\ Good(v \o a \o b \o c \o d \o e \o f \o g)
       /\ Len(v \o a \o b \o c \o d \o e \o f \o g)
            = Len(v \o a \o b \o c \o d \o e \o f) + Len(g)
  BY <1>9, <1>17, <1>10, Zenon
<1>19. Len(v \o a \o b \o c \o d \o e \o f \o g) = 46
  BY <1>2, <1>3, <1>4, <1>5, <1>6, <1>7, <1>8, <1>9,
     <1>12, <1>13, <1>14, <1>15, <1>16, <1>17, <1>18, SMTT(10)
<1> DEFINE s == v \o a \o b \o c \o d \o e \o f \o g
<1>20. Good(s) /\ Len(s) = 46
  BY <1>18, <1>19
<1> HIDE DEF s
<1>21. /\ s \in Seq(Statements) /\ Len(s) = 46
       /\ \A k \in 1 .. 4 : s[k] = v[k]
       /\ \A k \in 5 .. 46 : s[k].do = "write" /\ s[k].reg \in DdrRegisters
  BY <1>20 DEF Good
<1>22. config_ddr(\h18B, ddr3_evm_data, ddr3_evm_cmd_ctrl_data, ddr3_evm_emif_reg_data) = s
  BY <1>1 DEF s
<1> QED
  BY <1>21, <1>22, ZenonT(60) DEF v

-----------------------------------------------------------------------------
Pads == {pad_signals[k] : k \in 1 .. 105}

LEMMA PadRegisters ==
    \A p \in Pads : pin[p] \in Nat /\ PAD_CR <= pin[p] /\ pin[p] <= PAD_CR + 416
                    /\ (p # "gpmc_ad0" => pin[p] >= PAD_CR + 4)
<1>1. DOMAIN pad_signals = 1 .. 105
  BY SMTT(30) DEF pad_signals
<1>2. pad_signals[1] = "gpmc_ad0"
  BY SMTT(30) DEF pad_signals
<1> TAKE p \in Pads
<1> DEFINE c == CHOOSE k \in 1 .. 105 : pad_signals[k] = p
<1>3. c \in 1 .. 105 /\ pad_signals[c] = p
  BY DEF Pads
<1>4. pin[p] = PAD_CR + 4 * (c - 1)
  BY <1>1 DEF pin, Pads
<1> HIDE DEF c
<1>5. p # "gpmc_ad0" => c # 1
  BY <1>2, <1>3
<1> QED
  BY <1>3, <1>4, <1>5, SMTT(10) DEF PAD_CR

LEMMA FirstPad == pin["gpmc_ad0"] = PAD_CR
<1>1. DOMAIN pad_signals = 1 .. 105 /\ pad_signals[1] = "gpmc_ad0"
  BY SMTT(30) DEF pad_signals
<1>2. \A k \in 1 .. 105 : pad_signals[k] = "gpmc_ad0" => k = 1
  BY SMTT(30) DEF pad_signals
<1> DEFINE c == CHOOSE k \in 1 .. 105 : pad_signals[k] = "gpmc_ad0"
<1>3. c \in 1 .. 105 /\ pad_signals[c] = "gpmc_ad0"
  <2>1. 1 \in 1 .. 105 /\ pad_signals[1] = "gpmc_ad0"
    BY <1>1
  <2> QED
    BY <2>1, Zenon
<1>4. pin["gpmc_ad0"] = PAD_CR + 4 * (c - 1)
  BY <1>1 DEF pin
<1> HIDE DEF c
<1> QED
  BY <1>2, <1>3, <1>4, SMTT(10) DEF PAD_CR

LEMMA PadsUsed ==
    {"gpmc_ad0", "gpmc_ad1", "gpmc_ad2", "gpmc_ad3", "gpmc_ad4", "gpmc_ad5",
     "gpmc_ad6", "gpmc_ad7", "gpmc_wait0", "gpmc_wpn", "gpmc_csn0", "gpmc_advn_ale",
     "gpmc_oen_ren", "gpmc_wen", "gpmc_be0n_cle", "mmc0_dat3", "mmc0_dat2",
     "mmc0_dat1", "mmc0_dat0", "mmc0_clk", "mmc0_cmd", "mii1_txen", "mii1_rxdv",
     "mii1_txd3", "mii1_txd2", "mii1_txd1", "mii1_txd0", "mii1_txclk", "mii1_rxclk",
     "mii1_rxd3", "mii1_rxd2", "mii1_rxd1", "mii1_rxd0", "mdio_data", "mdio_clk",
     "spi0_d1", "spi0_cs0", "spi0_cs1", "i2c0_sda", "i2c0_scl", "mcasp0_aclkr"} \subseteq Pads
<1>1. DOMAIN pad_signals = 1 .. 105
  BY SMTT(30) DEF pad_signals
<1>2. /\ pad_signals[1] = "gpmc_ad0"
      /\ pad_signals[2] = "gpmc_ad1"
      /\ pad_signals[3] = "gpmc_ad2"
      /\ pad_signals[4] = "gpmc_ad3"
      /\ pad_signals[5] = "gpmc_ad4"
      /\ pad_signals[6] = "gpmc_ad5"
      /\ pad_signals[7] = "gpmc_ad6"
      /\ pad_signals[8] = "gpmc_ad7"
      /\ pad_signals[29] = "gpmc_wait0"
      /\ pad_signals[30] = "gpmc_wpn"
      /\ pad_signals[32] = "gpmc_csn0"
      /\ pad_signals[37] = "gpmc_advn_ale"
      /\ pad_signals[38] = "gpmc_oen_ren"
      /\ pad_signals[39] = "gpmc_wen"
  BY SMTT(30) DEF pad_signals
<1>3. /\ pad_signals[40] = "gpmc_be0n_cle"
      /\ pad_signals[61] = "mmc0_dat3"
      /\ pad_signals[62] = "mmc0_dat2"
      /\ pad_signals[63] = "mmc0_dat1"
      /\ pad_signals[64] = "mmc0_dat0"
      /\ pad_signals[65] = "mmc0_clk"
      /\ pad_signals[66] = "mmc0_cmd"
      /\ pad_signals[70] = "mii1_txen"
      /\ pad_signals[71] = "mii1_rxdv"
      /\ pad_signals[72] = "mii1_txd3"
      /\ pad_signals[73] = "mii1_txd2"
      /\ pad_signals[74] = "mii1_txd1"
      /\ pad_signals[75] = "mii1_txd0"
      /\ pad_signals[76] = "mii1_txclk"
  BY SMTT(30) DEF pad_signals
<1>4. /\ pad_signals[77] = "mii1_rxclk"
      /\ pad_signals[78] = "mii1_rxd3"
      /\ pad_signals[79] = "mii1_rxd2"
      /\ pad_signals[80] = "mii1_rxd1"
      /\ pad_signals[81] = "mii1_rxd0"
      /\ pad_signals[83] = "mdio_data"
      /\ pad_signals[84] = "mdio_clk"
      /\ pad_signals[87] = "spi0_d1"
      /\ pad_signals[88] = "spi0_cs0"
      /\ pad_signals[89] = "spi0_cs1"
      /\ pad_signals[99] = "i2c0_sda"
      /\ pad_signals[100] = "i2c0_scl"
      /\ pad_signals[105] = "mcasp0_aclkr"
  BY SMTT(30) DEF pad_signals
<1> QED
  BY <1>2, <1>3, <1>4, SMTT(30) DEF Pads

PadEntries == [pad : Pads, val : Nat]

LEMMA EntriesPart ==
    ASSUME NEW ps \in Seq(Pads), NEW v \in Nat
    PROVE  /\ Entries(ps, v) \in Seq(PadEntries) /\ Len(Entries(ps, v)) = Len(ps)
           /\ \A k \in 1 .. Len(ps) : Entries(ps, v)[k] = [pad |-> ps[k], val |-> v]
  BY DEF Entries, PadEntries

(* A list of pads without the first. *)
NotFirst(m) == /\ m \in Seq(PadEntries)
               /\ \A k \in 1 .. Len(m) : m[k].pad # "gpmc_ad0"

LEMMA NotFirstEntry ==
    ASSUME NEW p \in Pads \ {"gpmc_ad0"}, NEW v \in Nat
    PROVE  NotFirst(Entry(p, v)) /\ Len(Entry(p, v)) = 1
<1>1. Entry(p, v) = <<[pad |-> p, val |-> v]>> /\ [pad |-> p, val |-> v] \in PadEntries
  BY DEF Entry, PadEntries
<1> QED
  BY <1>1, One DEF NotFirst

LEMMA NotFirstEntries ==
    ASSUME NEW ps \in Seq(Pads), NEW v \in Nat, \A k \in 1 .. Len(ps) : ps[k] # "gpmc_ad0"
    PROVE  NotFirst(Entries(ps, v)) /\ Len(Entries(ps, v)) = Len(ps)
<1> DEFINE s == Entries(ps, v)
<1>1. /\ s \in Seq(PadEntries) /\ Len(s) = Len(ps)
      /\ \A k \in 1 .. Len(ps) : s[k] = [pad |-> ps[k], val |-> v]
  BY EntriesPart
<1> HIDE DEF s
<1>2. ASSUME NEW k \in 1 .. Len(ps) PROVE s[k].pad # "gpmc_ad0"
  <2>1. s[k] = [pad |-> ps[k], val |-> v] /\ ps[k] # "gpmc_ad0"
    BY <1>1
  <2> QED
    BY <2>1
<1>3. NotFirst(s)
  BY <1>1, <1>2 DEF NotFirst
<1> QED
  BY <1>1, <1>3 DEF s

LEMMA NotFirstJoined ==
    ASSUME NEW s, NEW t, NotFirst(s), NotFirst(t)
    PROVE  NotFirst(s \o t) /\ Len(s \o t) = Len(s) + Len(t)
<1> DEFINE u == s \o t
<1>1. /\ u \in Seq(PadEntries) /\ Len(u) = Len(s) + Len(t)
      /\ Len(s) \in Nat /\ Len(t) \in Nat
      /\ \A k \in 1 .. Len(s) : u[k] = s[k]
      /\ \A k \in Len(s) + 1 .. Len(s) + Len(t) : u[k] = t[k - Len(s)]
  BY Joined, Zenon DEF NotFirst
<1> HIDE DEF u
<1>2. ASSUME NEW k \in 1 .. Len(u)
      PROVE  u[k].pad # "gpmc_ad0"
  <2>1. CASE k <= Len(s)
    BY <2>1, <1>1 DEF NotFirst
  <2>2. CASE k > Len(s)
    <3>1. k - Len(s) \in 1 .. Len(t) /\ u[k] = t[k - Len(s)]
      BY <2>2, <1>1
    <3> QED
      BY <3>1 DEF NotFirst
  <2> QED
    BY <2>1, <2>2, <1>1
<1>3. NotFirst(u)
  BY <1>1, <1>2 DEF NotFirst
<1> QED
  BY <1>1, <1>3 DEF u

LEMMA FlagNumbers ==
    /\ {2, 2 + RXACTIVE, RXACTIVE + PULLUP_EN, PULLUP_EN, 4 + RXACTIVE,
        5 + RXACTIVE + PULLUP_EN, RXACTIVE + PULLUDEN + SLEWCTRL,
        2 + RXACTIVE + PULLUDEN + SLEWCTRL, PULLUP_EN + RXACTIVE, 7 + PULLUP_EN + RXACTIVE,
        PULLUDEN} \subseteq Nat
    /\ PULLUP_EN + RXACTIVE = 48
  BY SMTT(10) DEF RXACTIVE, PULLUP_EN, PULLUDEN, SLEWCTRL

(* The pads before those of the NAND. *)
LEMMA OtherPads ==
    LET m == rgmii1_pin_mux \o mmc0_pin_mux \o i2c0_pin_mux \o i2c1_pin_mux IN
    NotFirst(m) /\ Len(m) = 26
<1> DEFINE a1 == Entry("mii1_txen", 2)
           a2 == Entry("mii1_rxdv", 2 + RXACTIVE)
           a3 == Entries(<<"mii1_txd3", "mii1_txd2", "mii1_txd1", "mii1_txd0",
                           "mii1_txclk">>, 2)
           a4 == Entries(<<"mii1_rxclk", "mii1_rxd3", "mii1_rxd2", "mii1_rxd1",
                           "mii1_rxd0">>, 2 + RXACTIVE)
           a5 == Entry("mdio_data", RXACTIVE + PULLUP_EN)
           a6 == Entry("mdio_clk", PULLUP_EN)
           b1 == Entries(<<"mmc0_dat3", "mmc0_dat2", "mmc0_dat1", "mmc0_dat0", "mmc0_clk",
                           "mmc0_cmd">>, RXACTIVE + PULLUP_EN)
           b2 == Entry("mcasp0_aclkr", 4 + RXACTIVE)
           b3 == Entry("spi0_cs1", 5 + RXACTIVE + PULLUP_EN)
           c1 == Entries(<<"i2c0_sda", "i2c0_scl">>, RXACTIVE + PULLUDEN + SLEWCTRL)
           d1 == Entries(<<"spi0_d1", "spi0_cs0">>, 2 + RXACTIVE + PULLUDEN + SLEWCTRL)
<1>0. /\ rgmii1_pin_mux = a1 \o a2 \o a3 \o a4 \o a5 \o a6
      /\ mmc0_pin_mux = b1 \o b2 \o b3 /\ i2c0_pin_mux = c1 /\ i2c1_pin_mux = d1
  BY DEF rgmii1_pin_mux, mmc0_pin_mux, i2c0_pin_mux, i2c1_pin_mux
<1>1. /\ NotFirst(a1) /\ Len(a1) = 1 /\ NotFirst(a2) /\ Len(a2) = 1
      /\ NotFirst(a5) /\ Len(a5) = 1 /\ NotFirst(a6) /\ Len(a6) = 1
      /\ NotFirst(b2) /\ Len(b2) = 1 /\ NotFirst(b3) /\ Len(b3) = 1
  <2>1. {"mii1_txen", "mii1_rxdv", "mdio_data", "mdio_clk", "mcasp0_aclkr", "spi0_cs1"}
          \subseteq Pads \ {"gpmc_ad0"}
    BY PadsUsed
  <2>2. \A p \in Pads \ {"gpmc_ad0"}, v \in Nat : NotFirst(Entry(p, v)) /\ Len(Entry(p, v)) = 1
    BY NotFirstEntry
  <2> QED
    BY <2>1, <2>2, FlagNumbers
<1>2. NotFirst(a3) /\ Len(a3) = 5
  <2> DEFINE ps == <<"mii1_txd3", "mii1_txd2", "mii1_txd1", "mii1_txd0", "mii1_txclk">>
  <2>1. ps \in Seq(Pads) /\ Len(ps) = 5 /\ \A k \in 1 .. 5 : ps[k] # "gpmc_ad0"
    BY PadsUsed, SMTT(10)
  <2> HIDE DEF ps
  <2>2. NotFirst(Entries(ps, 2)) /\ Len(Entries(ps, 2)) = Len(ps)
    BY <2>1, FlagNumbers, NotFirstEntries
  <2> QED
    BY <2>1, <2>2 DEF ps
<1>3. NotFirst(a4) /\ Len(a4) = 5
  <2> DEFINE ps == <<"mii1_rxclk", "mii1_rxd3", "mii1_rxd2", "mii1_rxd1", "mii1_rxd0">>
  <2>1. ps \in Seq(Pads) /\ Len(ps) = 5 /\ \A k \in 1 .. 5 : ps[k] # "gpmc_ad0"
    BY PadsUsed, SMTT(10)
  <2> HIDE DEF ps
  <2>2. /\ NotFirst(Entries(ps, 2 + RXACTIVE))
        /\ Len(Entries(ps, 2 + RXACTIVE)) = Len(ps)
    BY <2>1, FlagNumbers, NotFirstEntries
  <2> QED
    BY <2>1, <2>2 DEF ps
<1>4. NotFirst(b1) /\ Len(b1) = 6
  <2> DEFINE ps == <<"mmc0_dat3", "mmc0_dat2", "mmc0_dat1", "mmc0_dat0", "mmc0_clk",
                     "mmc0_cmd">>
  <2>1. ps \in Seq(Pads) /\ Len(ps) = 6 /\ \A k \in 1 .. 6 : ps[k] # "gpmc_ad0"
    BY PadsUsed, SMTT(10)
  <2> HIDE DEF ps
  <2>2. /\ NotFirst(Entries(ps, RXACTIVE + PULLUP_EN))
        /\ Len(Entries(ps, RXACTIVE + PULLUP_EN)) = Len(ps)
    BY <2>1, FlagNumbers, NotFirstEntries
  <2> QED
    BY <2>1, <2>2 DEF ps
<1>5. NotFirst(c1) /\ Len(c1) = 2 /\ NotFirst(d1) /\ Len(d1) = 2
  <2> DEFINE ps == <<"i2c0_sda", "i2c0_scl">>
             qs == <<"spi0_d1", "spi0_cs0">>
  <2>1. /\ ps \in Seq(Pads) /\ Len(ps) = 2 /\ \A k \in 1 .. 2 : ps[k] # "gpmc_ad0"
        /\ qs \in Seq(Pads) /\ Len(qs) = 2 /\ \A k \in 1 .. 2 : qs[k] # "gpmc_ad0"
    BY PadsUsed, SMTT(10)
  <2> HIDE DEF ps, qs
  <2>2. /\ NotFirst(Entries(ps, RXACTIVE + PULLUDEN + SLEWCTRL))
        /\ Len(Entries(ps, RXACTIVE + PULLUDEN + SLEWCTRL)) = Len(ps)
    BY <2>1, FlagNumbers, NotFirstEntries
  <2>3. /\ NotFirst(Entries(qs, 2 + RXACTIVE + PULLUDEN + SLEWCTRL))
        /\ Len(Entries(qs, 2 + RXACTIVE + PULLUDEN + SLEWCTRL)) = Len(qs)
    BY <2>1, FlagNumbers, NotFirstEntries
  <2> QED
    BY <2>1, <2>2, <2>3 DEF ps, qs
<1> HIDE DEF a1, a2, a3, a4, a5, a6, b1, b2, b3, c1, d1
<1> DEFINE a == a1 \o a2 \o a3 \o a4 \o a5 \o a6
           b == b1 \o b2 \o b3
<1>6. NotFirst(a) /\ Len(a) = 14
  <2>1. NotFirst(a1 \o a2) /\ Len(a1 \o a2) = Len(a1) + Len(a2)
    BY <1>1, NotFirstJoined, Zenon
  <2>2. NotFirst(a1 \o a2 \o a3) /\ Len(a1 \o a2 \o a3) = Len(a1 \o a2) + Len(a3)
    BY <2>1, <1>2, NotFirstJoined, Zenon
  <2>3. NotFirst(a1 \o a2 \o a3 \o a4) /\ Len(a1 \o a2 \o a3 \o a4) = Len(a1 \o a2 \o a3) + Len(a4)
    BY <2>2, <1>3, NotFirstJoined, Zenon
  <2>4. /\ NotFirst(a1 \o a2 \o a3 \o a4 \o a5)
        /\ Len(a1 \o a2 \o a3 \o a4 \o a5) = Len(a1 \o a2 \o a3 \o a4) + Len(a5)
    BY <2>3, <1>1, NotFirstJoined, Zenon
  <2>5. NotFirst(a) /\ Len(a) = Len(a1 \o a2 \o a3 \o a4 \o a5) + Len(a6)
    BY <2>4, <1>1, NotFirstJoined, Zenon
  <2> QED
    BY <2>1, <2>2, <2>3, <2>4, <2>5, <1>1, <1>2, <1>3, SMTT(10)
<1>7. NotFirst(b) /\ Len(b) = 8
  <2>1. NotFirst(b1 \o b2) /\ Len(b1 \o b2) = Len(b1) + Len(b2)
    BY <1>1, <1>4, NotFirstJoined, Zenon
  <2>2. NotFirst(b) /\ Len(b) = Len(b1 \o b2) + Len(b3)
    BY <2>1, <1>1, NotFirstJoined, Zenon
  <2> QED
    BY <2>1, <2>2, <1>1, <1>4, SMTT(10)
<1> HIDE DEF a, b
<1>8. NotFirst(a \o b) /\ Len(a \o b) = Len(a) + Len(b)
  BY <1>6, <1>7, NotFirstJoined, Zenon
<1>9. NotFirst(a \o b \o c1) /\ Len(a \o b \o c1) = Len(a \o b) + Len(c1)
  BY <1>5, <1>8, NotFirstJoined, Zenon
<1>10. NotFirst(a \o b \o c1 \o d1) /\ Len(a \o b \o c1 \o d1) = Len(a \o b \o c1) + Len(d1)
  BY <1>5, <1>9, NotFirstJoined, Zenon
<1>11. Len(a \o b \o c1 \o d1) = 26
  BY <1>5, <1>6, <1>7, <1>8, <1>9, <1>10, SMTT(10)
<1>12. rgmii1_pin_mux \o mmc0_pin_mux \o i2c0_pin_mux \o i2c1_pin_mux = a \o b \o c1 \o d1
  BY <1>0 DEF a, b
<1> QED
  BY <1>10, <1>11, <1>12, Zenon

LEMMA PadsJoined ==
    ASSUME NEW s \in Seq(PadEntries), NEW t \in Seq(PadEntries)
    PROVE  /\ s \o t \in Seq(PadEntries) /\ Len(s \o t) = Len(s) + Len(t)
           /\ \A k \in 1 .. Len(s) : (s \o t)[k] = s[k]
           /\ \A k \in Len(s) + 1 .. Len(s) + Len(t) : (s \o t)[k] = t[k - Len(s)]
  BY Joined

LEMMA NandPads ==
    LET m == nand_pin_mux IN
    /\ m \in Seq(PadEntries) /\ Len(m) = 15
    /\ m[1] = [pad |-> "gpmc_ad0", val |-> 48]
    /\ \A k \in 2 .. 15 : m[k].pad # "gpmc_ad0"
<1> DEFINE ps == <<"gpmc_ad0", "gpmc_ad1", "gpmc_ad2", "gpmc_ad3", "gpmc_ad4",
                   "gpmc_ad5", "gpmc_ad6", "gpmc_ad7", "gpmc_wait0">>
           qs == <<"gpmc_csn0", "gpmc_advn_ale", "gpmc_oen_ren", "gpmc_wen", "gpmc_be0n_cle">>
           a == Entries(ps, PULLUP_EN + RXACTIVE)
           b == Entry("gpmc_wpn", 7 + PULLUP_EN + RXACTIVE)
           c == Entries(qs, PULLUDEN)
<1>1. nand_pin_mux = a \o b \o c
  BY DEF nand_pin_mux
<1>2. /\ ps \in Seq(Pads) /\ Len(ps) = 9 /\ ps[1] = "gpmc_ad0"
      /\ \A k \in 2 .. 9 : ps[k] # "gpmc_ad0"
      /\ qs \in Seq(Pads) /\ Len(qs) = 5 /\ \A k \in 1 .. 5 : qs[k] # "gpmc_ad0"
      /\ "gpmc_wpn" \in Pads
  BY PadsUsed, SMTT(10)
<1> HIDE DEF ps, qs
<1>3. /\ a \in Seq(PadEntries) /\ Len(a) = 9
      /\ \A k \in 1 .. 9 : a[k] = [pad |-> ps[k], val |-> 48]
  <2>1. LET v == PULLUP_EN + RXACTIVE IN
        /\ Entries(ps, v) \in Seq(PadEntries) /\ Len(Entries(ps, v)) = Len(ps)
        /\ \A k \in 1 .. Len(ps) : Entries(ps, v)[k] = [pad |-> ps[k], val |-> v]
    BY <1>2, EntriesPart, FlagNumbers
  <2> QED
    BY <2>1, <1>2, FlagNumbers
<1>4. NotFirst(b) /\ Len(b) = 1
  BY <1>2, NotFirstEntry, FlagNumbers
<1>5. NotFirst(c) /\ Len(c) = 5
  BY <1>2, NotFirstEntries, FlagNumbers, ZenonT(30)
<1> HIDE DEF a, b, c
<1> DEFINE ab == a \o b
           m == ab \o c
<1>6. /\ ab \in Seq(PadEntries) /\ Len(ab) = Len(a) + Len(b)
      /\ \A k \in 1 .. Len(a) : ab[k] = a[k]
      /\ \A k \in Len(a) + 1 .. Len(a) + Len(b) : ab[k] = b[k - Len(a)]
  <2>1. b \in Seq(PadEntries)
    BY <1>4 DEF NotFirst
  <2> QED
    BY <2>1, <1>3, PadsJoined, Zenon
<1> HIDE DEF ab
<1>7. /\ m \in Seq(PadEntries) /\ Len(m) = Len(ab) + Len(c)
      /\ \A k \in 1 .. Len(ab) : m[k] = ab[k]
      /\ \A k \in Len(ab) + 1 .. Len(ab) + Len(c) : m[k] = c[k - Len(ab)]
  <2>1. c \in Seq(PadEntries)
    BY <1>5 DEF NotFirst
  <2> QED
    BY <2>1, <1>6, PadsJoined, Zenon
<1> HIDE DEF m
<1>8. Len(ab) = 10 /\ Len(m) = 15
  BY <1>3, <1>4, <1>5, <1>6, <1>7
<1>9. \A k \in 1 .. 9 : m[k] = a[k]
  BY <1>3, <1>6, <1>7, <1>8
<1>10. m[1] = [pad |-> "gpmc_ad0", val |-> 48]
  <2>1. m[1] = [pad |-> ps[1], val |-> 48]
    BY <1>3, <1>9
  <2> QED
    BY <2>1, <1>2
<1>11. ASSUME NEW k \in 2 .. 15 PROVE m[k].pad # "gpmc_ad0"
  <2>1. CASE k \in 2 .. 9
    <3>1. m[k] = [pad |-> ps[k], val |-> 48] /\ ps[k] # "gpmc_ad0"
      BY <2>1, <1>2, <1>3, <1>9
    <3> QED
      BY <3>1
  <2>2. CASE k = 10
    <3>1. m[k] = b[1]
      BY <2>2, <1>3, <1>4, <1>6, <1>7, <1>8
    <3> QED
      BY <3>1, <1>4 DEF NotFirst
  <2>3. CASE k \in 11 .. 15
    <3>1. m[k] = c[k - 10] /\ k - 10 \in 1 .. 5
      BY <2>3, <1>5, <1>7, <1>8
    <3> QED
      BY <3>1, <1>5 DEF NotFirst
  <2> QED
    BY <2>1, <2>2, <2>3
<1>12. nand_pin_mux = m
  BY <1>1 DEF m, ab
<1> QED
  BY <1>7, <1>8, <1>10, <1>11, <1>12

-----------------------------------------------------------------------------
(* Where the stores of the pins go: over the PRCM's block for the RTC. *)
PinRegisters == {a \in Nat : CM_RTC <= a /\ a <= CM_RTC + 416}

LEMMA InSeq == ASSUME NEW S, NEW s \in Seq(S), NEW k \in 1 .. Len(s) PROVE s[k] \in S
  OBVIOUS

LEMMA PinPart ==
    LET s == board_pin_mux IN
    /\ s \in Seq(Statements) /\ Len(s) = 41
    /\ s[27] = Write_(CM_RTC, 48)
    /\ \A k \in 1 .. 41 : /\ s[k].do = "write" /\ s[k].reg \in PinRegisters
                          /\ k # 27 => s[k].reg >= CM_RTC + 4
<1> DEFINE a == rgmii1_pin_mux \o mmc0_pin_mux \o i2c0_pin_mux \o i2c1_pin_mux
           b == nand_pin_mux
           mux == a \o b
           s == board_pin_mux
<1>1. NotFirst(a) /\ Len(a) = 26
  BY OtherPads
<1>2. /\ b \in Seq(PadEntries) /\ Len(b) = 15 /\ b[1] = [pad |-> "gpmc_ad0", val |-> 48]
      /\ \A k \in 2 .. 15 : b[k].pad # "gpmc_ad0"
  BY NandPads
<1>3. s = configure_module_pin_mux(mux)
  BY DEF board_pin_mux
<1> HIDE DEF a, b, s
<1>4. /\ mux \in Seq(PadEntries) /\ Len(mux) = Len(a) + Len(b)
      /\ \A k \in 1 .. Len(a) : mux[k] = a[k]
      /\ \A k \in Len(a) + 1 .. Len(a) + Len(b) : mux[k] = b[k - Len(a)]
  <2>1. a \in Seq(PadEntries)
    BY <1>1 DEF NotFirst
  <2> QED
    BY <2>1, <1>2, PadsJoined, Zenon
<1> HIDE DEF mux
<1>5. Len(mux) = 41 /\ \A k \in 1 .. 41 : mux[k] \in PadEntries
  <2>1. Len(mux) = 41
    BY <1>1, <1>2, <1>4
  <2>2. mux \in Seq(PadEntries)
    BY <1>4
  <2>3. \A k \in 1 .. Len(mux) : mux[k] \in PadEntries
    BY <2>2, InSeq, Zenon
  <2> QED
    BY <2>1, <2>3
<1>55. \A k \in 27 .. 41 : mux[k] = b[k - 26]
  <2>1. Len(a) = 26 /\ Len(b) = 15
    BY <1>1, <1>2
  <2>2. \A k \in Len(a) + 1 .. Len(a) + Len(b) : mux[k] = b[k - Len(a)]
    BY <1>4
  <2> QED
    BY <2>1, <2>2
<1>6. mux[27] = [pad |-> "gpmc_ad0", val |-> 48]
  <2>1. 27 \in 27 .. 41 /\ 27 - 26 = 1
    OBVIOUS
  <2>2. mux[27] = b[1]
    BY <2>1, <1>55
  <2> QED
    BY <2>2, <1>2
<1>7. ASSUME NEW k \in 1 .. 41, k # 27
      PROVE  mux[k].pad # "gpmc_ad0"
  <2>1. CASE k \in 1 .. 26
    BY <2>1, <1>1, <1>4 DEF NotFirst
  <2>2. CASE k \in 28 .. 41
    <3>1. mux[k] = b[k - 26] /\ k - 26 \in 2 .. 15
      BY <2>2, <1>55
    <3> QED
      BY <3>1, <1>2
  <2> QED
    BY <2>1, <2>2, <1>7
<1>8. s = [k \in 1 .. 41 |-> Write_(PadAddress(mux[k].pad), mux[k].val)]
  BY <1>3, <1>5 DEF configure_module_pin_mux, writel, Write_
<1>9. ASSUME NEW k \in 1 .. 41
      PROVE  /\ PadAddress(mux[k].pad) \in PinRegisters /\ mux[k].val \in Nat
             /\ k # 27 => PadAddress(mux[k].pad) >= CM_RTC + 4
  <2> DEFINE p == mux[k].pad
  <2>1. p \in Pads /\ mux[k].val \in Nat
    BY <1>5 DEF PadEntries
  <2>2. k # 27 => p # "gpmc_ad0"
    BY <1>7
  <2> HIDE DEF p
  <2>3. PadAddress(p) \in PinRegisters /\ (p # "gpmc_ad0" => PadAddress(p) >= CM_RTC + 4)
    BY <2>1, PadRegisters, SMTT(10) DEF PadAddress, PinRegisters, PAD_CR, CM_RTC, PRCM_BASE
  <2> QED
    BY <2>1, <2>2, <2>3 DEF p
<1>10. \A k \in 1 .. 41 : Write_(PadAddress(mux[k].pad), mux[k].val) \in Statements
  <2>1. \A x \in PinRegisters, v \in Nat : Write_(x, v) \in Statements
    BY DEF PinRegisters, Write_, Statements
  <2> QED
    BY <2>1, <1>9
<1>11. s \in Seq(Statements) /\ Len(s) = 41
  BY <1>8, <1>10
<1>12. s[27] = Write_(CM_RTC, 48)
  <2>1. PadAddress("gpmc_ad0") = CM_RTC
    BY FirstPad, SMTT(10) DEF PadAddress, PAD_CR, CM_RTC, PRCM_BASE
  <2>2. mux[27].pad = "gpmc_ad0" /\ mux[27].val = 48
    BY <1>6
  <2> QED
    BY <2>1, <2>2, <1>8
<1>13. ASSUME NEW k \in 1 .. 41
       PROVE  /\ s[k].do = "write" /\ s[k].reg \in PinRegisters
              /\ k # 27 => s[k].reg >= CM_RTC + 4
  <2>1. s[k] = Write_(PadAddress(mux[k].pad), mux[k].val)
    BY <1>8
  <2>2. s[k].do = "write" /\ s[k].reg = PadAddress(mux[k].pad)
    BY <2>1 DEF Write_
  <2> QED
    BY <2>2, <1>9
<1> QED
  BY <1>11, <1>12, <1>13 DEF s

-----------------------------------------------------------------------------
(* Memory controller, I2C port, NAND *)

Config == M_NAND_GPMC_CONFIG

LEMMA ConfigWords ==
    /\ Len(Config) = 6 /\ \A j \in 1 .. 6 : Config[j] \in Nat /\ Config[j] # 0
    /\ Config[1] = 2048
  BY SMTT(10) DEF Config, M_NAND_GPMC_CONFIG

LEMMA WithZero ==
    ASSUME NEW s \in Seq(Nat), Len(s) = 6
    PROVE  LET t == Append(s, 0) IN
           DOMAIN t = 1 .. 7 /\ t[7] = 0 /\ \A k \in 1 .. 6 : t[k] = s[k]
<1> DEFINE t == Append(s, 0)
<1>1. /\ t \in Seq(Nat) /\ Len(t) = Len(s) + 1
      /\ \A k \in 1 .. Len(s) : t[k] = s[k]
      /\ t[Len(s) + 1] = 0
  <2>1. 0 \in Nat
    OBVIOUS
  <2> QED
    BY <2>1, AppendProperties, ZenonT(60)
<1> HIDE DEF t
<1>2. Len(t) = 7 /\ t[7] = 0 /\ \A k \in 1 .. 6 : t[k] = s[k]
  BY <1>1
<1>3. DOMAIN t = 1 .. 7
  BY <1>1, <1>2
<1> QED
  BY <1>2, <1>3 DEF t

LEMMA StoresNat ==
    ASSUME NEW base \in Nat, NEW n \in Nat, NEW pairs, Len(pairs) = n,
           \A k \in 1 .. n : pairs[k][1] \in Nat /\ pairs[k][2] \in Nat
    PROVE  LET s == Stores(base, pairs) IN
           /\ s \in Seq(Statements) /\ Len(s) = n
           /\ \A k \in 1 .. n : s[k] = Write_(base + pairs[k][1], pairs[k][2])
<1> DEFINE s == Stores(base, pairs)
<1>1. s = [k \in 1 .. n |-> Write_(base + pairs[k][1], pairs[k][2])]
  BY DEF Stores, writel, Write_
<1>2. \A k \in 1 .. n : Write_(base + pairs[k][1], pairs[k][2]) \in Statements
  BY DEF Write_, Statements
<1>3. s \in Seq(Statements) /\ Len(s) = n
  BY <1>1, <1>2, SMTT(60)
<1>4. \A k \in 1 .. n : s[k] = Write_(base + pairs[k][1], pairs[k][2])
  BY <1>1
<1> QED
  BY <1>3, <1>4 DEF s

LEMMA CsConfigPart ==
    ASSUME NEW cfg, NEW cs, NEW base, NEW size, Copied(cfg) = 6,
           NEW word, (size % 16) * 256 + ((base \div \h1000000) % 64) + 64 = word
    PROVE  gpmc_cs_config(cfg, cs, base, size)
             = writel(0, gpmc_cs(cs) + \h18)
                 \o [k \in 1 .. 6 |-> writel(cfg[k], gpmc_cs(cs) + 4 * (k - 1))[1]]
                 \o writel(word, gpmc_cs(cs) + 4 * 6)
  BY SMTT(10) DEF gpmc_cs_config

LEMMA CopiedWords ==
    LET cfg == Append(Config, 0) IN
    /\ Copied(cfg) = 6 /\ \A k \in 1 .. 6 : cfg[k] = Config[k]
<1> DEFINE cfg == Append(Config, 0)
<1>1. /\ DOMAIN cfg = 1 .. 7 /\ cfg[7] = 0
      /\ \A k \in 1 .. 6 : cfg[k] = Config[k] /\ cfg[k] \in Nat /\ cfg[k] # 0
  <2>1. Config \in Seq(Nat) /\ Len(Config) = 6
    BY SMTT(10) DEF Config, M_NAND_GPMC_CONFIG
  <2>2. DOMAIN cfg = 1 .. 7 /\ cfg[7] = 0 /\ \A k \in 1 .. 6 : cfg[k] = Config[k]
    BY <2>1, WithZero, Zenon
  <2> HIDE DEF cfg
  <2> QED
    BY <2>2, ConfigWords
<1> HIDE DEF cfg
<1> DEFINE P(k) == cfg[k] = 0 /\ \A l \in 1 .. k - 1 : cfg[l] # 0
<1>2. 7 \in DOMAIN cfg /\ P(7) /\ \A k \in DOMAIN cfg : P(k) => k = 7
  BY <1>1
<1>3. (CHOOSE k \in DOMAIN cfg : P(k)) = 7
  BY <1>2
<1>4. Copied(cfg) = 6
  BY <1>3 DEF Copied
<1> QED
  BY <1>1, <1>4 DEF cfg

LEMMA GpmcPart ==
    LET s == gpmc_init(0) IN
    /\ s \in Seq(Statements) /\ Len(s) = 12
    /\ s[1] = Write_(GPMC_BASE + 16, 8) /\ s[2] = Write_(GPMC_BASE + 24, 0)
    /\ s[3] = Write_(GPMC_BASE + 28, 0) /\ s[4] = Write_(GPMC_BASE + 80, 18)
    /\ s[5] = Write_(GPMC_BASE + 120, 0)
    /\ \A j \in 1 .. 6 : s[5 + j] = Write_(GPMC_BASE + 96 + 4 * (j - 1), Config[j])
    /\ s[12] = Write_(GPMC_BASE + 120, 72)
<1> DEFINE pairs == << <<\h10, 8>>, <<\h18, 0>>, <<\h1C, 0>>, <<\h50, \h12>> >>
           cfg == Append(Config, 0)
           a == Stores(GPMC_BASE, pairs)
           w == Write_(GPMC_BASE + 120, 0)
           c == [k \in 1 .. 6 |-> Write_(GPMC_BASE + 96 + 4 * (k - 1), Config[k])]
           x == Write_(GPMC_BASE + 120, 72)
           b == <<w>> \o c \o <<x>>
<1>1. GPMC_BASE \in Nat
  BY SMTT(10) DEF GPMC_BASE
<1>2. gpmc_init(0) = a \o gpmc_cs_config(cfg, 0, SYS_NAND_BASE, GPMC_SIZE_256M)
  BY DEF gpmc_init, Config
<1>3. gpmc_cs(0) = GPMC_BASE + 96
  BY <1>1, SMTT(10) DEF gpmc_cs
<1>4. (GPMC_SIZE_256M % 16) * 256 + ((SYS_NAND_BASE \div \h1000000) % 64) + 64 = 72
  BY SMTT(10) DEF GPMC_SIZE_256M, SYS_NAND_BASE
<1>5. writel(0, gpmc_cs(0) + \h18) = <<w>>
  BY <1>1, <1>3 DEF writel, Write_
<1>6. writel(72, gpmc_cs(0) + 4 * 6) = <<x>>
  BY <1>1, <1>3 DEF writel, Write_
<1>7. [k \in 1 .. 6 |-> writel(cfg[k], gpmc_cs(0) + 4 * (k - 1))[1]] = c
  <2>1. \A k \in 1 .. 6 : writel(cfg[k], gpmc_cs(0) + 4 * (k - 1))[1]
                           = Write_(GPMC_BASE + 96 + 4 * (k - 1), Config[k])
    <3>1. \A k \in 1 .. 6 : cfg[k] = Config[k]
      BY CopiedWords
    <3> HIDE DEF cfg
    <3> QED
      BY <3>1, <1>3 DEF writel, Write_
  <2> HIDE DEF cfg
  <2> QED
    BY <2>1
<1>8. gpmc_cs_config(cfg, 0, SYS_NAND_BASE, GPMC_SIZE_256M) = b
  <2>1. Copied(cfg) = 6
    BY CopiedWords
  <2> DEFINE f == [k \in 1 .. 6 |-> writel(cfg[k], gpmc_cs(0) + 4 * (k - 1))[1]]
  <2>2. f = c
    BY <1>7, Zenon
  <2> HIDE DEF cfg, c, w, x
  <2>3. gpmc_cs_config(cfg, 0, SYS_NAND_BASE, GPMC_SIZE_256M)
          = writel(0, gpmc_cs(0) + \h18) \o f \o writel(72, gpmc_cs(0) + 4 * 6)
    BY <1>4, <2>1, CsConfigPart, SMTT(30)
  <2> HIDE DEF f
  <2> QED
    BY <2>2, <2>3, <1>5, <1>6, Zenon
<1>9. /\ a \in Seq(Statements) /\ Len(a) = 4
      /\ a[1] = Write_(GPMC_BASE + 16, 8) /\ a[2] = Write_(GPMC_BASE + 24, 0)
      /\ a[3] = Write_(GPMC_BASE + 28, 0) /\ a[4] = Write_(GPMC_BASE + 80, 18)
  <2>1. Len(pairs) = 4 /\ pairs[1] = <<16, 8>> /\ pairs[2] = <<24, 0>> /\ pairs[3] = <<28, 0>>
        /\ pairs[4] = <<80, 18>>
    BY SMTT(10)
  <2> HIDE DEF pairs
  <2>2. \A k \in 1 .. 4 : pairs[k][1] \in Nat /\ pairs[k][2] \in Nat
    BY <2>1
  <2>3. /\ a \in Seq(Statements) /\ Len(a) = 4
        /\ \A k \in 1 .. 4 : a[k] = Write_(GPMC_BASE + pairs[k][1], pairs[k][2])
    <3>1. 4 \in Nat
      OBVIOUS
    <3> QED
      BY <2>1, <2>2, <3>1, <1>1, StoresNat, ZenonT(60)
  <2> HIDE DEF a
  <2> QED
    BY <2>1, <2>3
<1>10. w \in Statements /\ x \in Statements
  BY <1>1 DEF Write_, Statements
<1>11. c \in Seq(Statements) /\ Len(c) = 6
  <2>1. \A k \in 1 .. 6 : Write_(GPMC_BASE + 96 + 4 * (k - 1), Config[k]) \in Statements
    BY <1>1, ConfigWords DEF Write_, Statements
  <2> QED
    BY <2>1
<1> HIDE DEF a, w, x
<1>12. \A j \in 1 .. 6 : c[j] = Write_(GPMC_BASE + 96 + 4 * (j - 1), Config[j])
  OBVIOUS
<1> HIDE DEF c
<1> DEFINE wc == <<w>> \o c
<1>13. /\ wc \in Seq(Statements) /\ Len(wc) = 7 /\ wc[1] = w
       /\ \A j \in 1 .. 6 : wc[1 + j] = c[j]
  <2>1. <<w>> \in Seq(Statements) /\ Len(<<w>>) = 1 /\ <<w>>[1] = w
    BY <1>10
  <2>2. IsJoin(wc, <<w>>, c)
    BY <2>1, <1>11, JoinIsJoin, Zenon
  <2> HIDE DEF wc
  <2> QED
    BY <2>1, <2>2, <1>11 DEF IsJoin
<1> HIDE DEF wc
<1> DEFINE d == wc \o <<x>>
<1>14. /\ d \in Seq(Statements) /\ Len(d) = 8 /\ d[1] = w /\ d[8] = x
       /\ \A j \in 1 .. 6 : d[1 + j] = c[j]
  <2>1. <<x>> \in Seq(Statements) /\ Len(<<x>>) = 1 /\ <<x>>[1] = x
    BY <1>10
  <2>2. IsJoin(d, wc, <<x>>)
    BY <2>1, <1>13, JoinIsJoin, Zenon
  <2> HIDE DEF d
  <2> QED
    BY <2>1, <2>2, <1>13 DEF IsJoin
<1> HIDE DEF d
<1> DEFINE s == a \o d
<1>15. /\ s \in Seq(Statements) /\ Len(s) = 12 /\ \A k \in 1 .. 4 : s[k] = a[k]
       /\ s[5] = w /\ s[12] = x /\ \A j \in 1 .. 6 : s[5 + j] = c[j]
  <2>1. IsJoin(s, a, d)
    BY <1>9, <1>14, JoinIsJoin, Zenon
  <2> HIDE DEF s
  <2>2. /\ s \in Seq(Statements) /\ Len(s) = 12 /\ \A k \in 1 .. 4 : s[k] = a[k]
        /\ \A k \in 5 .. 12 : s[k] = d[k - 4]
    BY <2>1, <1>9, <1>14 DEF IsJoin
  <2>3. \A j \in 1 .. 6 : s[5 + j] = d[1 + j]
    BY <2>2
  <2> QED
    BY <2>2, <2>3, <1>14
<1>16. gpmc_init(0) = s
  BY <1>2, <1>8 DEF s, d, wc
<1> HIDE DEF s
<1> QED
  <2>1. \A j \in 1 .. 6 : s[5 + j] = Write_(GPMC_BASE + 96 + 4 * (j - 1), Config[j])
    BY <1>12, <1>15
  <2>2. /\ s[1] = Write_(GPMC_BASE + 16, 8) /\ s[2] = Write_(GPMC_BASE + 24, 0)
        /\ s[3] = Write_(GPMC_BASE + 28, 0) /\ s[4] = Write_(GPMC_BASE + 80, 18)
    BY <1>9, <1>15
  <2>3. s[5] = Write_(GPMC_BASE + 120, 0) /\ s[12] = Write_(GPMC_BASE + 120, 72)
    BY <1>15 DEF w, x
  <2> QED
    BY <2>1, <2>2, <2>3, <1>15, <1>16, Zenon

-----------------------------------------------------------------------------
LEMMA I2cPart ==
    LET s == omap_i2c_init(I2C0_BASE) IN
    /\ s \in Seq(Statements) /\ Len(s) = 5
    /\ s[1] = Write_(I2C0_BASE + 164, 0) /\ s[2] = Write_(I2C0_BASE + 176, 1)
    /\ s[3] = Write_(I2C0_BASE + 180, 113) /\ s[4] = Write_(I2C0_BASE + 184, 115)
    /\ s[5] = Write_(I2C0_BASE + 164, 2 ^ 15)
<1> DEFINE B == I2C0_BASE
           pairs == << <<176, 1>>, <<180, 113>>, <<184, 115>> >>
           a == Write_(B + 164, 0)
           b == Stores(B, pairs)
           c == Write_(B + 164, 2 ^ 15)
<1>1. B \in Nat /\ 2 ^ 15 \in Nat
  BY SMTT(10) DEF I2C0_BASE
<1>2. setup_clk(B, 48000000, 24000000, 100000) = b
  <2>1. (24000000 \div 100000) \div 2 = 120 /\ 48000000 \div 24000000 = 2
    BY SMTT(10)
  <2>2. \A iclk, sclk, speed \in Int : (iclk \div speed) \div 2 = 120 /\ sclk \div iclk = 2 =>
            setup_clk(B, sclk, iclk, speed) = b
    BY SMTT(10) DEF setup_clk
  <2> QED
    BY <2>1, <2>2, SMTT(10)
<1>3. writel(0, B + \hA4) = <<a>> /\ writel(2 ^ 15, B + \hA4) = <<c>>
  BY SMTT(10) DEF writel, Write_
<1>4. omap_i2c_init(B) = <<a>> \o b \o <<c>>
  <2> DEFINE w == writel(0, B + \hA4)
             x == writel(2 ^ 15, B + \hA4)
             y == setup_clk(B, 48000000, 24000000, 100000)
  <2>1. omap_i2c_init(B) = w \o y \o x
    BY SMTT(10) DEF omap_i2c_init
  <2>2. w = <<a>> /\ x = <<c>> /\ y = b
    BY <1>2, <1>3, SMTT(10)
  <2> HIDE DEF w, x, y, a, b, c, B
  <2> QED
    BY <2>1, <2>2
<1> HIDE DEF B
<1>5. a \in Statements /\ c \in Statements
  BY <1>1, SMTT(10) DEF Write_, Statements
<1>6. /\ b \in Seq(Statements) /\ Len(b) = 3 /\ b[1] = Write_(B + 176, 1)
      /\ b[2] = Write_(B + 180, 113) /\ b[3] = Write_(B + 184, 115)
  <2>1. Len(pairs) = 3 /\ pairs[1] = <<176, 1>> /\ pairs[2] = <<180, 113>>
        /\ pairs[3] = <<184, 115>>
    OBVIOUS
  <2> HIDE DEF pairs
  <2>2. \A k \in 1 .. 3 : pairs[k][1] \in Nat /\ pairs[k][2] \in Nat
    BY <2>1
  <2>3. 3 \in Nat /\ B \in Nat
    BY <1>1
  <2>4. /\ b \in Seq(Statements) /\ Len(b) = 3
        /\ \A k \in 1 .. 3 : b[k] = Write_(B + pairs[k][1], pairs[k][2])
    <3>1. b = [k \in 1 .. 3 |-> Write_(B + pairs[k][1], pairs[k][2])]
      BY <2>1 DEF Stores, writel, Write_
    <3>2. \A k \in 1 .. 3 : Write_(B + pairs[k][1], pairs[k][2]) \in Statements
      BY <2>2, <2>3 DEF Write_, Statements
    <3> HIDE DEF b
    <3> QED
      BY <3>1, <3>2
  <2> HIDE DEF b
  <2> QED
    BY <2>1, <2>4
<1> HIDE DEF a, b, c
<1> DEFINE ab == <<a>> \o b
           s == ab \o <<c>>
<1>7. /\ ab \in Seq(Statements) /\ Len(ab) = 4
      /\ ab[1] = a /\ ab[2] = b[1] /\ ab[3] = b[2] /\ ab[4] = b[3]
  <2>1. <<a>> \in Seq(Statements) /\ Len(<<a>>) = 1 /\ <<a>>[1] = a
    BY <1>5
  <2>2. IsJoin(ab, <<a>>, b)
    BY <2>1, <1>6, JoinIsJoin, Zenon
  <2> HIDE DEF ab
  <2> QED
    BY <2>1, <2>2, <1>6 DEF IsJoin
<1> HIDE DEF ab
<1>8. /\ s \in Seq(Statements) /\ Len(s) = 5
      /\ s[1] = a /\ s[2] = b[1] /\ s[3] = b[2] /\ s[4] = b[3] /\ s[5] = c
  <2>1. <<c>> \in Seq(Statements) /\ Len(<<c>>) = 1 /\ <<c>>[1] = c
    BY <1>5
  <2>2. IsJoin(s, ab, <<c>>)
    BY <2>1, <1>7, JoinIsJoin, Zenon
  <2> HIDE DEF s
  <2> QED
    BY <2>1, <2>2, <1>7 DEF IsJoin
<1>9. omap_i2c_init(I2C0_BASE) = s
  BY <1>4 DEF s, ab, B
<1> HIDE DEF s
<1> QED
  BY <1>6, <1>8, <1>9 DEF a, c, B

-----------------------------------------------------------------------------
(* The statements of t are those of s after the o first. *)
At(s, o, t) == \A k \in 1 .. Len(t) : s[o + k] = t[k]

LEMMA Placed ==
    ASSUME NEW s \in Seq(Statements), NEW t \in Seq(Statements)
    PROVE  /\ s \o t \in Seq(Statements) /\ Len(s \o t) = Len(s) + Len(t)
           /\ At(s \o t, 0, s) /\ At(s \o t, Len(s), t)
<1> DEFINE u == s \o t
<1>1. IsJoin(u, s, t)
  BY JoinIsJoin
<1> HIDE DEF u
<1>2. At(u, 0, s)
  BY <1>1 DEF IsJoin, At
<1>3. At(u, Len(s), t)
  <2>1. ASSUME NEW k \in 1 .. Len(t) PROVE u[Len(s) + k] = t[k]
    <3>1. Len(s) + k \in Len(s) + 1 .. Len(s) + Len(t) /\ Len(s) + k - Len(s) = k
      BY <1>1 DEF IsJoin
    <3> QED
      BY <3>1, <1>1 DEF IsJoin
  <2> QED
    BY <2>1 DEF At
<1> QED
  BY <1>1, <1>2, <1>3 DEF u, IsJoin

LEMMA StaysPlaced ==
    ASSUME NEW s \in Seq(Statements), NEW t \in Seq(Statements), NEW o \in Nat, NEW n \in Nat,
           NEW p, Len(p) = n, At(s, o, p), o + n <= Len(s)
    PROVE  At(s \o t, o, p)
<1>1. IsJoin(s \o t, s, t)
  BY JoinIsJoin
<1>2. \A k \in 1 .. n : o + k \in 1 .. Len(s)
  BY <1>1 DEF IsJoin
<1> QED
  BY <1>1, <1>2 DEF IsJoin, At

LEMMA Within ==
    ASSUME NEW s, NEW t, NEW p, NEW o \in Nat, NEW q \in Nat, NEW n \in Nat, NEW m \in Nat,
           Len(t) = n, Len(p) = m, q + m <= n, At(s, o, t), At(t, q, p)
    PROVE  At(s, o + q, p)
<1>1. ASSUME NEW k \in 1 .. m PROVE s[(o + q) + k] = p[k]
  <2>1. q + k \in 1 .. n /\ o + (q + k) = (o + q) + k
    OBVIOUS
  <2>2. s[o + (q + k)] = t[q + k] /\ t[q + k] = p[k]
    BY <2>1 DEF At
  <2> QED
    BY <2>1, <2>2
<1> QED
  BY <1>1 DEF At

LEMMA SetupPlaced ==
    ASSUME NEW u, NEW s, NEW o \in Nat, NEW d, NEW n \in {7, 9}, NEW m,
           Len(s) = n, At(u, o, s), IsSetup(s, 0, d, n, m)
    PROVE  IsSetup(u, o, d, n, m)
<1>1. \A k \in 1 .. n : u[o + k] = s[k]
  BY DEF At
<1>2. /\ u[o + 1] = s[1] /\ u[o + 2] = s[2] /\ u[o + 3] = s[3] /\ u[o + 4] = s[4]
      /\ u[o + n - 1] = s[n - 1] /\ u[o + n] = s[n]
  <2>1. u[o + (n - 1)] = s[n - 1] /\ o + (n - 1) = o + n - 1
    BY <1>1
  <2> QED
    BY <2>1, <1>1, SMTT(60)
<1>3. ASSUME NEW k \in o + 5 .. o + n - 2
      PROVE  u[k].do = "write" /\ \E i \in 1 .. 5 : u[k].reg = dpll_regs[d].div[i]
  <2>1. k - o \in 5 .. n - 2 /\ k - o \in 1 .. n /\ o + (k - o) = k
    OBVIOUS
  <2>2. u[k] = s[k - o]
    BY <2>1, <1>1
  <2>3. k - o \in 0 + 5 .. 0 + n - 2
    BY <2>1
  <2> QED
    BY <2>2, <2>3 DEF IsSetup
<1>4. /\ s[1] = [do |-> "read", reg |-> dpll_regs[d].clksel]
      /\ s[2] = Field_(dpll_regs[d].clkmode, 8, 4)
      /\ s[3] = Spin_("bypassed", d)
      /\ s[4] = Clksel_(d, m, 23)
      /\ s[n - 1] = Field_(dpll_regs[d].clkmode, 8, 7)
      /\ s[n] = Spin_("locked", d)
  BY DEF IsSetup
<1> QED
  BY <1>2, <1>3, <1>4 DEF IsSetup

-----------------------------------------------------------------------------
(* The statements of p are those of s after the o first; u is s and then t. *)
Part(s, o, p) ==
    p \in Seq(Statements) /\ o \in Nat /\ o + Len(p) <= Len(s) /\ At(s, o, p)

Joins(u, s, n, t, m) ==
    /\ u \in Seq(Statements) /\ Len(u) = n + m
    /\ Part(u, 0, s) /\ Part(u, n, t)
    /\ \A o, p : Part(s, o, p) => Part(u, o, p)

LEMMA Joining ==
    ASSUME NEW s \in Seq(Statements), NEW t \in Seq(Statements), NEW n, NEW m,
           Len(s) = n, Len(t) = m
    PROVE  Joins(s \o t, s, n, t, m)
<1> DEFINE u == s \o t
<1>1. /\ u \in Seq(Statements) /\ Len(u) = Len(s) + Len(t)
      /\ At(u, 0, s) /\ At(u, Len(s), t)
  BY Placed, Zenon
<1>2. Len(s) \in Nat /\ Len(t) \in Nat
  OBVIOUS
<1>3. Part(u, 0, s) /\ Part(u, Len(s), t)
  <2> HIDE DEF u
  <2> QED
    BY <1>1, <1>2 DEF Part
<1>4. ASSUME NEW o, NEW p, Part(s, o, p)
      PROVE  Part(u, o, p)
  <2>1. p \in Seq(Statements) /\ o \in Nat /\ o + Len(p) <= Len(s) /\ At(s, o, p)
    BY <1>4 DEF Part
  <2>2. Len(p) \in Nat
    BY <2>1
  <2> DEFINE q == Len(p)
  <2>3. q \in Nat /\ Len(p) = q /\ o + q <= Len(s)
    BY <2>1, <2>2
  <2> HIDE DEF q
  <2>4. At(u, o, p)
    BY <2>1, <2>3, StaysPlaced, Zenon
  <2> HIDE DEF u
  <2> QED
    BY <2>1, <2>2, <2>4, <1>1, <1>2 DEF Part
<1> HIDE DEF u
<1>5. Joins(u, s, n, t, m)
  BY <1>1, <1>3, <1>4, Zenon DEF Joins
<1> QED
  BY <1>5 DEF u

(* What a part that sets a PLL up is. *)
LEMMA SetupIn ==
    ASSUME NEW u, NEW s, NEW o, NEW d, NEW m,
           Part(u, o, s), Len(s) = 7, IsSetup(s, 0, d, 7, m)
    PROVE  IsSetup(u, o, d, 7, m)
<1> DEFINE n == 7
<1>1. o \in Nat /\ At(u, o, s) /\ n \in {7, 9} /\ Len(s) = n /\ IsSetup(s, 0, d, n, m)
  BY DEF Part
<1> HIDE DEF n
<1>2. IsSetup(u, o, d, n, m)
  BY <1>1, SetupPlaced
<1> QED
  BY <1>2 DEF n

LEMMA CoreSetupIn ==
    ASSUME NEW u, NEW s, NEW o, NEW d, NEW m,
           Part(u, o, s), Len(s) = 9, IsSetup(s, 0, d, 9, m)
    PROVE  IsSetup(u, o, d, 9, m)
<1> DEFINE n == 9
<1>1. o \in Nat /\ At(u, o, s) /\ n \in {7, 9} /\ Len(s) = n /\ IsSetup(s, 0, d, n, m)
  BY DEF Part
<1> HIDE DEF n
<1>2. IsSetup(u, o, d, n, m)
  BY <1>1, SetupPlaced
<1> QED
  BY <1>2 DEF n

LEMMA Settings ==
    /\ dpll_core.m = 50 /\ dpll_core.n = 23 /\ dpll_core.m2 = <<-1, -1, 1, 1, 1>>
    /\ dpll_mpu.m = 300 /\ dpll_mpu.n = 23 /\ dpll_mpu.m2 = <<1, -1, -1, -1, -1>>
    /\ dpll_per.m = 960 /\ dpll_per.n = 23 /\ dpll_per.m2 = <<5, -1, -1, -1, -1>>
    /\ dpll_ddr_evm_sk.m = 303 /\ dpll_ddr_evm_sk.n = 23
    /\ dpll_ddr_evm_sk.m2 = <<1, -1, -1, -1, -1>>
    /\ dpll_core_opp100.m = 1000 /\ dpll_core_opp100.n = 23
    /\ dpll_core_opp100.m2 = <<-1, -1, 10, 8, 4>>
    /\ dpll_mpu_opp100.m = -1 /\ dpll_mpu_opp100.n = 23
    /\ dpll_mpu_opp100.m2 = <<1, -1, -1, -1, -1>>
  BY SMTT(10) DEF dpll_core, dpll_mpu, dpll_per, dpll_ddr_evm_sk, dpll_core_opp100,
     dpll_mpu_opp100, dpll_params, OSC, Fused

LEMMA SetupsPart ==
    /\ LET s == do_setup_dpll("core", dpll_core) IN
       s \in Seq(Statements) /\ Len(s) = 9 /\ IsSetup(s, 0, "core", 9, 50)
    /\ LET s == do_setup_dpll("mpu", dpll_mpu) IN
       s \in Seq(Statements) /\ Len(s) = 7 /\ IsSetup(s, 0, "mpu", 7, 300)
    /\ LET s == do_setup_dpll("per", dpll_per) IN
       s \in Seq(Statements) /\ Len(s) = 7 /\ IsSetup(s, 0, "per", 7, 960)
    /\ LET s == do_setup_dpll("ddr", dpll_ddr_evm_sk) IN
       s \in Seq(Statements) /\ Len(s) = 7 /\ IsSetup(s, 0, "ddr", 7, 303)
    /\ LET s == do_setup_dpll("core", dpll_core_opp100) IN
       s \in Seq(Statements) /\ Len(s) = 9 /\ IsSetup(s, 0, "core", 9, 1000)
    /\ LET s == do_setup_dpll("mpu", dpll_mpu_opp100) IN
       s \in Seq(Statements) /\ Len(s) = 7 /\ IsSetup(s, 0, "mpu", 7, -1)
<1> DEFINE Good(d, p) == LET s == do_setup_dpll(d, p) IN
               s \in Seq(Statements) /\ Len(s) = 7 /\ IsSetup(s, 0, d, 7, p.m)
           GoodCore(p) == LET s == do_setup_dpll("core", p) IN
               s \in Seq(Statements) /\ Len(s) = 9 /\ IsSetup(s, 0, "core", 9, p.m)
<1>1. ASSUME NEW d \in {"mpu", "per", "ddr"}, NEW p, NEW x \in Nat, p.n = 23, p.m \in Int,
             p.m2 = <<x, -1, -1, -1, -1>>
      PROVE  Good(d, p)
  BY <1>1, SetupOne
<1>2. ASSUME NEW p, NEW x \in Nat, NEW y \in Nat, NEW z \in Nat, p.n = 23, p.m \in Int,
             p.m2 = <<-1, -1, x, y, z>>
      PROVE  GoodCore(p)
  BY <1>2, SetupCore
<1> HIDE DEF Good, GoodCore
<1>3. Good("mpu", dpll_mpu) /\ Good("per", dpll_per) /\ Good("ddr", dpll_ddr_evm_sk)
      /\ Good("mpu", dpll_mpu_opp100)
  BY <1>1, Settings
<1>4. GoodCore(dpll_core) /\ GoodCore(dpll_core_opp100)
  BY <1>2, Settings
<1> QED
  BY <1>3, <1>4, Settings DEF Good, GoodCore

LEMMA DpllsPart ==
    LET s == setup_dplls IN
    /\ s \in Seq(Statements) /\ Len(s) = 31
    /\ IsSetup(s, 0, "core", 9, 50) /\ IsSetup(s, 9, "mpu", 7, 300)
    /\ IsSetup(s, 16, "per", 7, 960)
    /\ s[24] = Write_(CMWKUP.CLKDCOLDODPLLPER, 768)
    /\ IsSetup(s, 24, "ddr", 7, 303)
<1> DEFINE w == Write_(CMWKUP.CLKDCOLDODPLLPER, 768)
           a == do_setup_dpll("core", dpll_core)
           b == do_setup_dpll("mpu", dpll_mpu)
           c == do_setup_dpll("per", dpll_per)
           d == <<w>>
           e == do_setup_dpll("ddr", dpll_ddr_evm_sk)
<1>1. setup_dplls = a \o b \o c \o d \o e
  BY SMTT(10) DEF setup_dplls, writel, Write_
<1>2. d \in Seq(Statements) /\ Len(d) = 1 /\ d[1] = w
  <2>1. w \in Statements
    BY SMTT(10) DEF Write_, Statements, CMWKUP, CM_WKUP
  <2> QED
    BY <2>1
<1>3. /\ a \in Seq(Statements) /\ Len(a) = 9 /\ IsSetup(a, 0, "core", 9, 50)
      /\ b \in Seq(Statements) /\ Len(b) = 7 /\ IsSetup(b, 0, "mpu", 7, 300)
      /\ c \in Seq(Statements) /\ Len(c) = 7 /\ IsSetup(c, 0, "per", 7, 960)
      /\ e \in Seq(Statements) /\ Len(e) = 7 /\ IsSetup(e, 0, "ddr", 7, 303)
  BY SetupsPart, SMTT(10)
<1> HIDE DEF w, a, b, c, d, e
<1> DEFINE u2 == a \o b
           u3 == u2 \o c
           u4 == u3 \o d
           u5 == u4 \o e
<1>4. Joins(u2, a, 9, b, 7)
  BY <1>2, <1>3, Joining, ZenonT(60)
<1> HIDE DEF u2
<1>5. Joins(u3, u2, 16, c, 7)
  <2>1. u2 \in Seq(Statements) /\ Len(u2) = 16
    BY <1>4 DEF Joins
  <2> QED
    BY <1>2, <1>3, <2>1, Joining, ZenonT(60)
<1> HIDE DEF u3
<1>6. Joins(u4, u3, 23, d, 1)
  <2>1. u3 \in Seq(Statements) /\ Len(u3) = 23
    BY <1>5 DEF Joins
  <2> QED
    BY <1>2, <1>3, <2>1, Joining, ZenonT(60)
<1> HIDE DEF u4
<1>7. Joins(u5, u4, 24, e, 7)
  <2>1. u4 \in Seq(Statements) /\ Len(u4) = 24
    BY <1>6 DEF Joins
  <2> QED
    BY <1>2, <1>3, <2>1, Joining, ZenonT(60)
<1> HIDE DEF u5
<1>8. /\ u5 \in Seq(Statements) /\ Len(u5) = 31
      /\ Part(u5, 0, a)
      /\ Part(u5, 9, b)
      /\ Part(u5, 16, c)
      /\ Part(u5, 23, d)
      /\ Part(u5, 24, e)
  BY <1>4, <1>5, <1>6, <1>7 DEF Joins
<1>9. IsSetup(u5, 0, "core", 9, 50)
  <2>1. Part(u5, 0, a) /\ Len(a) = 9 /\ IsSetup(a, 0, "core", 9, 50)
    BY <1>8, <1>3
  <2> QED
    BY <2>1, CoreSetupIn
<1>10. IsSetup(u5, 9, "mpu", 7, 300)
  <2>1. Part(u5, 9, b) /\ Len(b) = 7 /\ IsSetup(b, 0, "mpu", 7, 300)
    BY <1>8, <1>3
  <2> QED
    BY <2>1, SetupIn
<1>11. IsSetup(u5, 16, "per", 7, 960)
  <2>1. Part(u5, 16, c) /\ Len(c) = 7 /\ IsSetup(c, 0, "per", 7, 960)
    BY <1>8, <1>3
  <2> QED
    BY <2>1, SetupIn
<1>12. IsSetup(u5, 24, "ddr", 7, 303)
  <2>1. Part(u5, 24, e) /\ Len(e) = 7 /\ IsSetup(e, 0, "ddr", 7, 303)
    BY <1>8, <1>3
  <2> QED
    BY <2>1, SetupIn
<1>13. u5[24] = w
  BY <1>8, <1>2 DEF Part, At
<1>14. setup_dplls = u5
  BY <1>1 DEF u2, u3, u4, u5
<1> QED
  BY <1>8, <1>9, <1>10, <1>11, <1>12, <1>13, <1>14, Zenon DEF w

domainsPart == [k \in 1 .. Len(domains) |-> enable_clk_domain(domains[k])[1]]
modsPart == [k \in 1 .. 2 * Len(mods) |-> enable_clk_mod(mods[(k + 1) \div 2])[2 - (k % 2)]]

LEMMA ClocksPart ==
    LET s == prcm_init IN
    /\ s \in Seq(Statements) /\ Len(s) = 87
    /\ Part(s, 0, domainsPart) /\ Part(s, 7, modsPart)
    /\ s[56] = Write_(CMDPLL_CLKTIMER2CLK, 1)
    /\ Part(s, 56, setup_dplls)
<1> DEFINE w == Write_(CMDPLL_CLKTIMER2CLK, 1)
           a == domainsPart
           b == modsPart
           c == <<w>>
           e == setup_dplls
<1>1. prcm_init = (a \o b \o c) \o e
  BY SMTT(10) DEF prcm_init, enable_basic_clocks, domainsPart, modsPart, writel, Write_
<1>2. c \in Seq(Statements) /\ Len(c) = 1 /\ c[1] = w
  <2>1. w \in Statements
    BY SMTT(10) DEF Write_, Statements, CMDPLL_CLKTIMER2CLK, CM_DPLL
  <2> QED
    BY <2>1
<1>3. a \in Seq(Statements) /\ Len(a) = 7 /\ b \in Seq(Statements) /\ Len(b) = 48
  BY DomainsPart, ModulesPart DEF domainsPart, modsPart
<1>4. e \in Seq(Statements) /\ Len(e) = 31
  BY DpllsPart, SMTT(10)
<1> HIDE DEF w, a, b, c, e
<1> DEFINE u2 == a \o b
           u3 == u2 \o c
           u4 == u3 \o e
<1>5. Joins(u2, a, 7, b, 48)
  BY <1>2, <1>3, <1>4, Joining, ZenonT(60)
<1> HIDE DEF u2
<1>6. Joins(u3, u2, 55, c, 1)
  <2>1. u2 \in Seq(Statements) /\ Len(u2) = 55
    BY <1>5 DEF Joins
  <2> QED
    BY <1>2, <1>3, <1>4, <2>1, Joining, ZenonT(60)
<1> HIDE DEF u3
<1>7. Joins(u4, u3, 56, e, 31)
  <2>1. u3 \in Seq(Statements) /\ Len(u3) = 56
    BY <1>6 DEF Joins
  <2> QED
    BY <1>2, <1>3, <1>4, <2>1, Joining, ZenonT(60)
<1> HIDE DEF u4
<1>8. /\ u4 \in Seq(Statements) /\ Len(u4) = 87
      /\ Part(u4, 0, a)
      /\ Part(u4, 7, b)
      /\ Part(u4, 55, c)
      /\ Part(u4, 56, e)
  BY <1>5, <1>6, <1>7 DEF Joins
<1>9. u4[56] = w
  BY <1>8, <1>2 DEF Part, At
<1>10. prcm_init = u4
  BY <1>1 DEF u2, u3, u4
<1> QED
  BY <1>8, <1>9, <1>10 DEF w, a, b, e

LEMMA VoltagePart ==
    LET s == voltage_update IN
    /\ s \in Seq(Statements) /\ Len(s) = 18
    /\ s[1] = [do |-> "efuse"] /\ s[2] = [do |-> "voltages"]
    /\ IsSetup(s, 2, "core", 9, 1000) /\ IsSetup(s, 11, "mpu", 7, -1)
<1> DEFINE x == [do |-> "efuse"]
           y == [do |-> "voltages"]
           a == <<x, y>>
           b == do_setup_dpll("core", dpll_core_opp100)
           c == do_setup_dpll("mpu", dpll_mpu_opp100)
<1>1. voltage_update = a \o b \o c
  BY DEF voltage_update
<1>2. a \in Seq(Statements) /\ Len(a) = 2 /\ a[1] = x /\ a[2] = y
  <2>1. x \in Statements /\ y \in Statements
    BY SMTT(10) DEF Statements
  <2> HIDE DEF x, y
  <2> QED
    BY <2>1
<1>3. /\ b \in Seq(Statements) /\ Len(b) = 9 /\ IsSetup(b, 0, "core", 9, 1000)
      /\ c \in Seq(Statements) /\ Len(c) = 7 /\ IsSetup(c, 0, "mpu", 7, -1)
  BY SetupsPart, SMTT(10)
<1> HIDE DEF x, y, a, b, c
<1> DEFINE u2 == a \o b
           u3 == u2 \o c
<1>4. Joins(u2, a, 2, b, 9)
  BY <1>2, <1>3, Joining, ZenonT(60)
<1> HIDE DEF u2
<1>5. Joins(u3, u2, 11, c, 7)
  <2>1. u2 \in Seq(Statements) /\ Len(u2) = 11
    BY <1>4 DEF Joins
  <2> QED
    BY <1>2, <1>3, <2>1, Joining, ZenonT(60)
<1> HIDE DEF u3
<1>6. /\ u3 \in Seq(Statements) /\ Len(u3) = 18
      /\ Part(u3, 0, a)
      /\ Part(u3, 2, b)
      /\ Part(u3, 11, c)
  BY <1>4, <1>5 DEF Joins
<1>7. IsSetup(u3, 2, "core", 9, 1000)
  <2>1. Part(u3, 2, b) /\ Len(b) = 9 /\ IsSetup(b, 0, "core", 9, 1000)
    BY <1>6, <1>3
  <2> QED
    BY <2>1, CoreSetupIn
<1>8. IsSetup(u3, 11, "mpu", 7, -1)
  <2>1. Part(u3, 11, c) /\ Len(c) = 7 /\ IsSetup(c, 0, "mpu", 7, -1)
    BY <1>6, <1>3
  <2> QED
    BY <2>1, SetupIn
<1>9. u3[1] = x /\ u3[2] = y
  BY <1>6, <1>2 DEF Part, At
<1>10. voltage_update = u3
  BY <1>1 DEF u2, u3
<1> QED
  BY <1>6, <1>7, <1>8, <1>9, <1>10, Zenon DEF x, y

LEMMA NandPart ==
    LET s == omap_nand_init IN
    /\ s \in Seq(Statements) /\ Len(s) = 3
    /\ s[1] = [do |-> "select"]
    /\ s[2] = [do |-> "set", reg |-> GPMC_CONFIG, bit |-> 16]
    /\ s[3] = [do |-> "width"]
<1> DEFINE x == [do |-> "select"]
           y == [do |-> "set", reg |-> GPMC_CONFIG, bit |-> 16]
           z == [do |-> "width"]
<1>1. x \in Statements /\ y \in Statements /\ z \in Statements
  BY SMTT(10) DEF Statements, GPMC_CONFIG, GPMC_BASE
<1>2. omap_nand_init = <<x>> \o <<y>> \o <<z>>
  BY DEF omap_nand_init, SetBits
<1> HIDE DEF x, y, z
<1>3. LET s == <<x>> \o <<y>> IN s \in Seq(Statements) /\ Len(s) = 2 /\ s[1] = x /\ s[2] = y
  BY <1>1, Two
<1>4. LET s == <<x>> \o <<y>> \o <<z>> IN
      s \in Seq(Statements) /\ Len(s) = 3 /\ s[1] = x /\ s[2] = y /\ s[3] = z
  BY <1>1, <1>3, Added
<1> QED
  BY <1>2, <1>4, Zenon DEF x, y, z

ddrPart == config_ddr(\h18B, ddr3_evm_data, ddr3_evm_cmd_ctrl_data, ddr3_evm_emif_reg_data)

(* Where the parts of the program are. *)
LEMMA Layout ==
    /\ lowlevel_init \in Seq(Statements) /\ Len(lowlevel_init) = 218
    /\ Part(lowlevel_init, 0, watchdog_disable) /\ Part(lowlevel_init, 4, timer_init)
    /\ Part(lowlevel_init, 6, prcm_init) /\ Part(lowlevel_init, 93, board_pin_mux)
    /\ Part(lowlevel_init, 134, ddrPart) /\ Part(lowlevel_init, 180, gpmc_init(0))
    /\ Part(lowlevel_init, 192, omap_i2c_init(I2C0_BASE))
    /\ Part(lowlevel_init, 197, voltage_update) /\ Part(lowlevel_init, 215, omap_nand_init)
<1> DEFINE a == watchdog_disable
           b == timer_init
           c == prcm_init
           d == board_pin_mux
           e == ddrPart
           f == gpmc_init(0)
           g == omap_i2c_init(I2C0_BASE)
           h == voltage_update
           i == omap_nand_init
<1>1. lowlevel_init = a \o b \o c \o d \o e \o f \o g \o h \o i
  BY DEF lowlevel_init, ddrPart
<1>2. /\ a \in Seq(Statements) /\ Len(a) = 4 /\ b \in Seq(Statements) /\ Len(b) = 2
      /\ c \in Seq(Statements) /\ Len(c) = 87 /\ d \in Seq(Statements) /\ Len(d) = 41
  BY WatchdogPart, TimerPart, ClocksPart, PinPart, SMTT(10)
<1>3. e \in Seq(Statements) /\ Len(e) = 46
  BY DdrPart, SMTT(10) DEF ddrPart
<1>4. /\ f \in Seq(Statements) /\ Len(f) = 12 /\ g \in Seq(Statements) /\ Len(g) = 5
      /\ h \in Seq(Statements) /\ Len(h) = 18 /\ i \in Seq(Statements) /\ Len(i) = 3
  BY GpmcPart, I2cPart, VoltagePart, NandPart, SMTT(10)
<1> HIDE DEF a, b, c, d, e, f, g, h, i
<1> DEFINE u2 == a \o b
           u3 == u2 \o c
           u4 == u3 \o d
           u5 == u4 \o e
           u6 == u5 \o f
           u7 == u6 \o g
           u8 == u7 \o h
           u9 == u8 \o i
<1>5. Joins(u2, a, 4, b, 2)
  BY <1>2, <1>3, <1>4, Joining, ZenonT(60)
<1> HIDE DEF u2
<1>6. Joins(u3, u2, 6, c, 87)
  <2>1. u2 \in Seq(Statements) /\ Len(u2) = 6
    BY <1>5 DEF Joins
  <2> QED
    BY <1>2, <1>3, <1>4, <2>1, Joining, ZenonT(60)
<1> HIDE DEF u3
<1>7. Joins(u4, u3, 93, d, 41)
  <2>1. u3 \in Seq(Statements) /\ Len(u3) = 93
    BY <1>6 DEF Joins
  <2> QED
    BY <1>2, <1>3, <1>4, <2>1, Joining, ZenonT(60)
<1> HIDE DEF u4
<1>8. Joins(u5, u4, 134, e, 46)
  <2>1. u4 \in Seq(Statements) /\ Len(u4) = 134
    BY <1>7 DEF Joins
  <2> QED
    BY <1>2, <1>3, <1>4, <2>1, Joining, ZenonT(60)
<1> HIDE DEF u5
<1>9. Joins(u6, u5, 180, f, 12)
  <2>1. u5 \in Seq(Statements) /\ Len(u5) = 180
    BY <1>8 DEF Joins
  <2> QED
    BY <1>2, <1>3, <1>4, <2>1, Joining, ZenonT(60)
<1> HIDE DEF u6
<1>10. Joins(u7, u6, 192, g, 5)
  <2>1. u6 \in Seq(Statements) /\ Len(u6) = 192
    BY <1>9 DEF Joins
  <2> QED
    BY <1>2, <1>3, <1>4, <2>1, Joining, ZenonT(60)
<1> HIDE DEF u7
<1>11. Joins(u8, u7, 197, h, 18)
  <2>1. u7 \in Seq(Statements) /\ Len(u7) = 197
    BY <1>10 DEF Joins
  <2> QED
    BY <1>2, <1>3, <1>4, <2>1, Joining, ZenonT(60)
<1> HIDE DEF u8
<1>12. Joins(u9, u8, 215, i, 3)
  <2>1. u8 \in Seq(Statements) /\ Len(u8) = 215
    BY <1>11 DEF Joins
  <2> QED
    BY <1>2, <1>3, <1>4, <2>1, Joining, ZenonT(60)
<1> HIDE DEF u9
<1>13. /\ u9 \in Seq(Statements) /\ Len(u9) = 218
       /\ Part(u9, 0, a)
       /\ Part(u9, 4, b)
       /\ Part(u9, 6, c)
       /\ Part(u9, 93, d)
       /\ Part(u9, 134, e)
       /\ Part(u9, 180, f)
       /\ Part(u9, 192, g)
       /\ Part(u9, 197, h)
       /\ Part(u9, 215, i)
  BY <1>5, <1>6, <1>7, <1>8, <1>9, <1>10, <1>11, <1>12 DEF Joins
<1>14. lowlevel_init = u9
  BY <1>1 DEF u2, u3, u4, u5, u6, u7, u8, u9
<1> QED
  BY <1>13, <1>14 DEF a, b, c, d, e, f, g, h, i

-----------------------------------------------------------------------------
(* The set-ups of the PLLs: d by the n statements after the o first, with  *)
(* the multiplier m.  The last of each PLL are Final.                      *)
SetupOf(d, o, n, m) == [d |-> d, o |-> o, n |-> n, m |-> m]
Final == {SetupOf("per", 78, 7, 960), SetupOf("ddr", 86, 7, 303),
          SetupOf("core", 199, 9, 1000), SetupOf("mpu", 208, 7, -1)}
Setups == Final \cup {SetupOf("core", 62, 9, 50), SetupOf("mpu", 71, 7, 300)}

LEMMA AtMoved ==
    ASSUME NEW u \in Seq(Statements), NEW s, NEW t, NEW o \in Nat, NEW q,
           Part(u, o, s), Part(s, q, t)
    PROVE  Part(u, o + q, t)
<1>1. /\ s \in Seq(Statements) /\ o + Len(s) <= Len(u)
      /\ t \in Seq(Statements) /\ q \in Nat /\ q + Len(t) <= Len(s)
  BY DEF Part
<1>2. Len(s) \in Nat /\ Len(t) \in Nat
  BY <1>1
<1> DEFINE n == Len(s)
           m == Len(t)
<1> HIDE DEF n, m
<1>3. n \in Nat /\ m \in Nat /\ Len(s) = n /\ Len(t) = m /\ q + m <= n
  BY <1>1, <1>2 DEF n, m
<1>4. At(u, o, s) /\ At(s, q, t)
  BY DEF Part
<1>5. At(u, o + q, t)
  BY <1>1, <1>3, <1>4, Within, Zenon
<1>6. (o + q) + m <= Len(u) /\ o + q \in Nat
  BY <1>1, <1>3
<1> QED
  BY <1>1, <1>5, <1>6 DEF Part, m

LEMMA SetupShifted ==
    ASSUME NEW P, NEW o \in Nat, NEW q \in Nat, NEW n \in {7, 9}, NEW s, NEW d, NEW m,
           NEW l \in Nat, \A k \in 1 .. l : P[q + k] = s[k], o + n <= l, IsSetup(s, o, d, n, m)
    PROVE  IsSetup(P, q + o, d, n, m)
<1>1. \A k \in 1 .. n : P[(q + o) + k] = s[o + k]
  <2>1. \A k \in 1 .. n : o + k \in 1 .. l /\ q + (o + k) = (q + o) + k
    OBVIOUS
  <2> QED
    BY <2>1
<1>2. /\ P[(q + o) + 1] = s[o + 1] /\ P[(q + o) + 2] = s[o + 2]
      /\ P[(q + o) + 3] = s[o + 3] /\ P[(q + o) + 4] = s[o + 4]
      /\ P[(q + o) + n] = s[o + n]
  BY <1>1
<1>3. P[(q + o) + n - 1] = s[o + n - 1]
  <2>1. (q + o) + (n - 1) = (q + o) + n - 1 /\ o + (n - 1) = o + n - 1 /\ n - 1 \in 1 .. n
    OBVIOUS
  <2>2. P[(q + o) + (n - 1)] = s[o + (n - 1)]
    BY <2>1, <1>1
  <2> QED
    BY <2>1, <2>2
<1>4. ASSUME NEW k \in (q + o) + 5 .. (q + o) + n - 2
      PROVE  P[k].do = "write" /\ \E i \in 1 .. 5 : P[k].reg = dpll_regs[d].div[i]
  <2>1. k - (q + o) \in 1 .. n /\ (q + o) + (k - (q + o)) = k
        /\ o + (k - (q + o)) = k - q /\ k - q \in o + 5 .. o + n - 2
    OBVIOUS
  <2>2. P[k] = s[k - q]
    BY <2>1, <1>1
  <2> QED
    BY <2>1, <2>2 DEF IsSetup
<1>5. /\ s[o + 1] = [do |-> "read", reg |-> dpll_regs[d].clksel]
      /\ s[o + 2] = Field_(dpll_regs[d].clkmode, 8, 4)
      /\ s[o + 3] = Spin_("bypassed", d)
      /\ s[o + 4] = Clksel_(d, m, 23)
      /\ s[o + n - 1] = Field_(dpll_regs[d].clkmode, 8, 7)
      /\ s[o + n] = Spin_("locked", d)
  BY DEF IsSetup
<1> QED
  BY <1>2, <1>3, <1>4, <1>5 DEF IsSetup

LEMMA SetupsPlaced ==
    \A x \in Setups : IsSetup(lowlevel_init, x.o, x.d, x.n, x.m)
<1> DEFINE P == lowlevel_init
           c == prcm_init
           e == setup_dplls
           v == voltage_update
<1>1. /\ Part(P, 6, c) /\ Part(P, 197, v) /\ P \in Seq(Statements) /\ Len(P) = 218
  BY Layout
<1>2. Part(c, 56, e) /\ c \in Seq(Statements) /\ Len(c) = 87
  BY ClocksPart, SMTT(10)
<1>3. /\ e \in Seq(Statements) /\ Len(e) = 31
      /\ IsSetup(e, 0, "core", 9, 50) /\ IsSetup(e, 9, "mpu", 7, 300)
      /\ IsSetup(e, 16, "per", 7, 960) /\ IsSetup(e, 24, "ddr", 7, 303)
  BY DpllsPart
<1>4. /\ v \in Seq(Statements) /\ Len(v) = 18
      /\ IsSetup(v, 2, "core", 9, 1000) /\ IsSetup(v, 11, "mpu", 7, -1)
  BY VoltagePart
<1> HIDE DEF P, c, e, v
<1>5. Part(P, 62, e)
  <2> DEFINE o == 6
             q == 56
  <2>1. o \in Nat /\ Part(P, o, c) /\ Part(c, q, e) /\ P \in Seq(Statements)
    BY <1>1, <1>2
  <2> HIDE DEF o, q
  <2>2. Part(P, o + q, e)
    BY <2>1, AtMoved
  <2> QED
    BY <2>2 DEF o, q
<1>6. (\A k \in 1 .. 31 : P[62 + k] = e[k]) /\ \A k \in 1 .. 18 : P[197 + k] = v[k]
  BY <1>1, <1>3, <1>4, <1>5 DEF Part, At
<1>7. \A o \in Nat, n \in {7, 9} : \A d, m :
          o + n <= 31 /\ IsSetup(e, o, d, n, m) => IsSetup(P, 62 + o, d, n, m)
  <2> DEFINE q == 62
             l == 31
  <2>1. q \in Nat /\ l \in Nat /\ \A k \in 1 .. l : P[q + k] = e[k]
    BY <1>6
  <2> HIDE DEF q, l
  <2>2. ASSUME NEW o \in Nat, NEW n \in {7, 9}, NEW d, NEW m, o + n <= l, IsSetup(e, o, d, n, m)
        PROVE  IsSetup(P, q + o, d, n, m)
    BY <2>1, <2>2, SetupShifted
  <2> QED
    BY <2>2 DEF q, l
<1>75. \A o \in Nat, n \in {7, 9} : \A d, m :
          o + n <= 18 /\ IsSetup(v, o, d, n, m) => IsSetup(P, 197 + o, d, n, m)
  <2> DEFINE q == 197
             l == 18
  <2>1. q \in Nat /\ l \in Nat /\ \A k \in 1 .. l : P[q + k] = v[k]
    BY <1>6
  <2> HIDE DEF q, l
  <2>2. ASSUME NEW o \in Nat, NEW n \in {7, 9}, NEW d, NEW m, o + n <= l, IsSetup(v, o, d, n, m)
        PROVE  IsSetup(P, q + o, d, n, m)
    BY <2>1, <2>2, SetupShifted
  <2> QED
    BY <2>2 DEF q, l
<1>8. IsSetup(P, 62, "core", 9, 50)
  BY <1>3, <1>7
<1>9. IsSetup(P, 71, "mpu", 7, 300)
  BY <1>3, <1>7
<1>10. IsSetup(P, 78, "per", 7, 960)
  BY <1>3, <1>7
<1>11. IsSetup(P, 86, "ddr", 7, 303)
  BY <1>3, <1>7
<1>12. IsSetup(P, 199, "core", 9, 1000)
  BY <1>4, <1>75
<1>13. IsSetup(P, 208, "mpu", 7, -1)
  BY <1>4, <1>75
<1> QED
  BY <1>8, <1>9, <1>10, <1>11, <1>12, <1>13 DEF Setups, Final, SetupOf, P

-----------------------------------------------------------------------------
(* What each statement of the program is, part by part. *)
LEMMA SeqOf ==
    ASSUME NEW S, NEW s \in Seq(S), NEW n, Len(s) = n
    PROVE  DOMAIN s = 1 .. n /\ \A k \in 1 .. n : s[k] \in S
  OBVIOUS

LEMMA ProgramTyped ==
    /\ lowlevel_init \in Seq(Statements) /\ Len(lowlevel_init) = 218
    /\ DOMAIN lowlevel_init = 1 .. 218
    /\ \A k \in 1 .. 218 : lowlevel_init[k] \in Statements
<1> DEFINE P == lowlevel_init
           n == Len(P)
<1>1. P \in Seq(Statements)
  BY Layout
<1>2. n = 218
  BY Layout
<1> HIDE DEF P
<1>3. DOMAIN P = 1 .. n /\ \A k \in 1 .. n : P[k] \in Statements
  BY <1>1, SeqOf, Zenon
<1> HIDE DEF n
<1>4. DOMAIN P = 1 .. 218 /\ \A k \in 1 .. 218 : P[k] \in Statements
  BY <1>2, <1>3
<1> QED
  BY <1>1, <1>2, <1>4 DEF P, n

LEMMA EarlyAre ==
    \A k \in 1 .. 6 :
        LET st == lowlevel_init[k] IN
        \/ st.do = "spin"
        \/ st.do = "write" /\ st.reg \in {WDTREG_WSPR, TMREG_TLDR, TMREG_TCLR}
<1> DEFINE P == lowlevel_init
<1>1. Part(P, 0, watchdog_disable) /\ Part(P, 4, timer_init)
  BY Layout
<1> HIDE DEF P
<1>2. /\ \A k \in 1 .. 4 : P[0 + k] = watchdog_disable[k]
      /\ \A k \in 1 .. 2 : P[4 + k] = timer_init[k]
  <2>1. Len(watchdog_disable) = 4 /\ Len(timer_init) = 2
    BY WatchdogPart, TimerPart, SMTT(10)
  <2> QED
    BY <1>1, <2>1, Zenon DEF Part, At
<1>3. /\ P[1] = watchdog_disable[1] /\ P[2] = watchdog_disable[2]
      /\ P[3] = watchdog_disable[3] /\ P[4] = watchdog_disable[4]
      /\ P[5] = timer_init[1] /\ P[6] = timer_init[2]
  BY <1>2
<1>4. /\ P[1].do = "write" /\ P[1].reg = WDTREG_WSPR
      /\ P[2].do = "spin"
      /\ P[3].do = "write" /\ P[3].reg = WDTREG_WSPR
      /\ P[4].do = "spin"
      /\ P[5].do = "write" /\ P[5].reg = TMREG_TLDR
      /\ P[6].do = "write" /\ P[6].reg = TMREG_TCLR
  BY <1>3, WatchdogPart, TimerPart, SMTT(10) DEF Write_, Spin_
<1> QED
  BY <1>4 DEF P

LEMMA DomainsAre ==
    \A k \in 7 .. 13 : lowlevel_init[k] = Field_(domains[k - 6], 4, 2)
<1> DEFINE P == lowlevel_init
           c == prcm_init
           s == domainsPart
           o == 6
           q == 0
<1>1. Part(P, o, c) /\ Part(c, q, s) /\ P \in Seq(Statements) /\ o \in Nat
  BY Layout, ClocksPart, SMTT(10)
<1>2. Len(s) = 7 /\ \A k \in 1 .. 7 : s[k] = Field_(domains[k], 4, 2)
  BY DomainsPart, SMTT(10) DEF domainsPart
<1> HIDE DEF P, c, s, o, q
<1>3. Part(P, o + q, s)
  BY <1>1, AtMoved
<1>35. o + q = 6
  BY DEF o, q
<1>4. \A k \in 1 .. 7 : P[6 + k] = s[k]
  BY <1>2, <1>3, <1>35, Zenon DEF Part, At
<1>5. ASSUME NEW k \in 7 .. 13 PROVE P[k] = Field_(domains[k - 6], 4, 2)
  <2> DEFINE i == k - 6
  <2>1. i \in 1 .. 7 /\ 6 + i = k
    OBVIOUS
  <2> HIDE DEF i
  <2>2. P[k] = Field_(domains[i], 4, 2)
    BY <2>1, <1>2, <1>4
  <2> QED
    BY <2>2 DEF i
<1> QED
  BY <1>5 DEF P

LEMMA ModulesAre ==
    \A j \in 1 .. 24 : /\ lowlevel_init[12 + 2 * j] = Field_(mods[j], 4, 2)
                       /\ lowlevel_init[13 + 2 * j] = Spin_("module", mods[j])
<1> DEFINE P == lowlevel_init
           c == prcm_init
           s == modsPart
           o == 6
           q == 7
<1>1. Part(P, o, c) /\ Part(c, q, s) /\ P \in Seq(Statements) /\ o \in Nat
  BY Layout, ClocksPart, SMTT(10)
<1>2. Len(s) = 48 /\ \A j \in 1 .. 24 : /\ s[2 * j - 1] = Field_(mods[j], 4, 2)
                                        /\ s[2 * j] = Spin_("module", mods[j])
  BY ModulesPart, SMTT(10) DEF modsPart
<1> HIDE DEF P, c, s, o, q
<1>3. Part(P, o + q, s)
  BY <1>1, AtMoved
<1>35. o + q = 13
  BY DEF o, q
<1>4. \A k \in 1 .. 48 : P[13 + k] = s[k]
  BY <1>2, <1>3, <1>35, Zenon DEF Part, At
<1>5. ASSUME NEW j \in 1 .. 24
      PROVE  P[12 + 2 * j] = Field_(mods[j], 4, 2) /\ P[13 + 2 * j] = Spin_("module", mods[j])
  <2>1. 2 * j - 1 \in 1 .. 48 /\ 2 * j \in 1 .. 48 /\ 13 + (2 * j - 1) = 12 + 2 * j
    OBVIOUS
  <2> QED
    BY <2>1, <1>2, <1>4
<1> QED
  BY <1>5 DEF P

LEMMA LooseAre ==
    /\ lowlevel_init[62] = Write_(CMDPLL_CLKTIMER2CLK, 1)
    /\ lowlevel_init[86] = Write_(CMWKUP.CLKDCOLDODPLLPER, 768)
<1> DEFINE P == lowlevel_init
           c == prcm_init
           s == setup_dplls
           o == 6
           q == 56
           x == Write_(CMDPLL_CLKTIMER2CLK, 1)
           y == Write_(CMWKUP.CLKDCOLDODPLLPER, 768)
<1>1. /\ Part(P, o, c) /\ Part(c, q, s) /\ P \in Seq(Statements) /\ o \in Nat
      /\ Len(c) = 87 /\ c[56] = x
  BY Layout, ClocksPart, SMTT(10)
<1>2. Len(s) = 31 /\ s[24] = y
  BY DpllsPart, SMTT(10)
<1> HIDE DEF P, c, s, o, q, x, y
<1>3. Part(P, o + q, s)
  BY <1>1, AtMoved
<1>4. P[o + 56] = x /\ P[(o + q) + 24] = y
  BY <1>1, <1>2, <1>3 DEF Part, At
<1> QED
  BY <1>4 DEF o, q, P, x, y

LEMMA PinsAre ==
    /\ lowlevel_init[120] = Write_(CM_RTC, 48)
    /\ \A k \in 94 .. 134 :
          /\ lowlevel_init[k].do = "write" /\ lowlevel_init[k].reg \in PinRegisters
          /\ k # 120 => lowlevel_init[k].reg >= CM_RTC + 4
<1> DEFINE P == lowlevel_init
           s == board_pin_mux
<1>1. Part(P, 93, s)
  BY Layout
<1>2. Len(s) = 41
  BY PinPart, SMTT(10)
<1> HIDE DEF P, s
<1>3. \A k \in 1 .. 41 : P[93 + k] = s[k]
  BY <1>1, <1>2, Zenon DEF Part, At
<1>4. P[120] = s[27]
  BY <1>3
<1>5. ASSUME NEW k \in 94 .. 134
      PROVE  P[k].do = "write" /\ P[k].reg \in PinRegisters /\ (k # 120 => P[k].reg >= CM_RTC + 4)
  <2> DEFINE i == k - 93
  <2>1. i \in 1 .. 41 /\ 93 + i = k /\ (k # 120 => i # 27)
    OBVIOUS
  <2> HIDE DEF i
  <2>3. P[k] = s[i]
    BY <2>1, <1>3
  <2>2. /\ s[i].do = "write" /\ s[i].reg \in PinRegisters
        /\ (i # 27 => s[i].reg >= CM_RTC + 4)
    BY <2>1, PinPart, Zenon DEF s
  <2> QED
    BY <2>1, <2>2, <2>3, Zenon
<1> QED
  BY <1>4, <1>5, PinPart, SMTT(10) DEF P, s

LEMMA DdrAre ==
    /\ lowlevel_init[135] = [do |-> "set", reg |-> VTP0_CTRL_ADDR, bit |-> 64]
    /\ lowlevel_init[136] = [do |-> "clear", reg |-> VTP0_CTRL_ADDR, bit |-> 1]
    /\ lowlevel_init[137] = [do |-> "set", reg |-> VTP0_CTRL_ADDR, bit |-> 1]
    /\ lowlevel_init[138] = Spin_("vtp", VTP0_CTRL_ADDR)
    /\ \A k \in 139 .. 180 : lowlevel_init[k].do = "write" /\ lowlevel_init[k].reg \in DdrRegisters
<1> DEFINE P == lowlevel_init
           s == ddrPart
           a == [do |-> "set", reg |-> VTP0_CTRL_ADDR, bit |-> 64]
           b == [do |-> "clear", reg |-> VTP0_CTRL_ADDR, bit |-> 1]
           c == [do |-> "set", reg |-> VTP0_CTRL_ADDR, bit |-> 1]
           d == Spin_("vtp", VTP0_CTRL_ADDR)
<1>1. Part(P, 134, s)
  BY Layout
<1>2. /\ Len(s) = 46 /\ \A k \in 1 .. 4 : s[k] = config_vtp[k]
      /\ \A k \in 5 .. 46 : s[k].do = "write" /\ s[k].reg \in DdrRegisters
  BY DdrPart, SMTT(10) DEF ddrPart
<1>3. config_vtp[1] = a /\ config_vtp[2] = b /\ config_vtp[3] = c /\ config_vtp[4] = d
  BY VtpPart, SMTT(10)
<1> HIDE DEF P, s, a, b, c, d
<1>4. \A k \in 1 .. 46 : P[134 + k] = s[k]
  BY <1>1, <1>2, Zenon DEF Part, At
<1>5. P[135] = a /\ P[136] = b /\ P[137] = c /\ P[138] = d
  BY <1>2, <1>3, <1>4
<1>6. ASSUME NEW k \in 139 .. 180 PROVE P[k].do = "write" /\ P[k].reg \in DdrRegisters
  <2> DEFINE i == k - 134
  <2>1. i \in 5 .. 46 /\ i \in 1 .. 46 /\ 134 + i = k
    OBVIOUS
  <2> HIDE DEF i
  <2> QED
    BY <2>1, <1>2, <1>4
<1> QED
  BY <1>5, <1>6 DEF a, b, c, d, P

-----------------------------------------------------------------------------
LEMMA GpmcAre ==
    /\ lowlevel_init[181] = Write_(GPMC_BASE + 16, 8)
    /\ lowlevel_init[182] = Write_(GPMC_BASE + 24, 0)
    /\ lowlevel_init[183] = Write_(GPMC_BASE + 28, 0)
    /\ lowlevel_init[184] = Write_(GPMC_BASE + 80, 18)
    /\ lowlevel_init[185] = Write_(GPMC_BASE + 120, 0)
    /\ \A j \in 1 .. 6 : lowlevel_init[185 + j] = Write_(GPMC_BASE + 96 + 4 * (j - 1), Config[j])
    /\ lowlevel_init[192] = Write_(GPMC_BASE + 120, 72)
<1> DEFINE P == lowlevel_init
           s == gpmc_init(0)
           a == Write_(GPMC_BASE + 16, 8)
           b == Write_(GPMC_BASE + 24, 0)
           c == Write_(GPMC_BASE + 28, 0)
           d == Write_(GPMC_BASE + 80, 18)
           e == Write_(GPMC_BASE + 120, 0)
           f(j) == Write_(GPMC_BASE + 96 + 4 * (j - 1), Config[j])
           g == Write_(GPMC_BASE + 120, 72)
<1>1. Part(P, 180, s)
  BY Layout
<1>2. /\ Len(s) = 12 /\ s[1] = a /\ s[2] = b /\ s[3] = c /\ s[4] = d /\ s[5] = e
      /\ \A j \in 1 .. 6 : s[5 + j] = f(j)
      /\ s[12] = g
  BY GpmcPart, SMTT(10)
<1> HIDE DEF P, s, a, b, c, d, e, f, g
<1>3. \A k \in 1 .. 12 : P[180 + k] = s[k]
  BY <1>1, <1>2, Zenon DEF Part, At
<1>4. /\ P[181] = s[1] /\ P[182] = s[2] /\ P[183] = s[3] /\ P[184] = s[4] /\ P[185] = s[5]
      /\ P[192] = s[12]
  BY <1>3
<1>5. ASSUME NEW j \in 1 .. 6 PROVE P[185 + j] = f(j)
  <2>1. 5 + j \in 1 .. 12 /\ 180 + (5 + j) = 185 + j
    OBVIOUS
  <2>2. P[185 + j] = s[5 + j]
    BY <2>1, <1>3
  <2> QED
    BY <2>2, <1>2
<1>6. \A j \in 1 .. 6 : P[185 + j] = f(j)
  BY <1>5
<1>7. P[181] = a /\ P[182] = b /\ P[183] = c /\ P[184] = d /\ P[185] = e /\ P[192] = g
  BY <1>2, <1>4
<1> QED
  BY <1>6, <1>7 DEF P, a, b, c, d, e, f, g

LEMMA I2cAre ==
    /\ lowlevel_init[193] = Write_(I2C0_BASE + 164, 0)
    /\ lowlevel_init[194] = Write_(I2C0_BASE + 176, 1)
    /\ lowlevel_init[195] = Write_(I2C0_BASE + 180, 113)
    /\ lowlevel_init[196] = Write_(I2C0_BASE + 184, 115)
    /\ lowlevel_init[197] = Write_(I2C0_BASE + 164, 2 ^ 15)
<1> DEFINE P == lowlevel_init
           s == omap_i2c_init(I2C0_BASE)
           a == Write_(I2C0_BASE + 164, 0)
           b == Write_(I2C0_BASE + 176, 1)
           c == Write_(I2C0_BASE + 180, 113)
           d == Write_(I2C0_BASE + 184, 115)
           e == Write_(I2C0_BASE + 164, 2 ^ 15)
<1>1. Part(P, 192, s)
  BY Layout
<1>2. Len(s) = 5 /\ s[1] = a /\ s[2] = b /\ s[3] = c /\ s[4] = d /\ s[5] = e
  BY I2cPart, SMTT(10)
<1> HIDE DEF P, s, a, b, c, d, e
<1>3. \A k \in 1 .. 5 : P[192 + k] = s[k]
  BY <1>1, <1>2, Zenon DEF Part, At
<1>4. P[193] = s[1] /\ P[194] = s[2] /\ P[195] = s[3] /\ P[196] = s[4] /\ P[197] = s[5]
  BY <1>3
<1>5. P[193] = a /\ P[194] = b /\ P[195] = c /\ P[196] = d /\ P[197] = e
  BY <1>2, <1>4
<1> QED
  BY <1>5 DEF P, a, b, c, d, e

LEMMA LastAre ==
    /\ lowlevel_init[198] = [do |-> "efuse"] /\ lowlevel_init[199] = [do |-> "voltages"]
    /\ lowlevel_init[216] = [do |-> "select"]
    /\ lowlevel_init[217] = [do |-> "set", reg |-> GPMC_CONFIG, bit |-> 16]
    /\ lowlevel_init[218] = [do |-> "width"]
<1> DEFINE P == lowlevel_init
           s == voltage_update
           t == omap_nand_init
           a == [do |-> "efuse"]
           b == [do |-> "voltages"]
           c == [do |-> "select"]
           d == [do |-> "set", reg |-> GPMC_CONFIG, bit |-> 16]
           e == [do |-> "width"]
<1>1. Part(P, 197, s) /\ Part(P, 215, t)
  BY Layout
<1>2. /\ Len(s) = 18 /\ s[1] = a /\ s[2] = b
      /\ Len(t) = 3 /\ t[1] = c /\ t[2] = d /\ t[3] = e
  BY VoltagePart, NandPart, SMTT(10)
<1> HIDE DEF P, s, t, a, b, c, d, e
<1>3. (\A k \in 1 .. 18 : P[197 + k] = s[k]) /\ \A k \in 1 .. 3 : P[215 + k] = t[k]
  BY <1>1, <1>2, Zenon DEF Part, At
<1>4. P[198] = s[1] /\ P[199] = s[2] /\ P[216] = t[1] /\ P[217] = t[2] /\ P[218] = t[3]
  BY <1>3
<1>5. P[198] = a /\ P[199] = b /\ P[216] = c /\ P[217] = d /\ P[218] = e
  BY <1>2, <1>4
<1> QED
  BY <1>5 DEF P, a, b, c, d, e

-----------------------------------------------------------------------------
(* The statements that store to a register, and those that name one. *)
IsStore(st) == st.do \in {"write", "field", "set", "clear", "clksel"}

LEMMA Named ==
    ASSUME NEW st \in Statements
    PROVE  /\ "reg" \in DOMAIN st <=> (IsStore(st) \/ st.do = "read")
           /\ st.do \in {"write", "field", "set", "clear", "read", "clksel", "spin",
                         "efuse", "voltages", "select", "width"}
           /\ IsStore(st) => st.reg \in Nat
  BY SMTT(30) DEF Statements, IsStore

LEMMA StoreTypes ==
    ASSUME NEW st \in Statements
    PROVE  /\ st.do = "write" => st.val \in Nat
           /\ st.do = "field" => st.val \in Nat /\ st.size \in {4, 8}
           /\ st.do \in {"set", "clear"} => st.bit \in {1, 16, 64}
           /\ st.do = "clksel" => st.m \in Int /\ st.n \in Nat
  BY SMTT(30) DEF Statements

-----------------------------------------------------------------------------
(* Where the registers are. *)
InPlls(a) == \h44E0042C <= a /\ a <= \h44E004D8 /\ a # \h44E0047C /\ a # \h44E004B8
InModules(a) == (\h44E00000 <= a /\ a <= \h44E0040C) \/ a = \h44E004B8 \/ a = \h44E00800
InVtp(a) == a = \h44E10E0C
InGpmc(a) == \h50000000 <= a /\ a <= \h50000FFF
InEmif(a) == \h4C000000 <= a /\ a <= \h4C000FFF
InI2c(a) == \h44E0B000 <= a /\ a <= \h44E0BFFF

(* The other registers stored to: watchdog, timer, memory, pads. *)
InOthers(a) ==
    \/ \h44E00804 <= a /\ a <= \h44E009A0
    \/ a = \h44E0047C \/ a = \h44E00508 \/ a = \h44E10110
    \/ \h44E10F00 <= a /\ a < \h4C000000

LEMMA PllRegisters ==
    \A d \in Dplls :
        /\ dpll_regs[d].clkmode \in Nat /\ InPlls(dpll_regs[d].clkmode)
        /\ dpll_regs[d].clksel \in Nat /\ InPlls(dpll_regs[d].clksel)
        /\ \A i \in 1 .. 5 : /\ dpll_regs[d].div[i] \in Nat
                             /\ dpll_regs[d].div[i] = 0 \/ InPlls(dpll_regs[d].div[i])
<1> SUFFICES ASSUME NEW d \in Dplls
             PROVE  /\ dpll_regs[d].clkmode \in Nat /\ InPlls(dpll_regs[d].clkmode)
                    /\ dpll_regs[d].clksel \in Nat /\ InPlls(dpll_regs[d].clksel)
                    /\ \A i \in 1 .. 5 : /\ dpll_regs[d].div[i] \in Nat
                                         /\ dpll_regs[d].div[i] = 0 \/ InPlls(dpll_regs[d].div[i])
  OBVIOUS
<1>1. d \in {"mpu", "core", "per", "ddr"}
  BY DpllRegisters, SMTT(10)
<1>2. CASE d = "mpu"
  BY <1>2, DpllRegisters, SMTT(10) DEF InPlls
<1>3. CASE d = "core"
  BY <1>3, DpllRegisters, SMTT(10) DEF InPlls
<1>4. CASE d = "per"
  BY <1>4, DpllRegisters, SMTT(10) DEF InPlls
<1>5. CASE d = "ddr"
  BY <1>5, DpllRegisters, SMTT(10) DEF InPlls
<1> QED
  BY <1>1, <1>2, <1>3, <1>4, <1>5, Zenon

(* No register belongs to two PLLs or has two uses. *)
LEMMA PllsApart ==
    ASSUME NEW d \in Dplls, NEW e \in Dplls
    PROVE  /\ dpll_regs[d].clkmode # dpll_regs[e].clksel
           /\ d # e => /\ dpll_regs[d].clkmode # dpll_regs[e].clkmode
                       /\ dpll_regs[d].clksel # dpll_regs[e].clksel
           /\ \A i \in 1 .. 5 : /\ dpll_regs[d].div[i] # dpll_regs[e].clkmode
                                /\ dpll_regs[d].div[i] # dpll_regs[e].clksel
                                /\ \A j \in 1 .. 5 : dpll_regs[d].div[i] = dpll_regs[e].div[j]
                                      => d = e \/ dpll_regs[d].div[i] = 0
<1> DEFINE Goal(a, b) ==
           /\ dpll_regs[a].clkmode # dpll_regs[b].clksel
           /\ a # b => /\ dpll_regs[a].clkmode # dpll_regs[b].clkmode
                       /\ dpll_regs[a].clksel # dpll_regs[b].clksel
           /\ \A i \in 1 .. 5 : /\ dpll_regs[a].div[i] # dpll_regs[b].clkmode
                                /\ dpll_regs[a].div[i] # dpll_regs[b].clksel
                                /\ \A j \in 1 .. 5 : dpll_regs[a].div[i] = dpll_regs[b].div[j]
                                      => a = b \/ dpll_regs[a].div[i] = 0
<1>1. d \in {"mpu", "core", "per", "ddr"} /\ e \in {"mpu", "core", "per", "ddr"}
  BY DpllRegisters, SMTT(10)
<1>2. \A b \in {"mpu", "core", "per", "ddr"} : Goal("mpu", b)
  BY DpllRegisters, SMTT(20)
<1>3. \A b \in {"mpu", "core", "per", "ddr"} : Goal("core", b)
  BY DpllRegisters, SMTT(20)
<1>4. \A b \in {"mpu", "core", "per", "ddr"} : Goal("per", b)
  BY DpllRegisters, SMTT(20)
<1>5. \A b \in {"mpu", "core", "per", "ddr"} : Goal("ddr", b)
  BY DpllRegisters, SMTT(20)
<1> HIDE DEF Goal
<1>6. Goal(d, e)
  BY <1>1, <1>2, <1>3, <1>4, <1>5
<1> QED
  BY <1>6, Zenon DEF Goal

LEMMA ModuleRegisters ==
    /\ Len(mods) = 24 /\ Modules = {mods[j] : j \in 1 .. 24}
    /\ \A j \in 1 .. 24 : mods[j] \in Nat /\ InModules(mods[j])
    /\ mods[10] = CMPER.GPMCCLKCTRL /\ mods[14] = CMWKUP.WKUP_I2C0CTRL
    /\ mods[21] = CM_RTC /\ mods[24] = CMPER.EMIFCLKCTRL
    /\ \A j \in 1 .. 24 : mods[j] = CM_RTC => j = 21
<1>1. Len(mods) = 24 /\ DOMAIN mods = 1 .. 24
  BY DEF mods
<1>2. \A j \in 1 .. 24 : mods[j] \in Nat /\ InModules(mods[j])
  BY SMTT(30) DEF mods, InModules, CMPER, CMWKUP, CMRTC, CM_PER, CM_WKUP, CM_RTC
<1>3. /\ mods[10] = CMPER.GPMCCLKCTRL /\ mods[14] = CMWKUP.WKUP_I2C0CTRL
      /\ mods[21] = CM_RTC /\ mods[24] = CMPER.EMIFCLKCTRL
  BY SMTT(30) DEF mods, CMRTC
<1>4. \A j \in 1 .. 24 : mods[j] = CM_RTC => j = 21
  BY SMTT(30) DEF mods, CMPER, CMWKUP, CMRTC, CM_PER, CM_WKUP, CM_RTC
<1>5. Modules = {mods[j] : j \in 1 .. 24}
  BY <1>1 DEF Modules
<1> QED
  BY <1>1, <1>2, <1>3, <1>4, <1>5

LEMMA DomainRegisters ==
    \A j \in 1 .. 7 : domains[j] \in Nat /\ (InModules(domains[j]) \/ InOthers(domains[j]))
  BY SMTT(30) DEF domains, InModules, InOthers, CMPER, CMWKUP, CMRTC, CM_PER, CM_WKUP, CM_RTC

-----------------------------------------------------------------------------
(* Statement k is a store of the set-up x of a PLL. *)
SetupStore(k, x) ==
    LET st == lowlevel_init[k] IN
    \/ k = x.o + 2 /\ st = Field_(dpll_regs[x.d].clkmode, 8, 4)
    \/ k = x.o + 4 /\ st = Clksel_(x.d, x.m, 23)
    \/ k \in x.o + 5 .. x.o + x.n - 2 /\ st.do = "write"
         /\ \E i \in 1 .. 5 : st.reg = dpll_regs[x.d].div[i]
    \/ k = x.o + x.n - 1 /\ st = Field_(dpll_regs[x.d].clkmode, 8, 7)

LEMMA SetupTypes ==
    \A x \in Setups : /\ x.d \in Dplls /\ x.o \in Nat /\ x.n \in {7, 9} /\ x.m \in Int
                      /\ x.o >= 62 /\ x.o + x.n <= 215
  BY DpllRegisters, SMTT(10) DEF Setups, Final, SetupOf

LEMMA SetupStores ==
    ASSUME NEW x \in Setups, NEW k \in x.o + 1 .. x.o + x.n, IsStore(lowlevel_init[k])
    PROVE  SetupStore(k, x)
<1> DEFINE P == lowlevel_init
           d == x.d
           o == x.o
           n == x.n
           m == x.m
<1>1. IsSetup(P, o, d, n, m)
  BY SetupsPlaced
<1>2. d \in Dplls /\ o \in Nat /\ n \in {7, 9} /\ m \in Int
  BY SetupTypes
<1>3. k \in o + 1 .. o + n /\ IsStore(P[k])
  OBVIOUS
<1> HIDE DEF P, d, o, n, m
<1>4. CASE k = o + 1
  BY <1>1, <1>3, <1>4 DEF IsSetup, IsStore
<1>5. CASE k = o + 2
  BY <1>1, <1>5, Zenon DEF IsSetup, SetupStore, P, d, o
<1>6. CASE k = o + 3
  BY <1>1, <1>3, <1>6 DEF IsSetup, IsStore, Spin_
<1>7. CASE k = o + 4
  BY <1>1, <1>7, Zenon DEF IsSetup, SetupStore, P, d, o, m
<1>8. CASE k \in o + 5 .. o + n - 2
  BY <1>1, <1>8, Zenon DEF IsSetup, SetupStore, P, d, o, n
<1>9. CASE k = o + n - 1
  BY <1>1, <1>9, Zenon DEF IsSetup, SetupStore, P, d, o, n
<1>10. CASE k = o + n
  BY <1>1, <1>3, <1>10 DEF IsSetup, IsStore, Spin_
<1>11. k = o + 1 \/ k = o + 2 \/ k = o + 3 \/ k = o + 4 \/ k \in o + 5 .. o + n - 2
       \/ k = o + n - 1 \/ k = o + n
  BY <1>2, <1>3
<1> QED
  BY <1>4, <1>5, <1>6, <1>7, <1>8, <1>9, <1>10, <1>11

LEMMA SetupRegisters ==
    ASSUME NEW k, NEW x \in Setups, SetupStore(k, x)
    PROVE  LET a == lowlevel_init[k].reg IN a = 0 \/ InPlls(a)
<1>1. x.d \in Dplls
  BY SetupTypes
<1> QED
  BY <1>1, PllRegisters, SMTT(10) DEF SetupStore, Field_, Clksel_

(* Which register a store goes to, by its place in the program. *)
LEMMA StoreCases ==
    ASSUME NEW k \in 1 .. 218, IsStore(lowlevel_init[k])
    PROVE  LET st == lowlevel_init[k]
               a == st.reg
           IN \/ k \notin 7 .. 61 /\ InOthers(a)
              \/ k \in 7 .. 61 /\ st.do = "field" /\ st.size = 4 /\ st.val = 2
                   /\ (InModules(a) \/ InOthers(a))
              \/ (a = 0 \/ InPlls(a)) /\ \E x \in Setups : SetupStore(k, x)
              \/ k = 120 /\ st = Write_(CM_RTC, 48)
              \/ k \in 135 .. 137 /\ InVtp(a)
              \/ k \in 139 .. 180 /\ InEmif(a)
              \/ k \in 181 .. 192 /\ st.do = "write" /\ InGpmc(a)
              \/ k \in 193 .. 197 /\ st.do = "write" /\ InI2c(a)
              \/ k = 217 /\ st.do = "set" /\ InGpmc(a)
<1> DEFINE P == lowlevel_init
           Goal ==
              LET st == P[k]
                  a == st.reg
              IN \/ k \notin 7 .. 61 /\ InOthers(a)
                 \/ k \in 7 .. 61 /\ st.do = "field" /\ st.size = 4 /\ st.val = 2
                      /\ (InModules(a) \/ InOthers(a))
                 \/ (a = 0 \/ InPlls(a)) /\ \E x \in Setups : SetupStore(k, x)
                 \/ k = 120 /\ st = Write_(CM_RTC, 48)
                 \/ k \in 135 .. 137 /\ InVtp(a)
                 \/ k \in 139 .. 180 /\ InEmif(a)
                 \/ k \in 181 .. 192 /\ st.do = "write" /\ InGpmc(a)
                 \/ k \in 193 .. 197 /\ st.do = "write" /\ InI2c(a)
                 \/ k = 217 /\ st.do = "set" /\ InGpmc(a)
<1> SUFFICES Goal
  OBVIOUS
<1>1. CASE k \in 1 .. 6
  <2>1. IsStore(P[k]) /\ P[k].do # "spin"
    BY DEF IsStore
  <2>2. P[k].reg \in {WDTREG_WSPR, TMREG_TLDR, TMREG_TCLR}
    BY <1>1, <2>1, EarlyAre, Zenon
  <2>3. InOthers(P[k].reg)
    BY <2>2, SMTT(10) DEF InOthers, WDTREG_WSPR, WDT_BASE, TMREG_TLDR, TMREG_TCLR, DM_TIMER2_BASE
  <2>4. k \notin 7 .. 61
    BY <1>1
  <2> QED
    BY <2>3, <2>4, Zenon
<1>2. CASE k \in 7 .. 13
  <2>1. P[k] = Field_(domains[k - 6], 4, 2) /\ k - 6 \in 1 .. 7
    BY <1>2, DomainsAre
  <2>2. P[k].do = "field" /\ P[k].size = 4 /\ P[k].val = 2 /\ P[k].reg = domains[k - 6]
    BY <2>1, SMTT(10) DEF Field_
  <2>3. InModules(P[k].reg) \/ InOthers(P[k].reg)
    BY <2>1, <2>2, DomainRegisters, Zenon
  <2>4. k \in 7 .. 61
    BY <1>2
  <2> QED
    BY <2>2, <2>3, <2>4, Zenon
<1>3. CASE k \in 14 .. 61
  <2>1. PICK j \in 1 .. 24 : k = 12 + 2 * j \/ k = 13 + 2 * j
    <3> DEFINE i == (k - 12) \div 2
    <3>1. i \in 1 .. 24 /\ (k = 12 + 2 * i \/ k = 13 + 2 * i)
      BY <1>3
    <3> QED
      BY <3>1
  <2>2. P[k] = Field_(mods[j], 4, 2) \/ P[k] = Spin_("module", mods[j])
    BY <2>1, ModulesAre, Zenon
  <2>3. P[k] # Spin_("module", mods[j])
    BY DEF IsStore, Spin_
  <2>4. P[k].do = "field" /\ P[k].size = 4 /\ P[k].val = 2 /\ P[k].reg = mods[j]
    BY <2>2, <2>3, SMTT(10) DEF Field_
  <2>5. InModules(P[k].reg)
    BY <2>4, ModuleRegisters, Zenon
  <2>6. k \in 7 .. 61
    BY <1>3
  <2> QED
    BY <2>4, <2>5, <2>6, Zenon
<1>4. CASE k = 62 \/ k = 86
  <2>1. P[k].reg \in {CMDPLL_CLKTIMER2CLK, CMWKUP.CLKDCOLDODPLLPER}
    BY <1>4, LooseAre, SMTT(10) DEF Write_
  <2>2. InOthers(P[k].reg)
    BY <2>1, SMTT(10) DEF InOthers, CMDPLL_CLKTIMER2CLK, CM_DPLL, CMWKUP, CM_WKUP
  <2>3. k \notin 7 .. 61
    BY <1>4
  <2> QED
    BY <2>2, <2>3, Zenon
<1>5. CASE k \in 63 .. 85 \/ k \in 87 .. 93 \/ k \in 200 .. 215
  <2>1. PICK x \in Setups : k \in x.o + 1 .. x.o + x.n
    BY <1>5, SMTT(10) DEF Setups, Final, SetupOf
  <2>2. SetupStore(k, x)
    BY <2>1, SetupStores, Zenon
  <2>3. P[k].reg = 0 \/ InPlls(P[k].reg)
    BY <2>2, SetupRegisters, Zenon
  <2> QED
    BY <2>2, <2>3, Zenon
<1>6. CASE k \in 94 .. 134
  <2>1. CASE k = 120
    BY <2>1, PinsAre, Zenon
  <2>2. CASE k # 120
    <3>1. P[k].reg \in PinRegisters /\ P[k].reg >= CM_RTC + 4
      BY <1>6, <2>2, PinsAre, Zenon
    <3>2. InOthers(P[k].reg)
      BY <3>1, SMTT(10) DEF PinRegisters, InOthers, CM_RTC
    <3>3. k \notin 7 .. 61
      BY <1>6
    <3> QED
      BY <3>2, <3>3, Zenon
  <2> QED
    BY <2>1, <2>2, Zenon
<1>7. CASE k \in 135 .. 138
  <2>1. P[k].do = "spin" \/ (k \in 135 .. 137 /\ P[k].reg = VTP0_CTRL_ADDR)
    BY <1>7, DdrAre, SMTT(10) DEF Spin_
  <2>2. P[k].do # "spin"
    BY DEF IsStore
  <2>3. k \in 135 .. 137 /\ InVtp(P[k].reg)
    BY <2>1, <2>2, SMTT(10) DEF InVtp, VTP0_CTRL_ADDR
  <2> QED
    BY <2>3, Zenon
<1>8. CASE k \in 139 .. 180
  <2>1. P[k].reg \in DdrRegisters
    BY <1>8, DdrAre, Zenon
  <2>2. InOthers(P[k].reg) \/ InEmif(P[k].reg)
    BY <2>1, SMTT(10) DEF DdrRegisters, InOthers, InEmif
  <2>3. k \notin 7 .. 61
    BY <1>8
  <2> QED
    BY <1>8, <2>2, <2>3, Zenon
<1>9. CASE k \in 181 .. 192
  <2>1. P[k].do = "write" /\ InGpmc(P[k].reg)
    <3>1. CASE k \in {181, 182, 183, 184, 185, 192}
      BY <3>1, GpmcAre, SMTT(10) DEF Write_, InGpmc, GPMC_BASE
    <3>2. CASE k \in 186 .. 191
      <4> DEFINE j == k - 185
      <4>1. j \in 1 .. 6 /\ 185 + j = k
        BY <3>2
      <4> HIDE DEF j
      <4>2. P[k] = Write_(GPMC_BASE + 96 + 4 * (j - 1), Config[j])
        BY <4>1, GpmcAre, SMTT(10)
      <4>3. P[k].do = "write" /\ P[k].reg = GPMC_BASE + 96 + 4 * (j - 1)
        BY <4>2, SMTT(10) DEF Write_
      <4> QED
        BY <4>1, <4>3, SMTT(10) DEF InGpmc, GPMC_BASE
    <3> QED
      BY <1>9, <3>1, <3>2, SMTT(10)
  <2> QED
    BY <1>9, <2>1, Zenon
<1>10. CASE k \in 193 .. 197
  <2>1. P[k].do = "write" /\ InI2c(P[k].reg)
    BY <1>10, I2cAre, SMTT(10) DEF Write_, InI2c, I2C0_BASE
  <2> QED
    BY <1>10, <2>1, Zenon
<1>11. CASE k \in {198, 199, 216, 218}
  BY <1>11, LastAre, SMTT(10) DEF IsStore
<1>12. CASE k = 217
  <2>1. P[k].do = "set" /\ InGpmc(P[k].reg)
    BY <1>12, LastAre, SMTT(10) DEF InGpmc, GPMC_CONFIG, GPMC_BASE
  <2> QED
    BY <1>12, <2>1, Zenon
<1> HIDE DEF Goal
<1> QED
  BY <1>1, <1>2, <1>3, <1>4, <1>5, <1>6, <1>7, <1>8, <1>9, <1>10, <1>11, <1>12, SMTT(10)

-----------------------------------------------------------------------------
(* The regions of registers apart, and the stores that go to each. *)
LEMMA RegionsApart ==
    ASSUME NEW a \in Nat
    PROVE  /\ InPlls(a) => /\ ~InModules(a) /\ ~InVtp(a) /\ ~InGpmc(a) /\ ~InEmif(a)
                           /\ ~InI2c(a) /\ ~InOthers(a) /\ a # 0 /\ a # CM_RTC
           /\ InModules(a) => /\ ~InVtp(a) /\ ~InGpmc(a) /\ ~InEmif(a) /\ ~InI2c(a)
                              /\ ~InOthers(a) /\ a # 0
           /\ InVtp(a) => /\ ~InGpmc(a) /\ ~InEmif(a) /\ ~InI2c(a) /\ ~InOthers(a)
                          /\ a # 0 /\ a # CM_RTC
           /\ InGpmc(a) => /\ ~InEmif(a) /\ ~InI2c(a) /\ ~InOthers(a) /\ a # 0 /\ a # CM_RTC
           /\ InEmif(a) => ~InI2c(a) /\ ~InOthers(a) /\ a # 0 /\ a # CM_RTC
           /\ InI2c(a) => ~InOthers(a) /\ a # 0 /\ a # CM_RTC
           /\ a = CM_RTC => ~InOthers(a)
  BY SMTT(20) DEF InPlls, InModules, InVtp, InGpmc, InEmif, InI2c, InOthers, CM_RTC

LEMMA StoresTo ==
    ASSUME NEW k \in 1 .. 218, IsStore(lowlevel_init[k])
    PROVE  LET st == lowlevel_init[k]
               a == st.reg
           IN /\ a \in Nat
              /\ InPlls(a) => \E x \in Setups : SetupStore(k, x)
              /\ InModules(a) => \/ k \in 7 .. 61 /\ st.do = "field" /\ st.size = 4 /\ st.val = 2
                                 \/ k = 120 /\ st = Write_(CM_RTC, 48)
              /\ InVtp(a) => k \in 135 .. 137
              /\ InGpmc(a) => \/ k \in 181 .. 192 /\ st.do = "write"
                              \/ k = 217 /\ st.do = "set"
              /\ InEmif(a) => k \in 139 .. 180
              /\ InI2c(a) => k \in 193 .. 197 /\ st.do = "write"
<1> DEFINE st == lowlevel_init[k]
           a == st.reg
<1>1. \/ k \notin 7 .. 61 /\ InOthers(a)
      \/ k \in 7 .. 61 /\ st.do = "field" /\ st.size = 4 /\ st.val = 2
           /\ (InModules(a) \/ InOthers(a))
      \/ (a = 0 \/ InPlls(a)) /\ \E x \in Setups : SetupStore(k, x)
      \/ k = 120 /\ st = Write_(CM_RTC, 48)
      \/ k \in 135 .. 137 /\ InVtp(a)
      \/ k \in 139 .. 180 /\ InEmif(a)
      \/ k \in 181 .. 192 /\ st.do = "write" /\ InGpmc(a)
      \/ k \in 193 .. 197 /\ st.do = "write" /\ InI2c(a)
      \/ k = 217 /\ st.do = "set" /\ InGpmc(a)
  BY StoreCases, Zenon
<1>2. st = Write_(CM_RTC, 48) => a = CM_RTC
  BY DEF Write_
<1>3. a \in Nat
  <2>1. st \in Statements /\ IsStore(st)
    BY ProgramTyped, ZenonT(60)
  <2> HIDE DEF st
  <2> QED
    BY <2>1, Named
<1> HIDE DEF st, a
<1>4. /\ InPlls(a) => /\ ~InModules(a) /\ ~InVtp(a) /\ ~InGpmc(a) /\ ~InEmif(a)
                      /\ ~InI2c(a) /\ ~InOthers(a) /\ a # 0 /\ a # CM_RTC
      /\ InModules(a) => /\ ~InVtp(a) /\ ~InGpmc(a) /\ ~InEmif(a) /\ ~InI2c(a)
                         /\ ~InOthers(a) /\ a # 0
      /\ InVtp(a) => /\ ~InGpmc(a) /\ ~InEmif(a) /\ ~InI2c(a) /\ ~InOthers(a)
                     /\ a # 0 /\ a # CM_RTC
      /\ InGpmc(a) => /\ ~InEmif(a) /\ ~InI2c(a) /\ ~InOthers(a) /\ a # 0 /\ a # CM_RTC
      /\ InEmif(a) => ~InI2c(a) /\ ~InOthers(a) /\ a # 0 /\ a # CM_RTC
      /\ InI2c(a) => ~InOthers(a) /\ a # 0 /\ a # CM_RTC
      /\ a = CM_RTC => ~InOthers(a)
  BY <1>3, RegionsApart, Zenon
<1>5. /\ InPlls(a) => \E x \in Setups : SetupStore(k, x)
      /\ InModules(a) => \/ k \in 7 .. 61 /\ st.do = "field" /\ st.size = 4 /\ st.val = 2
                         \/ k = 120 /\ st = Write_(CM_RTC, 48)
      /\ InVtp(a) => k \in 135 .. 137
      /\ InGpmc(a) => \/ k \in 181 .. 192 /\ st.do = "write"
                      \/ k = 217 /\ st.do = "set"
      /\ InEmif(a) => k \in 139 .. 180
      /\ InI2c(a) => k \in 193 .. 197 /\ st.do = "write"
  <2>1. InPlls(a) => \E x \in Setups : SetupStore(k, x)
    BY <1>1, <1>2, <1>4
  <2>2. InModules(a) => \/ k \in 7 .. 61 /\ st.do = "field" /\ st.size = 4 /\ st.val = 2
                        \/ k = 120 /\ st = Write_(CM_RTC, 48)
    BY <1>1, <1>2, <1>4
  <2>3. InVtp(a) => k \in 135 .. 137
    BY <1>1, <1>2, <1>4
  <2>4. InGpmc(a) => \/ k \in 181 .. 192 /\ st.do = "write"
                     \/ k = 217 /\ st.do = "set"
    BY <1>1, <1>2, <1>4
  <2>5. InEmif(a) => k \in 139 .. 180
    BY <1>1, <1>2, <1>4
  <2>6. InI2c(a) => k \in 193 .. 197 /\ st.do = "write"
    BY <1>1, <1>2, <1>4
  <2> QED
    BY <2>1, <2>2, <2>3, <2>4, <2>5, <2>6, Zenon
<1> QED
  BY <1>3, <1>5 DEF st, a

LEMMA BlockStores ==
    ASSUME NEW k \in 1 .. 218, IsStore(lowlevel_init[k])
    PROVE  /\ InGpmc(lowlevel_init[k].reg) => k \in 181 .. 192 \/ k = 217
           /\ InEmif(lowlevel_init[k].reg) => k \in 139 .. 180
           /\ InI2c(lowlevel_init[k].reg) => k \in 193 .. 197
           /\ InVtp(lowlevel_init[k].reg) => k \in 135 .. 137
<1> DEFINE st == lowlevel_init[k]
           a == st.reg
<1>1. /\ a \in Nat
      /\ InPlls(a) => \E x \in Setups : SetupStore(k, x)
      /\ InModules(a) => \/ k \in 7 .. 61 /\ st.do = "field" /\ st.size = 4 /\ st.val = 2
                         \/ k = 120 /\ st = Write_(CM_RTC, 48)
      /\ InVtp(a) => k \in 135 .. 137
      /\ InGpmc(a) => \/ k \in 181 .. 192 /\ st.do = "write"
                      \/ k = 217 /\ st.do = "set"
      /\ InEmif(a) => k \in 139 .. 180
      /\ InI2c(a) => k \in 193 .. 197 /\ st.do = "write"
  BY StoresTo, ZenonT(60)
<1> HIDE DEF st, a
<1>2. /\ InGpmc(a) => k \in 181 .. 192 \/ k = 217
      /\ InEmif(a) => k \in 139 .. 180
      /\ InI2c(a) => k \in 193 .. 197
      /\ InVtp(a) => k \in 135 .. 137
  BY <1>1, Zenon
<1> QED
  BY <1>2 DEF st, a

-----------------------------------------------------------------------------
(* The driver of the power chip: while a transfer runs for a read, its     *)
(* second message is the byte read.                                        *)
ReadBuffer == pc # "idle" /\ val = <<>> => Len(msgs) = 2 /\ Len(msgs[2].buf) = 1

DriverTypes == AdapterTypes /\ TpsTypeOK /\ ReadBuffer

LEMMA Division ==
    ASSUME NEW x \in Nat, NEW d \in Nat \ {0}
    PROVE  /\ x \div d \in Nat
           /\ x % d \in 0 .. d - 1
           /\ x = d * (x \div d) + (x % d)
  OBVIOUS

LEMMA Fields ==
    ASSUME NEW F \in Nat \ {0}, NEW v \in 0 .. 2 * F - 1
    PROVE  v % F \in 0 .. F - 1 /\ (v < F => v % F = v) /\ (v >= F => v % F = v - F)
<1>1. v % F \in 0 .. F - 1 /\ v \div F \in Nat /\ v = F * (v \div F) + (v % F)
  <2>1. v \in Nat
    OBVIOUS
  <2> QED
    BY <2>1, Division
<1> DEFINE q == v \div F
           r == v % F
<1>2. q \in Int /\ r \in 0 .. F - 1 /\ v = F * q + r
  BY <1>1
<1> HIDE DEF q, r
<1>3. q = 0 \/ q = 1
  <2>1. q >= 2 => F * q >= 2 * F
    BY <1>2, SMTT(10)
  <2>2. q < 0 => F * q <= -F
    BY <1>2, SMTT(10)
  <2> QED
    BY <2>1, <2>2, <1>2
<1>4. r \in 0 .. F - 1 /\ (v < F => r = v) /\ (v >= F => r = v - F)
  BY <1>2, <1>3
<1> QED
  BY <1>4 DEF r

LEMMA ChangesRight ==
    ASSUME mpu_vdd \in DOMAIN OpSel
    PROVE  /\ Len(Changes) = 5
           /\ \A k \in 1 .. 5 : /\ Changes[k].reg \in Regs
                                /\ \A v \in Bytes : Changes[k].edit[v] \in Bytes
<1>1. Len(Changes) = 5
  BY DEF Changes
<1>2. \A v \in Bytes : SetFlag(v) \in Bytes /\ ClearFlag(v) \in Bytes
                       /\ \A s \in 0 .. Flag - 1 : KeepFlag(v) + s \in Bytes
  <2> SUFFICES ASSUME NEW v \in 0 .. 2 * Flag - 1
               PROVE  /\ SetFlag(v) \in 0 .. 2 * Flag - 1 /\ ClearFlag(v) \in 0 .. 2 * Flag - 1
                      /\ \A s \in 0 .. Flag - 1 : KeepFlag(v) + s \in 0 .. 2 * Flag - 1
    BY TpsAssumption
  <2>1. Flag \in Nat \ {0}
    BY TpsAssumption
  <2> DEFINE r == v % Flag
  <2>2. r \in 0 .. Flag - 1 /\ (v < Flag => r = v) /\ (v >= Flag => r = v - Flag)
    BY <2>1, Fields
  <2>3. ClearFlag(v) = r /\ KeepFlag(v) = v - r
    BY DEF ClearFlag, KeepFlag
  <2> HIDE DEF r
  <2> QED
    BY <2>1, <2>2, <2>3 DEF SetFlag
<1>3. Devctrl \in Regs /\ Vdd1 \in Regs /\ Vdd2 \in Regs
  BY TpsAssumption
<1>4. OpSel[mpu_vdd] \in 0 .. Flag - 1 /\ OpSel["1_1_3"] \in 0 .. Flag - 1
  BY TpsAssumption
<1>5. /\ Changes[1] = Change(Devctrl, [v \in Bytes |-> SetFlag(v)])
      /\ Changes[2] = Change(Vdd1, [v \in Bytes |-> ClearFlag(v)])
      /\ Changes[3] = Change(Vdd1, [v \in Bytes |-> KeepFlag(v) + OpSel[mpu_vdd]])
      /\ Changes[4] = Change(Vdd2, [v \in Bytes |-> ClearFlag(v)])
      /\ Changes[5] = Change(Vdd2, [v \in Bytes |-> KeepFlag(v) + OpSel["1_1_3"]])
  BY DEF Changes, voltage_select, voltage_configure
<1>6. ASSUME NEW r \in Regs, NEW f, \A v \in Bytes : f[v] \in Bytes
      PROVE  LET c == Change(r, f) IN c.reg \in Regs /\ \A v \in Bytes : c.edit[v] \in Bytes
  BY <1>6 DEF Change
<1>7. Changes[1].reg \in Regs /\ \A v \in Bytes : Changes[1].edit[v] \in Bytes
  BY <1>2, <1>3, <1>5 DEF Change
<1>8. Changes[2].reg \in Regs /\ \A v \in Bytes : Changes[2].edit[v] \in Bytes
  BY <1>2, <1>3, <1>5 DEF Change
<1>9. Changes[3].reg \in Regs /\ \A v \in Bytes : Changes[3].edit[v] \in Bytes
  BY <1>2, <1>3, <1>4, <1>5 DEF Change
<1>10. Changes[4].reg \in Regs /\ \A v \in Bytes : Changes[4].edit[v] \in Bytes
  BY <1>2, <1>3, <1>5 DEF Change
<1>11. Changes[5].reg \in Regs /\ \A v \in Bytes : Changes[5].edit[v] \in Bytes
  BY <1>2, <1>3, <1>4, <1>5 DEF Change
<1> HIDE DEF Changes
<1>12. \A k \in 1 .. 5 : k = 1 \/ k = 2 \/ k = 3 \/ k = 4 \/ k = 5
  OBVIOUS
<1> QED
  BY <1>1, <1>7, <1>8, <1>9, <1>10, <1>11, <1>12

LEMMA DriverStep ==
    ASSUME DriverTypes, Driver
    PROVE  /\ DriverTypes'
           /\ step # 0 => step' # 0
           /\ step = 0 => step' = 0 /\ (pc' # "idle" => pc # "idle")
<1>1. /\ AdapterTypes /\ mpu_vdd \in DOMAIN OpSel /\ step \in 0 .. Len(Changes) + 1
      /\ val \in {<<>>} \cup {<<b>> : b \in Bytes} /\ ReadBuffer
  BY DEF DriverTypes, TpsTypeOK
<1>2. /\ Len(Changes) = 5
      /\ \A k \in 1 .. 5 : /\ Changes[k].reg \in Regs
                           /\ \A v \in Bytes : Changes[k].edit[v] \in Bytes
  BY <1>1, ChangesRight
<1>3. Regs \subseteq Bytes /\ Leftovers \subseteq Bytes
  BY I2cAssumption, TpsAssumption
<1>4. ASSUME mpu_vdd' = mpu_vdd PROVE Len(Changes)' = 5
  BY DEF Changes
<1>5. CASE Inb
  <2>1. PICK b \in Leftovers : BeginTransfer(<<Write(<<Changes[step].reg>>), Read(b)>>)
    BY <1>5 DEF Inb
  <2> DEFINE ms == <<Write(<<Changes[step].reg>>), Read(b)>>
  <2>2. step \in 1 .. 5 /\ UNCHANGED tpsvars
    BY <1>2, <1>5 DEF Inb, AtChange
  <2>3. Changes[step].reg \in Bytes /\ b \in Bytes
    BY <1>2, <1>3, <2>2
  <2>4. ms \in Seq(Message) /\ Len(ms) = 2 /\ Len(ms[2].buf) = 1
    <3> DEFINE r == Changes[step].reg
    <3>1. r \in Bytes
      BY <2>3
    <3> HIDE DEF r
    <3>2. <<r>> \in Seq(Bytes) /\ Len(<<r>>) = 1 /\ <<b>> \in Seq(Bytes) /\ Len(<<b>>) = 1
      BY <3>1, <2>3
    <3>3. Write(<<r>>) \in Message /\ Read(b) \in Message /\ Read(b).buf = <<b>>
      BY <3>2 DEF Write, Read, Message
    <3> DEFINE x == Write(<<r>>)
               y == Read(b)
    <3> HIDE DEF x, y
    <3>4. <<x, y>> \in Seq(Message) /\ Len(<<x, y>>) = 2 /\ <<x, y>>[2] = y
      BY <3>3 DEF x, y
    <3> QED
      BY <3>2, <3>3, <3>4 DEF r, x, y
  <2> HIDE DEF ms
  <2>5. AdapterTypes' /\ msgs' = ms /\ regs' = regs
    BY <1>1, <2>1, <2>4, BeginTypes DEF BeginTransfer, slave, ms
  <2>6. TpsTypeOK'
    BY <1>1, <1>2, <1>4, <2>2, <2>5 DEF TpsTypeOK, tpsvars, AdapterTypes
  <2> QED
    BY <2>2, <2>4, <2>5, <2>6 DEF DriverTypes, ReadBuffer, tpsvars
<1>6. CASE InbReturns
  <2>1. /\ step \in 1 .. 5 /\ val = <<>> /\ pc = "return" /\ pc' = "idle"
        /\ val' = <<Changes[step].edit[msgs[2].buf[1]]>>
        /\ UNCHANGED <<mpu_vdd, step, env, msgs, msg, idx, timeout, tries, rval, flagRD,
                       ctrl, slave>>
    BY <1>2, <1>6 DEF InbReturns, AtChange
  <2>2. AdapterTypes'
    BY <1>1, <2>1 DEF AdapterTypes, ctrl, slave
  <2>3. msgs[2].buf[1] \in Bytes
    <3>1. Len(msgs) = 2 /\ Len(msgs[2].buf) = 1 /\ msgs \in Seq(Message)
      BY <1>1, <2>1 DEF ReadBuffer, AdapterTypes
    <3> DEFINE M == Message
    <3>2. M = Message
      OBVIOUS
    <3> HIDE DEF M
    <3>4. \A s \in Seq(M) : Len(s) = 2 => s[2] \in M
      BY SMTT(60)
    <3>5. msgs[2] \in Message
      BY <3>1, <3>2, <3>4
    <3>3. msgs[2].buf \in Seq(Bytes)
      BY <3>5 DEF Message
    <3> QED
      BY <3>1, <3>3
  <2>4. Changes[step].edit[msgs[2].buf[1]] \in Bytes
    BY <1>2, <2>1, <2>3
  <2>5. TpsTypeOK'
    BY <1>1, <1>2, <1>4, <2>1, <2>2, <2>4 DEF TpsTypeOK, AdapterTypes
  <2> QED
    BY <2>1, <2>2, <2>5 DEF DriverTypes, ReadBuffer
<1>7. CASE Outb
  <2> DEFINE ms == <<Write(<<Changes[step].reg, val[1]>>)>>
  <2>1. step \in 1 .. 5 /\ val # <<>> /\ BeginTransfer(ms) /\ UNCHANGED tpsvars
    BY <1>2, <1>7 DEF Outb, AtChange
  <2>2. ms \in Seq(Message)
    <3>1. Changes[step].reg \in Bytes /\ val[1] \in Bytes
      BY <1>1, <1>2, <1>3, <2>1
    <3> DEFINE r == Changes[step].reg
               v == val[1]
    <3> HIDE DEF r, v
    <3>2. <<r, v>> \in Seq(Bytes) /\ Len(<<r, v>>) = 2
      BY <3>1 DEF r, v
    <3>3. Write(<<r, v>>) \in Message
      BY <3>2 DEF Write, Message
    <3> DEFINE x == Write(<<r, v>>)
    <3> HIDE DEF x
    <3>4. <<x>> \in Seq(Message)
      BY <3>3 DEF x
    <3> QED
      BY <3>4 DEF r, v, x
  <2> HIDE DEF ms
  <2>3. AdapterTypes' /\ regs' = regs
    BY <1>1, <2>1, <2>2, BeginTypes DEF BeginTransfer, slave
  <2>4. TpsTypeOK'
    BY <1>1, <1>2, <1>4, <2>1, <2>3 DEF TpsTypeOK, tpsvars, AdapterTypes
  <2> QED
    BY <2>1, <2>3, <2>4 DEF DriverTypes, ReadBuffer, tpsvars
<1>8. CASE OutbReturns
  <2>1. /\ step \in 1 .. 5 /\ step' = step + 1 /\ val' = <<>> /\ pc' = "idle"
        /\ UNCHANGED <<mpu_vdd, env, msgs, msg, idx, timeout, tries, rval, flagRD, ctrl, slave>>
    BY <1>2, <1>8 DEF OutbReturns, AtChange
  <2>2. AdapterTypes'
    BY <1>1, <2>1 DEF AdapterTypes, ctrl, slave
  <2>3. TpsTypeOK'
    <3>1. step' \in 0 .. 6 /\ Len(Changes)' = 5 /\ val' = <<>>
      BY <1>4, <2>1
    <3>2. step' \in 0 .. Len(Changes)' + 1
      BY <3>1
    <3>3. /\ mpu_vdd' \in DOMAIN OpSel
          /\ regs' \in [Regs -> Bytes]
      BY <1>1, <2>1, <2>2 DEF TpsTypeOK, AdapterTypes
    <3> QED
      BY <3>1, <3>2, <3>3, <2>2 DEF TpsTypeOK, AdapterTypes
  <2> QED
    BY <2>1, <2>2, <2>3 DEF DriverTypes, ReadBuffer
<1>9. CASE Cpu /\ UNCHANGED tpsvars
  <2>1. AdapterTypes'
    BY <1>1, <1>9, CpuTypes
  <2>2. /\ Len(msgs') = Len(msgs) /\ DOMAIN msgs' = DOMAIN msgs
        /\ \A k \in DOMAIN msgs : Len(msgs'[k].buf) = Len(msgs[k].buf)
    BY <1>1, <1>9, ShapeKept
  <2>3. pc # "idle"
    BY <1>9 DEF Cpu, WaitBus, Program, PollAgain, ArbitrationLost, ResetDone, NotAcknowledged,
       TimedOut, ReceiveByte, SendByte, PassByte, Succeed, EndXfer, Clear, LoopEnds, Looking
  <2>4. ReadBuffer'
    <3>1. Len(msgs) = 2 => 2 \in DOMAIN msgs
      BY <1>1 DEF AdapterTypes
    <3> QED
      BY <1>1, <1>9, <2>2, <2>3, <3>1 DEF ReadBuffer, tpsvars
  <2>5. TpsTypeOK'
    BY <1>1, <1>2, <1>4, <1>9, <2>1 DEF TpsTypeOK, tpsvars, AdapterTypes
  <2> QED
    BY <1>9, <2>1, <2>3, <2>4, <2>5 DEF DriverTypes, tpsvars
<1> QED
  BY <1>5, <1>6, <1>7, <1>8, <1>9 DEF Driver

LEMMA WireStep ==
    ASSUME DriverTypes, Wire
    PROVE  DriverTypes' /\ step' = step /\ pc' = pc
<1>1. (Bus \/ Refuse \/ LoseBus) /\ UNCHANGED tpsvars
  BY DEF Wire
<1>2. AdapterTypes /\ TpsTypeOK /\ ReadBuffer
  BY DEF DriverTypes
<1>3. AdapterTypes'
  BY <1>1, <1>2, BusTypes
<1>4. pc' = pc /\ msgs' = msgs
  BY <1>1 DEF Bus, AskByte, BringByte, EndMessage, Refuse, LoseBus, cpu
<1>5. Len(Changes)' = Len(Changes)
  BY <1>1 DEF Changes, tpsvars
<1>6. TpsTypeOK' /\ ReadBuffer'
  BY <1>1, <1>2, <1>3, <1>4, <1>5 DEF TpsTypeOK, ReadBuffer, AdapterTypes, tpsvars
<1> QED
  BY <1>1, <1>3, <1>4, <1>6 DEF DriverTypes, tpsvars

-----------------------------------------------------------------------------
(* The arithmetic of an edited multiplier. *)
Multipliers == 0 .. 2047

LEMMA ClkselRight ==
    ASSUME NEW w \in Nat, NEW m \in Multipliers
    PROVE  /\ Clksel(w, m, 23) \in Nat
           /\ MultiplierOf(Clksel(w, m, 23)) = m /\ DividerOf(Clksel(w, m, 23)) = 23
<1> USE DEF Multipliers
<1> DEFINE c == (w - ((w \div 256) % 2048) * 256 - (w % 128)) + m * 256 + 23
<1>1. Clksel(w, m, 23) = c
  BY SMTT(10) DEF Clksel
<1> DEFINE q == w \div 256
           r == q \div 2048
           s == q % 2048
           p == w - 256 * q
<1>2. /\ r \in Nat /\ s \in 0 .. 2047 /\ p \in 0 .. 255
      /\ s = (w \div 256) % 2048 /\ w = 256 * (2048 * r + s) + p
  <2>1. q \in Nat /\ p \in 0 .. 255 /\ w = 256 * q + p
    BY SMTT(10)
  <2>2. r \in Nat /\ s \in 0 .. 2047 /\ q = 2048 * r + s
    <3> HIDE DEF q
    <3> QED
      BY <2>1, SMTT(10)
  <2> HIDE DEF r, p
  <2>3. s = (w \div 256) % 2048
    OBVIOUS
  <2> HIDE DEF q, s
  <2> QED
    BY <2>1, <2>2, <2>3, SMTT(10)
<1> HIDE DEF r, s, p, q
<1>3. w % 128 = p % 128 /\ p - (p % 128) \in {0, 128}
  BY <1>2, SMTT(10)
<1> DEFINE t == p - (p % 128)
<1>4. c = 256 * (2048 * r + m) + (t + 23) /\ t + 23 \in {23, 151}
  BY <1>2, <1>3, SMTT(10)
<1> DEFINE e == 2048 * r + m
<1> HIDE DEF c, t
<1>5. c \in Nat /\ c \div 256 = e /\ c % 128 = 23
  <2>1. e \in Nat /\ c = 256 * e + (t + 23)
    BY <1>2, <1>4
  <2> HIDE DEF e
  <2> QED
    BY <1>4, <2>1, SMTT(10)
<1>6. e % 2048 = m
  BY <1>2, SMTT(10)
<1> HIDE DEF e
<1> QED
  BY <1>1, <1>5, <1>6 DEF MultiplierOf, DividerOf

(* A field edited. *)
LEMMA FieldRight ==
    ASSUME NEW w \in Nat, NEW n \in {4, 8}, NEW x \in Nat
    PROVE  w - (w % n) + x \in Nat /\ (w - (w % n) + x) % n = x % n
<1>1. CASE n = 4
  BY <1>1, SMTT(10)
<1>2. CASE n = 8
  BY <1>2, SMTT(10)
<1> QED
  BY <1>1, <1>2

(* A bit edited. *)
LEMMA BitRight ==
    ASSUME NEW w \in Nat, NEW n \in {1, 16, 64}, (w \div n) % 2 = 1
    PROVE  w - n \in Nat
<1>1. CASE n = 1
  BY <1>1, SMTT(10)
<1>2. CASE n = 16
  BY <1>2, SMTT(10)
<1>3. CASE n = 64
  BY <1>3, SMTT(10)
<1> QED
  BY <1>1, <1>2, <1>3

LEMMA Frequency ==
    get_efuse_mpu_max_freq(board) \in MPUPLL_M /\ MPUPLL_M \subseteq Multipliers
<1>1. get_efuse_mpu_max_freq(board) \in MPUPLL_M
  BY SMTT(10) DEF get_efuse_mpu_max_freq, MPUPLL_M
<1>2. MPUPLL_M \subseteq Multipliers
  BY SMTT(10) DEF MPUPLL_M, Multipliers
<1> QED
  BY <1>1, <1>2

LEMMA FrequencyKept ==
    ASSUME board' = board
    PROVE  get_efuse_mpu_max_freq(board)' = get_efuse_mpu_max_freq(board)
  BY SMTT(10) DEF get_efuse_mpu_max_freq

-----------------------------------------------------------------------------
(* The other statements, and the addresses used. *)
LEMMA SetupKinds ==
    ASSUME NEW x \in Setups, NEW k \in x.o + 1 .. x.o + x.n
    PROVE  LET st == lowlevel_init[k] IN IsStore(st) \/ st.do \in {"read", "spin"}
<1> DEFINE P == lowlevel_init
           d == x.d
           o == x.o
           n == x.n
           m == x.m
           Goal == IsStore(P[k]) \/ P[k].do \in {"read", "spin"}
<1> SUFFICES Goal
  OBVIOUS
<1>1. IsSetup(P, o, d, n, m)
  BY SetupsPlaced
<1>2. o \in Nat /\ n \in {7, 9}
  BY SetupTypes
<1>3. k \in o + 1 .. o + n
  OBVIOUS
<1> HIDE DEF P, d, o, n, m
<1>4. CASE k = o + 1
  BY <1>1, <1>4, SMTT(10) DEF IsSetup
<1>5. CASE k = o + 2
  BY <1>1, <1>5, SMTT(10) DEF IsSetup, IsStore, Field_
<1>6. CASE k = o + 3
  BY <1>1, <1>6, SMTT(10) DEF IsSetup, Spin_
<1>7. CASE k = o + 4
  BY <1>1, <1>7, SMTT(10) DEF IsSetup, IsStore, Clksel_
<1>8. CASE k \in o + 5 .. o + n - 2
  BY <1>1, <1>8, SMTT(10) DEF IsSetup, IsStore
<1>9. CASE k = o + n - 1
  BY <1>1, <1>9, SMTT(10) DEF IsSetup, IsStore, Field_
<1>10. CASE k = o + n
  BY <1>1, <1>10, SMTT(10) DEF IsSetup, Spin_
<1>11. k = o + 1 \/ k = o + 2 \/ k = o + 3 \/ k = o + 4 \/ k \in o + 5 .. o + n - 2
       \/ k = o + n - 1 \/ k = o + n
  BY <1>2, <1>3
<1> HIDE DEF Goal
<1> QED
  BY <1>4, <1>5, <1>6, <1>7, <1>8, <1>9, <1>10, <1>11, Zenon

LEMMA KindsAre ==
    ASSUME NEW k \in 1 .. 218
    PROVE  LET st == lowlevel_init[k] IN
           k \in {198, 199, 216, 218} \/ IsStore(st) \/ st.do \in {"read", "spin"}
<1> DEFINE P == lowlevel_init
           Goal == k \in {198, 199, 216, 218} \/ IsStore(P[k]) \/ P[k].do \in {"read", "spin"}
<1> SUFFICES Goal
  OBVIOUS
<1>1. CASE k \in 1 .. 6
  BY <1>1, EarlyAre, SMTT(10) DEF IsStore
<1>2. CASE k \in 7 .. 13
  BY <1>2, DomainsAre, SMTT(10) DEF IsStore, Field_
<1>3. CASE k \in 14 .. 61
  <2>1. PICK j \in 1 .. 24 : k = 12 + 2 * j \/ k = 13 + 2 * j
    <3> DEFINE i == (k - 12) \div 2
    <3>1. i \in 1 .. 24 /\ (k = 12 + 2 * i \/ k = 13 + 2 * i)
      BY <1>3
    <3> QED
      BY <3>1
  <2>2. P[k] = Field_(mods[j], 4, 2) \/ P[k] = Spin_("module", mods[j])
    BY <2>1, ModulesAre, Zenon
  <2> QED
    BY <2>2, SMTT(10) DEF Field_, Spin_, IsStore
<1>4. CASE k = 62 \/ k = 86
  BY <1>4, LooseAre, SMTT(10) DEF Write_, IsStore
<1>5. CASE k \in 63 .. 85 \/ k \in 87 .. 93 \/ k \in 200 .. 215
  <2>1. PICK x \in Setups : k \in x.o + 1 .. x.o + x.n
    BY <1>5, SMTT(10) DEF Setups, Final, SetupOf
  <2> QED
    BY <2>1, SetupKinds, Zenon
<1>6. CASE k \in 94 .. 134
  BY <1>6, PinsAre, SMTT(10) DEF IsStore
<1>7. CASE k \in 135 .. 138
  BY <1>7, DdrAre, SMTT(10) DEF Spin_, IsStore
<1>8. CASE k \in 139 .. 180
  BY <1>8, DdrAre, SMTT(10) DEF IsStore
<1>9. CASE k \in 181 .. 192
  <2>1. CASE k \in {181, 182, 183, 184, 185, 192}
    BY <2>1, GpmcAre, SMTT(10) DEF Write_, IsStore
  <2>2. CASE k \in 186 .. 191
    <3> DEFINE j == k - 185
    <3>1. j \in 1 .. 6 /\ 185 + j = k
      BY <2>2
    <3> HIDE DEF j
    <3>2. P[k] = Write_(GPMC_BASE + 96 + 4 * (j - 1), Config[j])
      BY <3>1, GpmcAre, SMTT(10)
    <3> QED
      BY <3>2, SMTT(10) DEF Write_, IsStore
  <2> QED
    BY <1>9, <2>1, <2>2, SMTT(10)
<1>10. CASE k \in 193 .. 197
  BY <1>10, I2cAre, SMTT(10) DEF Write_, IsStore
<1>11. CASE k \in {198, 199, 216, 218}
  BY <1>11
<1>12. CASE k = 217
  BY <1>12, LastAre, SMTT(10) DEF IsStore
<1> HIDE DEF Goal
<1> QED
  BY <1>1, <1>2, <1>3, <1>4, <1>5, <1>6, <1>7, <1>8, <1>9, <1>10, <1>11, <1>12, SMTT(10)

LEMMA Used ==
    /\ \A k \in 1 .. 218 : IsStore(lowlevel_init[k]) => lowlevel_init[k].reg \in Addresses
    /\ \A k \in 1 .. 218 : lowlevel_init[k].do = "read" => lowlevel_init[k].reg \in Addresses
<1> DEFINE P == lowlevel_init
<1>1. ASSUME NEW k \in 1 .. 218, IsStore(P[k]) \/ P[k].do = "read"
      PROVE  P[k].reg \in Addresses
  <2>1. P[k] \in Statements
    BY ProgramTyped, ZenonT(60)
  <2> HIDE DEF P
  <2>2. "reg" \in DOMAIN P[k]
    BY <1>1, <2>1, Named, Zenon
  <2> USE DEF P
  <2>3. k \in Touching
    BY <2>2, ProgramTyped, Zenon DEF Touching
  <2> QED
    BY <2>3, Zenon DEF Addresses
<1> QED
  BY <1>1, Zenon

-----------------------------------------------------------------------------
(* The registers whose values last: what statement k writes to address a   *)
(* is what it holds from then on.                                          *)
Cell(k, a, v) == [k |-> k, a |-> a, v |-> v]
Written ==
    {Cell(184, GPMC_BASE + 80, 18), Cell(192, GPMC_BASE + 120, 72),
     Cell(194, I2C0_BASE + 176, 1), Cell(195, I2C0_BASE + 180, 113),
     Cell(196, I2C0_BASE + 184, 115)}
      \cup {Cell(185 + j, GPMC_BASE + 96 + 4 * (j - 1), Config[j]) : j \in 1 .. 6}

LEMMA GpmcOffsets ==
    ASSUME NEW k \in 184 .. 192
    PROVE  lowlevel_init[k].reg = GPMC_BASE + (CASE k = 184 -> 80 [] k \in {185, 192} -> 120
                                                 [] OTHER -> 96 + 4 * (k - 186))
<1>1. CASE k \in {184, 185, 192}
  BY <1>1, GpmcAre, SMTT(10) DEF Write_
<1>2. CASE k \in 186 .. 191
  <2> DEFINE j == k - 185
  <2>1. j \in 1 .. 6 /\ 185 + j = k
    BY <1>2
  <2> HIDE DEF j
  <2>2. lowlevel_init[k] = Write_(GPMC_BASE + 96 + 4 * (j - 1), Config[j])
    BY <2>1, GpmcAre, SMTT(10)
  <2>3. lowlevel_init[k].reg = GPMC_BASE + 96 + 4 * (j - 1)
    BY <2>2, SMTT(10) DEF Write_
  <2> QED
    BY <1>2, <2>1, <2>3, SMTT(10) DEF GPMC_BASE
<1> QED
  BY <1>1, <1>2, SMTT(10)

LEMMA I2cOffsets ==
    ASSUME NEW k \in 193 .. 197
    PROVE  lowlevel_init[k].reg = I2C0_BASE + (CASE k = 194 -> 176 [] k = 195 -> 180
                                                 [] k = 196 -> 184 [] OTHER -> 164)
  BY I2cAre, SMTT(10) DEF Write_, I2C0_BASE

LEMMA WrittenOnce ==
    ASSUME NEW w \in Written, NEW k \in w.k + 1 .. 218, IsStore(lowlevel_init[k]), k # 217
    PROVE  lowlevel_init[k].reg # w.a
<1> DEFINE b == lowlevel_init[k].reg
<1> SUFFICES b # w.a
  OBVIOUS
<1>1. k \in 1 .. 218
  BY SMTT(10) DEF Written, Cell
<1>2. (InGpmc(b) => k \in 181 .. 192 \/ k = 217) /\ (InI2c(b) => k \in 193 .. 197)
  <2>1. IsStore(lowlevel_init[k])
    OBVIOUS
  <2> QED
    BY <1>1, <2>1, BlockStores, ZenonT(60)
<1>3. k \in 184 .. 192 => b = GPMC_BASE + (CASE k = 184 -> 80 [] k \in {185, 192} -> 120
                                             [] OTHER -> 96 + 4 * (k - 186))
  BY GpmcOffsets, Zenon
<1>4. k \in 193 .. 197 => b = I2C0_BASE + (CASE k = 194 -> 176 [] k = 195 -> 180
                                             [] k = 196 -> 184 [] OTHER -> 164)
  BY I2cOffsets, Zenon
<1> HIDE DEF b
<1>5. CASE \E j \in 1 .. 6 : w = Cell(185 + j, GPMC_BASE + 96 + 4 * (j - 1), Config[j])
  <2>1. PICK j \in 1 .. 6 : w.k = 185 + j /\ w.a = GPMC_BASE + 96 + 4 * (j - 1)
    BY <1>5, SMTT(10) DEF Cell
  <2> SUFFICES ASSUME b = w.a PROVE FALSE
    OBVIOUS
  <2>2. k \in 187 .. 192
    BY <1>2, <2>1, SMTT(10) DEF InGpmc, GPMC_BASE
  <2> QED
    BY <1>3, <2>1, <2>2, SMTT(10) DEF GPMC_BASE
<1>6. CASE w = Cell(184, GPMC_BASE + 80, 18)
  BY <1>2, <1>3, <1>6, SMTT(10) DEF Cell, InGpmc, GPMC_BASE
<1>7. CASE w = Cell(192, GPMC_BASE + 120, 72)
  BY <1>2, <1>7, SMTT(10) DEF Cell, InGpmc, GPMC_BASE
<1>8. CASE w \in {Cell(194, I2C0_BASE + 176, 1), Cell(195, I2C0_BASE + 180, 113),
                  Cell(196, I2C0_BASE + 184, 115)}
  BY <1>2, <1>4, <1>8, SMTT(10) DEF Cell, InI2c, I2C0_BASE
<1> QED
  BY <1>5, <1>6, <1>7, <1>8, ZenonT(60) DEF Written

LEMMA WrittenAt ==
    ASSUME NEW w \in Written
    PROVE  /\ w.k \in 1 .. 218 /\ lowlevel_init[w.k] = Write_(w.a, w.v)
           /\ w.k # 217 /\ IsStore(lowlevel_init[w.k]) /\ w.a \in Addresses /\ w.v \in Nat
<1>1. w.k \in 184 .. 196 /\ lowlevel_init[w.k] = Write_(w.a, w.v) /\ w.v \in Nat
  <2>1. CASE \E j \in 1 .. 6 : w = Cell(185 + j, GPMC_BASE + 96 + 4 * (j - 1), Config[j])
    <3>1. PICK j \in 1 .. 6 : w = Cell(185 + j, GPMC_BASE + 96 + 4 * (j - 1), Config[j])
      BY <2>1
    <3>2. /\ w.k = 185 + j /\ w.a = GPMC_BASE + 96 + 4 * (j - 1) /\ w.v = Config[j]
      BY <3>1, SMTT(10) DEF Cell
    <3>3. lowlevel_init[185 + j] = Write_(GPMC_BASE + 96 + 4 * (j - 1), Config[j])
      BY GpmcAre, Zenon
    <3>4. w.k \in 184 .. 196 /\ w.v \in Nat
      BY <3>2, ConfigWords, SMTT(10)
    <3> QED
      BY <3>2, <3>3, <3>4, Zenon
  <2>2. CASE w \in {Cell(184, GPMC_BASE + 80, 18), Cell(192, GPMC_BASE + 120, 72),
                    Cell(194, I2C0_BASE + 176, 1), Cell(195, I2C0_BASE + 180, 113),
                    Cell(196, I2C0_BASE + 184, 115)}
    BY <2>2, GpmcAre, I2cAre, SMTT(10) DEF Cell
  <2> QED
    BY <2>1, <2>2, Zenon DEF Written
<1>2. w.k \in 1 .. 218 /\ w.k # 217
  BY <1>1
<1>3. lowlevel_init[w.k].do = "write" /\ lowlevel_init[w.k].reg = w.a
  BY <1>1, SMTT(10) DEF Write_
<1>4. IsStore(lowlevel_init[w.k])
  BY <1>3 DEF IsStore
<1> QED
  BY <1>1, <1>2, <1>3, <1>4, Used, Zenon

-----------------------------------------------------------------------------
(* The last set-up of a PLL comes after the others, and there is one.      *)
LEMMA FinalLast ==
    /\ \A x \in Final, y \in Setups : x.d = y.d => y = x \/ y.o + y.n <= x.o
    /\ \A d \in Dplls : \E x \in Final : x.d = d
    /\ Final \subseteq Setups
    /\ \A x \in Setups, y \in Setups :
          x = y \/ x.o + x.n <= y.o \/ y.o + y.n <= x.o
<1>1. \A x \in Final, y \in Setups : x.d = y.d => y = x \/ y.o + y.n <= x.o
  BY SMTT(20) DEF Setups, Final, SetupOf
<1>2. \A d \in Dplls : \E x \in Final : x.d = d
  BY DpllRegisters, SMTT(20) DEF Final, SetupOf
<1>3. Final \subseteq Setups
  BY DEF Setups
<1>4. \A x \in Setups, y \in Setups : x = y \/ x.o + x.n <= y.o \/ y.o + y.n <= x.o
  BY SMTT(20) DEF Setups, Final, SetupOf
<1> QED
  BY <1>1, <1>2, <1>3, <1>4

(* The statements of a set-up by name. *)
LEMMA SetupAt ==
    ASSUME NEW x \in Setups
    PROVE  /\ lowlevel_init[x.o + 2] = Field_(dpll_regs[x.d].clkmode, 8, 4)
           /\ lowlevel_init[x.o + 3] = Spin_("bypassed", x.d)
           /\ lowlevel_init[x.o + 4] = Clksel_(x.d, x.m, 23)
           /\ lowlevel_init[x.o + x.n - 1] = Field_(dpll_regs[x.d].clkmode, 8, 7)
           /\ lowlevel_init[x.o + x.n] = Spin_("locked", x.d)
  BY SetupsPlaced, Zenon DEF IsSetup

LEMMA PllAddresses ==
    ASSUME NEW d \in Dplls
    PROVE  dpll_regs[d].clkmode \in Addresses /\ dpll_regs[d].clksel \in Addresses
<1>1. PICK x \in Setups : x.d = d
  BY FinalLast, Zenon
<1>2. x.o + 2 \in 1 .. 218 /\ x.o + 4 \in 1 .. 218
  BY SetupTypes
<1>3. /\ lowlevel_init[x.o + 2].do = "field"
      /\ lowlevel_init[x.o + 2].reg = dpll_regs[d].clkmode
  <2>1. lowlevel_init[x.o + 2] = Field_(dpll_regs[x.d].clkmode, 8, 4)
    BY SetupAt, Zenon
  <2> QED
    BY <1>1, <2>1, SMTT(10) DEF Field_
<1>4. /\ lowlevel_init[x.o + 4].do = "clksel"
      /\ lowlevel_init[x.o + 4].reg = dpll_regs[d].clksel
  <2>1. lowlevel_init[x.o + 4] = Clksel_(x.d, x.m, 23)
    BY SetupAt, Zenon
  <2> QED
    BY <1>1, <2>1, SMTT(10) DEF Clksel_
<1>5. IsStore(lowlevel_init[x.o + 2]) /\ IsStore(lowlevel_init[x.o + 4])
  BY <1>3, <1>4 DEF IsStore
<1> QED
  BY <1>2, <1>3, <1>4, <1>5, Used, Zenon

LEMMA ModuleAddresses ==
    /\ CM_RTC \in Addresses /\ CM_RTC \in Modules /\ Modules \subseteq Addresses
    /\ \A a \in Modules : a \in Nat /\ InModules(a)
<1>1. ASSUME NEW j \in 1 .. 24 PROVE mods[j] \in Addresses
  <2>1. lowlevel_init[12 + 2 * j] = Field_(mods[j], 4, 2)
    BY ModulesAre, Zenon
  <2>2. lowlevel_init[12 + 2 * j].do = "field" /\ lowlevel_init[12 + 2 * j].reg = mods[j]
    BY <2>1, SMTT(10) DEF Field_
  <2>3. 12 + 2 * j \in 1 .. 218
    OBVIOUS
  <2> QED
    BY <2>2, <2>3, Used, Zenon DEF IsStore
<1>2. Modules = {mods[j] : j \in 1 .. 24} /\ mods[21] = CM_RTC
      /\ \A j \in 1 .. 24 : mods[j] \in Nat /\ InModules(mods[j])
  BY ModuleRegisters, Zenon
<1>3. 21 \in 1 .. 24
  OBVIOUS
<1>4. CM_RTC \in Modules /\ CM_RTC \in Addresses
  BY <1>1, <1>2, <1>3, Zenon
<1> QED
  BY <1>1, <1>2, <1>4, Zenon

-----------------------------------------------------------------------------
(* The inductive invariant. *)

BoardTypes ==
    /\ at \in 1 .. 219 /\ tmp \in Nat /\ board \in Boards
    /\ mmio \in [Addresses -> Nat]
    /\ locked \in SUBSET Dplls /\ ready \in SUBSET Modules
    /\ rate \in [Dplls -> (0 .. 2047) \X (0 .. 127)]
    /\ vtp \in {"off", "running", "ready"} /\ posting \in BOOLEAN

(* What the processor knows, by the statement it is at. *)
Course ==
    /\ mpu_m = IF at <= 198 THEN 550 ELSE get_efuse_mpu_max_freq(board)
    /\ port = IF at <= 216 THEN -1 ELSE 0
    /\ step # 0 => at >= 199
    /\ pc # "idle" => step # 0

(* While a PLL is set up it is asked to stay in bypass, and it is there    *)
(* once the wait is over.                                                  *)
Bypass ==
    \A x \in Setups :
        /\ at \in x.o + 3 .. x.o + x.n - 1 => ClkmodeOf(x.d) = 4
        /\ at \in x.o + 4 .. x.o + x.n - 1 => x.d \notin locked

(* After its last set-up a PLL keeps its multiplier, is asked to lock, and *)
(* is locked at it.                                                        *)
Locked ==
    \A x \in Final :
        /\ at > x.o + 4 => /\ MultiplierOf(ClkselOf(x.d)) = Multiplier(x.d)
                           /\ DividerOf(ClkselOf(x.d)) = 23
        /\ at > x.o + x.n - 1 => /\ ClkmodeOf(x.d) = 7
                                 /\ x.d \in locked => rate[x.d] = <<Multiplier(x.d), 23>>
        /\ at > x.o + x.n => x.d \in locked

(* What was started and waited for runs, but for the RTC's clock after the *)
(* pad store that hits its register.                                       *)
Started ==
    /\ \A j \in 1 .. 24 : at > 13 + 2 * j => mods[j] \in ready \/ (mods[j] = CM_RTC /\ at > 120)
    /\ at > 120 => CM_RTC \notin ready /\ mmio[CM_RTC] % 4 = 0
    /\ at > 138 => vtp = "ready"

Settled == \A w \in Written : at > w.k => mmio[w.a] = w.v

IInv == DriverTypes /\ BoardTypes /\ Course /\ Bypass /\ Locked /\ Started /\ Settled

-----------------------------------------------------------------------------
(* A store of v to a by the statement at `at'. *)
Puts(a, v) ==
    LET st == lowlevel_init[at] IN
    /\ at \in 1 .. 218 /\ IsStore(st) /\ a = st.reg /\ v \in Nat
    /\ Takes(a, v) /\ Goes /\ UNCHANGED <<tmp, mpu_m>>
    /\ st.do = "write" => v = st.val
    /\ st.do = "field" => v % st.size = st.val % st.size
    /\ st.do = "clksel" => v = Clksel(tmp, IF st.m = Fused THEN mpu_m ELSE st.m, st.n)
    /\ at = 217 => v = mmio[a]

LEMMA Changed ==
    ASSUME NEW a, NEW v, BoardTypes, Puts(a, v)
    PROVE  /\ mmio' \in [Addresses -> Nat] /\ a \in Addresses /\ a \in Nat /\ v \in Nat
           /\ mmio'[a] = v /\ \A b \in Addresses : b # a => mmio'[b] = mmio[b]
           /\ at \in 1 .. 218 /\ at' = at + 1 /\ IsStore(lowlevel_init[at])
           /\ locked' = locked /\ rate' = rate /\ board' = board
<1>1. at \in 1 .. 218 /\ IsStore(lowlevel_init[at]) /\ a = lowlevel_init[at].reg /\ v \in Nat
  BY Zenon DEF Puts
<1>2. a \in Addresses
  BY <1>1, Used, Zenon
<1>3. a \in Nat
  BY <1>1, StoresTo, ZenonT(60)
<1>4. /\ mmio' = [mmio EXCEPT ![a] = v] /\ at' = at + 1
      /\ locked' = locked /\ rate' = rate /\ board' = board
  BY Zenon DEF Puts, Takes, Goes
<1>5. mmio \in [Addresses -> Nat]
  BY DEF BoardTypes
<1>6. /\ mmio' \in [Addresses -> Nat]
      /\ mmio'[a] = v /\ \A b \in Addresses : b # a => mmio'[b] = mmio[b]
  BY <1>1, <1>2, <1>4, <1>5
<1> QED
  BY <1>1, <1>2, <1>3, <1>4, <1>6, Zenon

LEMMA PutsTypes ==
    ASSUME NEW a, NEW v, BoardTypes, Puts(a, v)
    PROVE  BoardTypes'
<1>1. /\ mmio' \in [Addresses -> Nat] /\ at \in 1 .. 218 /\ at' = at + 1
      /\ locked' = locked /\ rate' = rate /\ board' = board
  BY Changed, ZenonT(60)
<1>2. at' \in 1 .. 219
  BY <1>1
<1>3. tmp' = tmp
  BY DEF Puts
<1> DEFINE off == a \in Modules /\ v % MODULE_CLKCTRL_MODULEMODE # SW_EXPLICIT_EN
           wd == a = WDTREG_WSPR
<1>7. /\ ready' = IF off THEN ready \ {a} ELSE ready
      /\ vtp' = CASE a = VTP0_CTRL_ADDR /\ v % 2 = 0 -> "off"
                  [] a = VTP0_CTRL_ADDR /\ v % 2 = 1 /\ vtp = "off" -> "running"
                  [] OTHER -> vtp
      /\ posting' = (posting \/ wd)
  BY DEF Puts, Takes
<1>8. /\ ready \in SUBSET Modules /\ posting \in BOOLEAN
      /\ vtp \in {"off", "running", "ready"}
  BY DEF BoardTypes
<1>5. vtp' \in {"off", "running", "ready"}
  BY <1>7, <1>8, SMTT(10)
<1> HIDE DEF off, wd
<1>4. ready' \in SUBSET Modules
  BY <1>7, <1>8
<1>6. posting' \in BOOLEAN
  BY <1>7, <1>8
<1> QED
  BY <1>1, <1>2, <1>3, <1>4, <1>5, <1>6, Zenon DEF BoardTypes

(* The registers of a PLL are stored to by its own set-ups only. *)
LEMMA PllStore ==
    ASSUME NEW a, NEW v, BoardTypes, Puts(a, v), NEW d \in Dplls,
           a \in {dpll_regs[d].clkmode, dpll_regs[d].clksel}
    PROVE  \E y \in Setups :
              /\ y.d = d
              /\ \/ at = y.o + 2 /\ a = dpll_regs[d].clkmode
                 \/ at = y.o + 4 /\ a = dpll_regs[d].clksel
                 \/ at = y.o + y.n - 1 /\ a = dpll_regs[d].clkmode
<1>1. at \in 1 .. 218 /\ IsStore(lowlevel_init[at]) /\ a = lowlevel_init[at].reg
  BY Zenon DEF Puts
<1>2. InPlls(a)
  BY PllRegisters, Zenon
<1>3. PICK y \in Setups : SetupStore(at, y)
  BY <1>1, <1>2, StoresTo, ZenonT(60)
<1>4. y.d \in Dplls
  BY SetupTypes
<1>5. /\ \A i \in 1 .. 5 : /\ dpll_regs[y.d].div[i] # dpll_regs[d].clkmode
                           /\ dpll_regs[y.d].div[i] # dpll_regs[d].clksel
      /\ dpll_regs[y.d].clkmode # dpll_regs[d].clksel
      /\ dpll_regs[d].clkmode # dpll_regs[y.d].clksel
      /\ y.d # d => /\ dpll_regs[y.d].clkmode # dpll_regs[d].clkmode
                    /\ dpll_regs[y.d].clksel # dpll_regs[d].clksel
  BY <1>4, PllsApart, ZenonT(60)
<1>6. \/ at = y.o + 2 /\ a = dpll_regs[y.d].clkmode
      \/ at = y.o + 4 /\ a = dpll_regs[y.d].clksel
      \/ \E i \in 1 .. 5 : a = dpll_regs[y.d].div[i]
      \/ at = y.o + y.n - 1 /\ a = dpll_regs[y.d].clkmode
  BY <1>1, <1>3, SMTT(10) DEF SetupStore, Field_, Clksel_
<1> QED
  BY <1>5, <1>6, Zenon

LEMMA PutsBypass ==
    ASSUME NEW a, NEW v, BoardTypes, Bypass, Puts(a, v)
    PROVE  Bypass'
<1> SUFFICES ASSUME NEW x \in Setups
             PROVE  /\ at' \in x.o + 3 .. x.o + x.n - 1 => ClkmodeOf(x.d)' = 4
                    /\ at' \in x.o + 4 .. x.o + x.n - 1 => x.d \notin locked'
  BY Zenon DEF Bypass
<1> DEFINE c == dpll_regs[x.d].clkmode
<1>1. x.d \in Dplls /\ x.o \in Nat /\ x.n \in {7, 9}
  BY SetupTypes
<1>2. /\ mmio'[a] = v /\ \A b \in Addresses : b # a => mmio'[b] = mmio[b]
      /\ at \in 1 .. 218 /\ at' = at + 1 /\ IsStore(lowlevel_init[at]) /\ locked' = locked
  BY Changed, ZenonT(60)
<1>3. c \in Addresses
  BY <1>1, PllAddresses, Zenon
<1>4. at # x.o + 3
  <2>1. lowlevel_init[x.o + 3].do = "spin"
    <3>1. lowlevel_init[x.o + 3] = Spin_("bypassed", x.d)
      BY SetupAt, Zenon
    <3> QED
      BY <3>1, SMTT(10) DEF Spin_
  <2> QED
    BY <1>2, <2>1 DEF IsStore
<1>5. ASSUME at' \in x.o + 4 .. x.o + x.n - 1 PROVE x.d \notin locked'
  <2>1. at \in x.o + 4 .. x.o + x.n - 1
    BY <1>1, <1>2, <1>4, <1>5
  <2> QED
    BY <1>2, <2>1, Zenon DEF Bypass
<1>6. ASSUME at' \in x.o + 3 .. x.o + x.n - 1 PROVE mmio'[c] % 8 = 4
  <2>1. CASE at = x.o + 2
    <3>1. lowlevel_init[at] = Field_(dpll_regs[x.d].clkmode, 8, 4)
      BY <2>1, SetupAt, Zenon
    <3>2. /\ lowlevel_init[at].do = "field" /\ lowlevel_init[at].size = 8
          /\ lowlevel_init[at].val = 4 /\ lowlevel_init[at].reg = c
      BY <3>1, SMTT(10) DEF Field_
    <3>3. v % 8 = 4 % 8 /\ a = c
      BY <3>2, Zenon DEF Puts
    <3> QED
      BY <1>2, <3>3
  <2>2. CASE at # x.o + 2
    <3>1. at \in x.o + 3 .. x.o + x.n - 2 /\ at \in x.o + 3 .. x.o + x.n - 1
      BY <1>1, <1>2, <1>6, <2>2
    <3>2. mmio[c] % 8 = 4
      BY <3>1, Zenon DEF Bypass, ClkmodeOf, CM_CLKMODE_DPLL_EN
    <3>3. a # c
      <4> SUFFICES ASSUME a = c PROVE FALSE
        OBVIOUS
      <4>1. PICK y \in Setups : /\ y.d = x.d
                                /\ \/ at = y.o + 2 /\ a = dpll_regs[x.d].clkmode
                                   \/ at = y.o + 4 /\ a = dpll_regs[x.d].clksel
                                   \/ at = y.o + y.n - 1 /\ a = dpll_regs[x.d].clkmode
        BY <1>1, PllStore, ZenonT(60)
      <4>2. at = y.o + 2 \/ at = y.o + y.n - 1
        <5>1. dpll_regs[x.d].clkmode # dpll_regs[x.d].clksel
          BY <1>1, PllsApart, ZenonT(60)
        <5> QED
          BY <4>1, <5>1, Zenon
      <4>3. y.o \in Nat /\ y.n \in {7, 9}
        BY SetupTypes
      <4>4. x = y \/ x.o + x.n <= y.o \/ y.o + y.n <= x.o
        BY FinalLast, Zenon
      <4>5. x.o # y.o \/ x = y
        BY <1>1, <4>3, <4>4
      <4> QED
        BY <1>1, <1>2, <3>1, <4>2, <4>3, <4>4
    <3> QED
      BY <1>2, <1>3, <3>2, <3>3, Zenon
  <2> QED
    BY <2>1, <2>2
<1> QED
  BY <1>5, <1>6, Zenon DEF ClkmodeOf, CM_CLKMODE_DPLL_EN

LEMMA PutsCourse ==
    ASSUME NEW a, NEW v, BoardTypes, Course, Puts(a, v)
    PROVE  Course'
<1>1. at \in 1 .. 218 /\ at' = at + 1 /\ IsStore(lowlevel_init[at]) /\ board' = board
  BY Changed, ZenonT(60)
<1>2. mpu_m' = mpu_m /\ port' = port /\ step' = step /\ pc' = pc
  BY DEF Puts, Goes, tpsvars, i2cvars, cpu
<1>3. at # 198 /\ at # 216
  BY <1>1, LastAre, SMTT(10) DEF IsStore
<1>4. get_efuse_mpu_max_freq(board)' = get_efuse_mpu_max_freq(board)
  BY <1>1, FrequencyKept
<1>5. /\ (at' <= 198 <=> at <= 198) /\ (at' <= 216 <=> at <= 216)
      /\ at >= 199 => at' >= 199
  BY <1>1, <1>3
<1> DEFINE f == get_efuse_mpu_max_freq(board)
<1>6. f' = f
  BY <1>4
<1>7. /\ mpu_m = IF at <= 198 THEN 550 ELSE f
      /\ port = IF at <= 216 THEN -1 ELSE 0
      /\ step # 0 => at >= 199
      /\ pc # "idle" => step # 0
  BY DEF Course
<1>8. /\ mpu_m' = IF at' <= 198 THEN 550 ELSE f'
      /\ port' = IF at' <= 216 THEN -1 ELSE 0
      /\ step' # 0 => at' >= 199
      /\ pc' # "idle" => step' # 0
  <2> HIDE DEF f
  <2> QED
    BY <1>2, <1>5, <1>6, <1>7
<1> QED
  BY <1>8 DEF Course

(* A PLL that has had its last set-up is not stored to. *)
LEMMA FinalStore ==
    ASSUME NEW a, NEW v, BoardTypes, Puts(a, v), NEW x \in Final, at > x.o + 4
    PROVE  /\ a # dpll_regs[x.d].clksel
           /\ a = dpll_regs[x.d].clkmode => at = x.o + x.n - 1
<1>1. x \in Setups /\ x.d \in Dplls /\ x.o \in Nat /\ x.n \in {7, 9}
  BY SetupTypes, FinalLast
<1>2. at \in 1 .. 218
  BY Zenon DEF Puts
<1>3. dpll_regs[x.d].clkmode # dpll_regs[x.d].clksel
  BY <1>1, PllsApart, ZenonT(60)
<1> SUFFICES ASSUME a \in {dpll_regs[x.d].clkmode, dpll_regs[x.d].clksel}
             PROVE  a = dpll_regs[x.d].clkmode /\ at = x.o + x.n - 1
  BY <1>3
<1>4. PICK y \in Setups : /\ y.d = x.d
                          /\ \/ at = y.o + 2 /\ a = dpll_regs[x.d].clkmode
                             \/ at = y.o + 4 /\ a = dpll_regs[x.d].clksel
                             \/ at = y.o + y.n - 1 /\ a = dpll_regs[x.d].clkmode
  BY <1>1, PllStore, ZenonT(60)
<1>5. y.o \in Nat /\ y.n \in {7, 9}
  BY SetupTypes
<1>6. y = x \/ y.o + y.n <= x.o
  BY <1>4, FinalLast, Zenon
<1>7. y = x
  BY <1>1, <1>2, <1>4, <1>5, <1>6
<1>8. at # x.o + 2 /\ at # x.o + 4
  BY <1>1, <1>2
<1> QED
  BY <1>4, <1>7, <1>8, Zenon

LEMMA FinalMultiplier ==
    ASSUME NEW x \in Final, Course, at = x.o + 4
    PROVE  /\ (IF x.m = Fused THEN mpu_m ELSE x.m) = Multiplier(x.d)
           /\ Multiplier(x.d) \in Multipliers
<1> DEFINE f == get_efuse_mpu_max_freq(board)
<1>1. f \in Multipliers
  BY Frequency, Zenon
<1>2. mpu_m = IF at <= 198 THEN 550 ELSE f
  BY DEF Course
<1> HIDE DEF f
<1>3. CASE x = SetupOf("mpu", 208, 7, -1)
  BY <1>1, <1>2, <1>3, SMTT(10) DEF SetupOf, Fused, Multiplier, f, Multipliers
<1>4. CASE x = SetupOf("per", 78, 7, 960)
  BY <1>4, SMTT(10) DEF SetupOf, Fused, Multiplier, Multipliers
<1>5. CASE x = SetupOf("ddr", 86, 7, 303)
  BY <1>5, SMTT(10) DEF SetupOf, Fused, Multiplier, Multipliers
<1>6. CASE x = SetupOf("core", 199, 9, 1000)
  BY <1>6, SMTT(10) DEF SetupOf, Fused, Multiplier, Multipliers
<1> QED
  BY <1>3, <1>4, <1>5, <1>6 DEF Final

LEMMA MultiplierKept ==
    ASSUME board' = board, NEW d PROVE Multiplier(d)' = Multiplier(d)
<1>1. get_efuse_mpu_max_freq(board)' = get_efuse_mpu_max_freq(board)
  BY FrequencyKept
<1> QED
  BY <1>1, Zenon DEF Multiplier

LEMMA PutsLocked ==
    ASSUME NEW a, NEW v, BoardTypes, Course, Bypass, Locked, Puts(a, v)
    PROVE  Locked'
<1> SUFFICES ASSUME NEW x \in Final
             PROVE  /\ at' > x.o + 4 => /\ MultiplierOf(ClkselOf(x.d))' = Multiplier(x.d)'
                                        /\ DividerOf(ClkselOf(x.d))' = 23
                    /\ at' > x.o + x.n - 1 => /\ ClkmodeOf(x.d)' = 7
                                              /\ x.d \in locked' => rate'[x.d] = <<Multiplier(x.d)', 23>>
                    /\ at' > x.o + x.n => x.d \in locked'
  BY DEF Locked
<1> DEFINE c == dpll_regs[x.d].clkmode
           s == dpll_regs[x.d].clksel
<1>1. x \in Setups /\ x.d \in Dplls /\ x.o \in Nat /\ x.n \in {7, 9}
  BY SetupTypes, FinalLast
<1>2. /\ mmio'[a] = v /\ \A b \in Addresses : b # a => mmio'[b] = mmio[b]
      /\ at \in 1 .. 218 /\ at' = at + 1 /\ IsStore(lowlevel_init[at])
      /\ locked' = locked /\ rate' = rate /\ board' = board
  BY Changed, ZenonT(60)
<1>3. c \in Addresses /\ s \in Addresses
  BY <1>1, PllAddresses, Zenon
<1>4. Multiplier(x.d)' = Multiplier(x.d)
  BY <1>2, MultiplierKept, Zenon
<1>5. at # x.o + x.n
  <2>1. lowlevel_init[x.o + x.n].do = "spin"
    <3>1. lowlevel_init[x.o + x.n] = Spin_("locked", x.d)
      BY <1>1, SetupAt, Zenon
    <3> QED
      BY <3>1, SMTT(10) DEF Spin_
  <2> QED
    BY <1>2, <2>1 DEF IsStore
<1>6. ASSUME at' > x.o + x.n PROVE x.d \in locked'
  <2>1. at > x.o + x.n
    BY <1>1, <1>2, <1>5, <1>6
  <2> QED
    BY <1>2, <2>1, Zenon DEF Locked
<1>7. ASSUME at' > x.o + 4
      PROVE  MultiplierOf(mmio'[s]) = Multiplier(x.d) /\ DividerOf(mmio'[s]) = 23
  <2>1. CASE at = x.o + 4
    <3>1. lowlevel_init[at] = Clksel_(x.d, x.m, 23)
      BY <1>1, <2>1, SetupAt, Zenon
    <3>2. /\ lowlevel_init[at].do = "clksel" /\ lowlevel_init[at].m = x.m
          /\ lowlevel_init[at].n = 23 /\ lowlevel_init[at].reg = s
      BY <3>1, SMTT(10) DEF Clksel_
    <3>3. v = Clksel(tmp, IF x.m = Fused THEN mpu_m ELSE x.m, 23) /\ a = s
      BY <3>2, Zenon DEF Puts
    <3>4. v = Clksel(tmp, Multiplier(x.d), 23) /\ Multiplier(x.d) \in Multipliers
      BY <3>3, <2>1, FinalMultiplier, Zenon
    <3>5. tmp \in Nat
      BY DEF BoardTypes
    <3>6. MultiplierOf(v) = Multiplier(x.d) /\ DividerOf(v) = 23
      BY <3>4, <3>5, ClkselRight, Zenon
    <3> QED
      BY <1>2, <3>3, <3>6, Zenon
  <2>2. CASE at # x.o + 4
    <3>1. at > x.o + 4
      BY <1>1, <1>2, <1>7, <2>2
    <3>2. MultiplierOf(mmio[s]) = Multiplier(x.d) /\ DividerOf(mmio[s]) = 23
      BY <3>1, Zenon DEF Locked, ClkselOf
    <3>3. a # s
      BY <3>1, FinalStore, Zenon
    <3> QED
      BY <1>2, <1>3, <3>2, <3>3, Zenon
  <2> QED
    BY <2>1, <2>2
<1>8. ASSUME at' > x.o + x.n - 1
      PROVE  mmio'[c] % 8 = 7 /\ (x.d \in locked => rate[x.d] = <<Multiplier(x.d), 23>>)
  <2>1. CASE at = x.o + x.n - 1
    <3>1. lowlevel_init[at] = Field_(dpll_regs[x.d].clkmode, 8, 7)
      BY <1>1, <2>1, SetupAt, Zenon
    <3>2. /\ lowlevel_init[at].do = "field" /\ lowlevel_init[at].size = 8
          /\ lowlevel_init[at].val = 7 /\ lowlevel_init[at].reg = c
      BY <3>1, SMTT(10) DEF Field_
    <3>3. v % 8 = 7 % 8 /\ a = c
      BY <3>2, Zenon DEF Puts
    <3>4. at \in x.o + 4 .. x.o + x.n - 1
      BY <1>1, <1>2, <2>1
    <3>5. x.d \notin locked
      BY <1>1, <3>4, Zenon DEF Bypass
    <3> QED
      BY <1>2, <3>3, <3>5
  <2>2. CASE at # x.o + x.n - 1
    <3>1. at > x.o + x.n - 1 /\ at > x.o + 4
      BY <1>1, <1>2, <1>8, <2>2
    <3>2. mmio[c] % 8 = 7 /\ (x.d \in locked => rate[x.d] = <<Multiplier(x.d), 23>>)
      BY <3>1, Zenon DEF Locked, ClkmodeOf, CM_CLKMODE_DPLL_EN
    <3>3. a # c
      BY <2>2, <3>1, FinalStore, Zenon
    <3> QED
      BY <1>2, <1>3, <3>2, <3>3, Zenon
  <2> QED
    BY <2>1, <2>2
<1> QED
  BY <1>2, <1>4, <1>6, <1>7, <1>8 DEF ClkmodeOf, ClkselOf, CM_CLKMODE_DPLL_EN,
     MultiplierOf, DividerOf

LEMMA PutsStarted ==
    ASSUME NEW a, NEW v, BoardTypes, Started, Puts(a, v)
    PROVE  Started'
<1>1. /\ mmio'[a] = v /\ \A b \in Addresses : b # a => mmio'[b] = mmio[b]
      /\ at \in 1 .. 218 /\ at' = at + 1 /\ IsStore(lowlevel_init[at]) /\ a \in Nat
  BY Changed, ZenonT(60)
<1>2. a = lowlevel_init[at].reg
  BY Zenon DEF Puts
<1>3. a \in Modules => \/ at \in 7 .. 61 /\ v % 4 = 2
                       \/ at = 120 /\ a = CM_RTC /\ v = 48
  <2> SUFFICES ASSUME a \in Modules
               PROVE  \/ at \in 7 .. 61 /\ v % 4 = 2
                      \/ at = 120 /\ a = CM_RTC /\ v = 48
    OBVIOUS
  <2>1. InModules(a)
    BY ModuleAddresses, Zenon
  <2> DEFINE st == lowlevel_init[at]
  <2>2. \/ at \in 7 .. 61 /\ st.do = "field" /\ st.size = 4 /\ st.val = 2
        \/ at = 120 /\ st = Write_(CM_RTC, 48)
    BY <1>1, <1>2, <2>1, StoresTo, ZenonT(60)
  <2>3. CASE at \in 7 .. 61 /\ st.do = "field" /\ st.size = 4 /\ st.val = 2
    <3>1. v % 4 = 2 % 4
      BY <2>3, Zenon DEF Puts
    <3> QED
      BY <2>3, <3>1
  <2>4. CASE at = 120 /\ st = Write_(CM_RTC, 48)
    <3>1. st.do = "write" /\ st.val = 48 /\ st.reg = CM_RTC
      BY <2>4, SMTT(10) DEF Write_
    <3>2. v = st.val
      BY <3>1, Zenon DEF Puts
    <3> QED
      BY <1>2, <2>4, <3>1, <3>2, Zenon
  <2> QED
    BY <2>2, <2>3, <2>4, Zenon
<1>4. ready' = IF a \in Modules /\ v % 4 # 2 THEN ready \ {a} ELSE ready
  BY Zenon DEF Puts, Takes, MODULE_CLKCTRL_MODULEMODE, SW_EXPLICIT_EN
<1>5. at # 138
  BY <1>1, DdrAre, SMTT(10) DEF IsStore, Spin_
<1>6. at > 138 => vtp' = vtp
  <2> SUFFICES ASSUME at > 138 PROVE vtp' = vtp
    OBVIOUS
  <2>1. at \notin 135 .. 137
    BY <1>1
  <2>2. ~InVtp(a)
    <3>1. IsStore(lowlevel_init[at]) /\ at \in 1 .. 218
      BY <1>1
    <3>2. InVtp(lowlevel_init[at].reg) => at \in 135 .. 137
      BY <3>1, BlockStores, ZenonT(60)
    <3> QED
      BY <1>2, <2>1, <3>2, Zenon
  <2>3. a # VTP0_CTRL_ADDR
    BY <2>2 DEF InVtp, VTP0_CTRL_ADDR
  <2> QED
    <3>1. vtp' = CASE a = VTP0_CTRL_ADDR /\ v % 2 = 0 -> "off"
                   [] a = VTP0_CTRL_ADDR /\ v % 2 = 1 /\ vtp = "off" -> "running"
                   [] OTHER -> vtp
      BY DEF Puts, Takes
    <3> QED
      BY <2>3, <3>1
<1>7. \A j \in 1 .. 24 : at' > 13 + 2 * j => mods[j] \in ready' \/ (mods[j] = CM_RTC /\ at' > 120)
  <2> SUFFICES ASSUME NEW j \in 1 .. 24, at' > 13 + 2 * j
               PROVE  mods[j] \in ready' \/ (mods[j] = CM_RTC /\ at' > 120)
    OBVIOUS
  <2>1. at # 13 + 2 * j
    <3>1. lowlevel_init[13 + 2 * j] = Spin_("module", mods[j])
      BY ModulesAre, Zenon
    <3>2. lowlevel_init[13 + 2 * j].do = "spin"
      BY <3>1, SMTT(10) DEF Spin_
    <3> QED
      BY <1>1, <3>2 DEF IsStore
  <2>2. at > 13 + 2 * j
    BY <1>1, <2>1
  <2>3. mods[j] \in ready \/ (mods[j] = CM_RTC /\ at > 120)
    BY <2>2, Zenon DEF Started
  <2> QED
    BY <1>1, <1>3, <1>4, <2>3
<1>8. at' > 120 => CM_RTC \notin ready' /\ mmio'[CM_RTC] % 4 = 0
  <2> SUFFICES ASSUME at' > 120 PROVE CM_RTC \notin ready' /\ mmio'[CM_RTC] % 4 = 0
    OBVIOUS
  <2>1. CASE at = 120
    <3>1. lowlevel_init[at] = Write_(CM_RTC, 48)
      BY <2>1, PinsAre, Zenon
    <3>2. /\ lowlevel_init[at].do = "write" /\ lowlevel_init[at].val = 48
          /\ lowlevel_init[at].reg = CM_RTC
      BY <3>1, SMTT(10) DEF Write_
    <3>3. a = CM_RTC /\ v = 48
      BY <3>2, Zenon DEF Puts
    <3>4. CM_RTC \in Modules
      BY ModuleAddresses, Zenon
    <3> HIDE DEF Modules
    <3> QED
      BY <1>1, <1>4, <3>3, <3>4
  <2>2. CASE at # 120
    <3>1. at > 120 /\ at \notin 7 .. 61
      BY <1>1, <2>2
    <3>2. CM_RTC \notin ready /\ mmio[CM_RTC] % 4 = 0
      BY <3>1, Zenon DEF Started
    <3>3. a \notin Modules
      BY <1>3, <2>2, <3>1, Zenon
    <3>4. CM_RTC \in Addresses /\ CM_RTC # a
      BY <3>3, ModuleAddresses, Zenon
    <3>5. mmio'[CM_RTC] = mmio[CM_RTC]
      BY <1>1, <3>4, Zenon
    <3> QED
      BY <1>4, <3>2, <3>3, <3>5, Zenon
  <2> QED
    BY <2>1, <2>2
<1>9. at' > 138 => vtp' = "ready"
  <2>1. at' > 138 => at > 138
    BY <1>1, <1>5
  <2> QED
    BY <1>6, <2>1, Zenon DEF Started
<1> QED
  BY <1>7, <1>8, <1>9 DEF Started

LEMMA PutsSettled ==
    ASSUME NEW a, NEW v, BoardTypes, Settled, Puts(a, v)
    PROVE  Settled'
<1> SUFFICES ASSUME NEW w \in Written, at' > w.k PROVE mmio'[w.a] = w.v
  BY Zenon DEF Settled
<1>1. /\ mmio'[a] = v /\ \A b \in Addresses : b # a => mmio'[b] = mmio[b]
      /\ at \in 1 .. 218 /\ at' = at + 1 /\ IsStore(lowlevel_init[at])
  BY Changed, ZenonT(60)
<1>2. a = lowlevel_init[at].reg
  BY Zenon DEF Puts
<1>3. /\ w.k \in 1 .. 218 /\ lowlevel_init[w.k] = Write_(w.a, w.v)
      /\ w.a \in Addresses
  BY WrittenAt, Zenon
<1>4. CASE at = w.k
  <2>1. lowlevel_init[at].do = "write" /\ lowlevel_init[at].val = w.v /\ lowlevel_init[at].reg = w.a
    BY <1>3, <1>4, SMTT(10) DEF Write_
  <2>2. v = w.v /\ a = w.a
    BY <2>1, Zenon DEF Puts
  <2> QED
    BY <1>1, <2>2, Zenon
<1>5. CASE at # w.k
  <2>1. at > w.k /\ at \in w.k + 1 .. 218
    <3> DEFINE k == w.k
    <3>1. at' > k /\ at # k /\ k \in 1 .. 218
      BY <1>3, <1>5
    <3> HIDE DEF k
    <3>2. at > k /\ at \in k + 1 .. 218
      BY <1>1, <3>1, SMTT(10)
    <3> QED
      BY <3>2 DEF k
  <2>2. mmio[w.a] = w.v
    BY <2>1, Zenon DEF Settled
  <2>3. CASE at = 217
    <3>1. v = mmio[a]
      BY <2>3, Zenon DEF Puts
    <3> QED
      BY <1>1, <1>3, <2>2, <3>1, Zenon
  <2>4. CASE at # 217
    <3>1. a # w.a
      BY <1>1, <1>2, <2>1, <2>4, WrittenOnce, Zenon
    <3> QED
      BY <1>1, <1>3, <2>2, <3>1, Zenon
  <2> QED
    BY <2>3, <2>4
<1> QED
  BY <1>4, <1>5

LEMMA DriverStays ==
    ASSUME DriverTypes, UNCHANGED <<i2cvars, tpsvars>>
    PROVE  DriverTypes'
  BY DEF DriverTypes, AdapterTypes, TpsTypeOK, ReadBuffer, Changes, tpsvars, i2cvars, cpu, ctrl, slave

LEMMA PutsInv ==
    ASSUME NEW a, NEW v, IInv, Puts(a, v)
    PROVE  IInv'
<1>1. DriverTypes /\ BoardTypes /\ Course /\ Bypass /\ Locked /\ Started /\ Settled
  BY DEF IInv
<1>2. DriverTypes'
  BY <1>1, DriverStays, Zenon DEF Puts, Goes
<1>3. BoardTypes' /\ Course' /\ Bypass'
  BY <1>1, PutsTypes, PutsCourse, PutsBypass, Zenon
<1>4. Locked' /\ Started' /\ Settled'
  BY <1>1, PutsLocked, PutsStarted, PutsSettled, Zenon
<1> QED
  BY <1>2, <1>3, <1>4, Zenon DEF IInv

-----------------------------------------------------------------------------
(* The steps of the processor that store. *)
LEMMA NowIs ==
    ASSUME BoardTypes, Running
    PROVE  at \in 1 .. 218 /\ Now = lowlevel_init[at] /\ Now \in Statements
<1>1. at \in 1 .. 218
  BY ProgramTyped, Zenon DEF Running
<1> QED
  BY <1>1, ProgramTyped, ZenonT(60) DEF Now

LEMMA Holds ==
    ASSUME BoardTypes, NEW a \in Addresses
    PROVE  mmio[a] \in Nat
  BY DEF BoardTypes

LEMMA NowStores ==
    ASSUME BoardTypes, Running, IsStore(Now)
    PROVE  at \in 1 .. 218 /\ Now = lowlevel_init[at] /\ Now \in Statements
           /\ Now.reg \in Addresses /\ mmio[Now.reg] \in Nat
<1>1. at \in 1 .. 218 /\ Now = lowlevel_init[at] /\ Now \in Statements
  BY NowIs, Zenon
<1>2. Now.reg \in Addresses
  BY <1>1, Used, Zenon
<1> QED
  BY <1>1, <1>2, Holds, Zenon

(* The registers that the last statements read hold what they need.        *)
LEMMA SettledThen ==
    ASSUME Settled, at \in 216 .. 219
    PROVE  /\ mmio[GPMC_CONFIG] = 18 /\ mmio[GPMC_BASE + 120] = 72
           /\ mmio[gpmc_cs(0)] = 2048
           /\ \A j \in 1 .. 6 : mmio[GPMC_BASE + 96 + 4 * (j - 1)] = Config[j]
           /\ mmio[I2C0_BASE + 176] = 1 /\ mmio[I2C0_BASE + 180] = 113 /\ mmio[I2C0_BASE + 184] = 115
<1>1. \A w \in Written : mmio[w.a] = w.v
  <2> SUFFICES ASSUME NEW w \in Written PROVE mmio[w.a] = w.v
    OBVIOUS
  <2>1. at > w.k
    BY SMTT(10) DEF Written, Cell
  <2> QED
    BY <2>1, Zenon DEF Settled
<1> DEFINE b == Cell(184, GPMC_BASE + 80, 18)
           c == Cell(192, GPMC_BASE + 120, 72)
           d == Cell(194, I2C0_BASE + 176, 1)
           e == Cell(195, I2C0_BASE + 180, 113)
           f == Cell(196, I2C0_BASE + 184, 115)
           g(j) == Cell(185 + j, GPMC_BASE + 96 + 4 * (j - 1), Config[j])
<1>2. Written = {b, c, d, e, f} \cup {g(j) : j \in 1 .. 6}
  BY Zenon DEF Written
<1>3. /\ b.a = GPMC_BASE + 80 /\ b.v = 18 /\ c.a = GPMC_BASE + 120 /\ c.v = 72
      /\ d.a = I2C0_BASE + 176 /\ d.v = 1 /\ e.a = I2C0_BASE + 180 /\ e.v = 113
      /\ f.a = I2C0_BASE + 184 /\ f.v = 115
      /\ \A j \in 1 .. 6 : g(j).a = GPMC_BASE + 96 + 4 * (j - 1) /\ g(j).v = Config[j]
  BY SMTT(10) DEF Cell
<1> HIDE DEF b, c, d, e, f, g
<1>5. /\ mmio[b.a] = b.v /\ mmio[c.a] = c.v /\ mmio[d.a] = d.v /\ mmio[e.a] = e.v
      /\ mmio[f.a] = f.v
  BY <1>1, <1>2
<1>6. \A j \in 1 .. 6 : mmio[g(j).a] = g(j).v
  BY <1>1, <1>2
<1>4. /\ mmio[GPMC_BASE + 80] = 18 /\ mmio[GPMC_BASE + 120] = 72
      /\ mmio[I2C0_BASE + 176] = 1 /\ mmio[I2C0_BASE + 180] = 113 /\ mmio[I2C0_BASE + 184] = 115
      /\ \A j \in 1 .. 6 : mmio[GPMC_BASE + 96 + 4 * (j - 1)] = Config[j]
  <2>1. /\ mmio[GPMC_BASE + 80] = 18 /\ mmio[GPMC_BASE + 120] = 72
        /\ mmio[I2C0_BASE + 176] = 1 /\ mmio[I2C0_BASE + 180] = 113 /\ mmio[I2C0_BASE + 184] = 115
    BY <1>3, <1>5
  <2>2. \A j \in 1 .. 6 : mmio[GPMC_BASE + 96 + 4 * (j - 1)] = Config[j]
    BY <1>3, <1>6
  <2> QED
    BY <2>1, <2>2
<1>7. GPMC_CONFIG = GPMC_BASE + 80
  BY SMTT(10) DEF GPMC_CONFIG
<1>8. gpmc_cs(0) = GPMC_BASE + 96 + 4 * (1 - 1) /\ 1 \in 1 .. 6
  BY SMTT(10) DEF gpmc_cs, GPMC_BASE
<1>9. mmio[gpmc_cs(0)] = Config[1]
  <2>1. \A j \in 1 .. 6 : mmio[GPMC_BASE + 96 + 4 * (j - 1)] = Config[j]
    BY <1>4
  <2>2. mmio[GPMC_BASE + 96 + 4 * (1 - 1)] = Config[1]
    BY <1>8, <2>1, Zenon
  <2> QED
    BY <1>8, <2>2, Zenon
<1>10. mmio[gpmc_cs(0)] = 2048
  BY <1>9, ConfigWords
<1>11. mmio[GPMC_CONFIG] = 18
  BY <1>4, <1>7
<1> QED
  BY <1>4, <1>10, <1>11

LEMMA StoresPut ==
    ASSUME IInv, WriteRegister \/ EditField \/ EditBit \/ WriteMultiplier
    PROVE  \E a, v : Puts(a, v)
<1>1. BoardTypes /\ Course /\ Settled
  BY DEF IInv
<1>2. Running /\ Goes /\ UNCHANGED <<tmp, mpu_m>>
  BY DEF WriteRegister, EditField, EditBit, WriteMultiplier
<1>3. IsStore(Now)
  BY DEF WriteRegister, EditField, EditBit, WriteMultiplier, IsStore
<1>4. /\ at \in 1 .. 218 /\ Now = lowlevel_init[at] /\ Now \in Statements
      /\ Now.reg \in Addresses /\ mmio[Now.reg] \in Nat
  BY <1>1, <1>2, <1>3, NowStores, Zenon
<1>5. /\ Now.do = "write" => Now.val \in Nat
      /\ Now.do = "field" => Now.val \in Nat /\ Now.size \in {4, 8}
      /\ Now.do \in {"set", "clear"} => Now.bit \in {1, 16, 64}
      /\ Now.do = "clksel" => Now.m \in Int /\ Now.n \in Nat
  BY <1>4, StoreTypes, Zenon
<1>6. at = 217 => Now.do = "set" /\ Now.bit = 16 /\ Now.reg = GPMC_CONFIG
  BY <1>4, LastAre
<1> DEFINE a == Now.reg
<1>8. CASE WriteRegister
  <2>1. Now.do = "write" /\ Takes(a, Now.val)
    BY <1>8 DEF WriteRegister
  <2>2. at # 217
    BY <1>6, <2>1
  <2>3. Puts(a, Now.val)
    BY <1>2, <1>3, <1>4, <1>5, <2>1, <2>2 DEF Puts
  <2> QED
    BY <2>3, Zenon
<1>9. CASE EditField
  <2> DEFINE v == mmio[a] - (mmio[a] % Now.size) + Now.val
  <2>1. Now.do = "field" /\ Takes(a, v)
    BY <1>9 DEF EditField
  <2>2. at # 217
    BY <1>6, <2>1
  <2>3. v \in Nat /\ v % Now.size = Now.val % Now.size
    BY <1>4, <1>5, <2>1, FieldRight, Zenon
  <2> HIDE DEF v
  <2>4. Puts(a, v)
    BY <1>2, <1>3, <1>4, <2>1, <2>2, <2>3 DEF Puts
  <2> QED
    BY <2>4, Zenon
<1>10. CASE EditBit
  <2> DEFINE w == mmio[a]
             b == Now.bit
  <2>1. \/ Now.do = "set" /\ Takes(a, IF IsSet(a, b) THEN w ELSE w + b)
        \/ Now.do = "clear" /\ Takes(a, IF IsSet(a, b) THEN w - b ELSE w)
    BY <1>10 DEF EditBit
  <2>2. w \in Nat /\ b \in {1, 16, 64}
    BY <1>4, <1>5, <2>1
  <2>3. at = 217 => Now.do = "set" /\ IsSet(a, b)
    <3> SUFFICES ASSUME at = 217 PROVE Now.do = "set" /\ IsSet(a, b)
      OBVIOUS
    <3>1. Now.do = "set" /\ b = 16 /\ a = GPMC_CONFIG
      BY <1>6
    <3>2. mmio[GPMC_CONFIG] = 18
      <4>1. at \in 216 .. 219
        OBVIOUS
      <4> QED
        BY <1>1, <4>1, SettledThen
    <3> QED
      BY <3>1, <3>2, SMTT(10) DEF IsSet
  <2>4. IsSet(a, b) => w - b \in Nat
    BY <2>2, BitRight, Zenon DEF IsSet
  <2>5. CASE Now.do = "set"
    <3> DEFINE v == IF IsSet(a, b) THEN w ELSE w + b
    <3>1. Takes(a, v)
      BY <2>1, <2>5
    <3>2. v \in Nat /\ (at = 217 => v = w)
      <4> HIDE DEF w, b
      <4> QED
        BY <2>2, <2>3
    <3> HIDE DEF v
    <3>3. Puts(a, v)
      BY <1>2, <1>3, <1>4, <2>5, <3>1, <3>2 DEF Puts
    <3> QED
      BY <3>3, Zenon
  <2>6. CASE Now.do = "clear"
    <3> DEFINE v == IF IsSet(a, b) THEN w - b ELSE w
    <3>1. Takes(a, v)
      BY <2>1, <2>6
    <3>2. v \in Nat /\ at # 217
      <4>1. v \in Nat
        <5> HIDE DEF w, b
        <5> QED
          BY <2>2, <2>4
      <4>2. at # 217
        BY <2>3, <2>6
      <4> QED
        BY <4>1, <4>2
    <3> HIDE DEF v
    <3>3. Puts(a, v)
      BY <1>2, <1>3, <1>4, <2>6, <3>1, <3>2 DEF Puts
    <3> QED
      BY <3>3, Zenon
  <2> QED
    BY <2>1, <2>5, <2>6, Zenon
<1>11. CASE WriteMultiplier
  <2> DEFINE m == IF Now.m = Fused THEN mpu_m ELSE Now.m
             v == Clksel(tmp, m, Now.n)
  <2>1. Now.do = "clksel" /\ Takes(a, v)
    BY <1>11 DEF WriteMultiplier
  <2>2. at # 217
    BY <1>6, <2>1
  <2>3. v \in Nat
    <3>1. tmp \in Nat /\ m \in Int /\ Now.n \in Nat
      <4>1. mpu_m \in Int
        <5> DEFINE f == get_efuse_mpu_max_freq(board)
        <5>1. f \in Int
          <6>1. f \in Multipliers
            BY Frequency, Zenon
          <6> HIDE DEF f
          <6> QED
            BY <6>1 DEF Multipliers
        <5>2. mpu_m = IF at <= 198 THEN 550 ELSE f
          BY <1>1 DEF Course
        <5> HIDE DEF f
        <5> QED
          BY <5>1, <5>2
      <4> QED
        BY <1>1, <1>5, <2>1, <4>1 DEF BoardTypes
    <3> DEFINE n == Now.n
    <3> HIDE DEF m, n
    <3>2. Clksel(tmp, m, n) \in Nat
      <4>1. tmp \in Nat /\ m \in Int /\ n \in Nat
        BY <3>1 DEF n
      <4>2. tmp - ((tmp \div 256) % 2048) * 256 - (tmp % 128) \in Nat
        BY <4>1, SMTT(10)
      <4>3. m % 2048 \in Nat /\ n % 128 \in Nat
        BY <4>1, SMTT(10)
      <4> QED
        BY <4>2, <4>3, SMTT(10) DEF Clksel
    <3> QED
      BY <3>2 DEF n
  <2>4. v = Clksel(tmp, IF Now.m = Fused THEN mpu_m ELSE Now.m, Now.n)
    OBVIOUS
  <2> HIDE DEF v, m
  <2>5. Puts(a, v)
    BY <1>2, <1>3, <1>4, <2>1, <2>2, <2>3, <2>4 DEF Puts
  <2> QED
    BY <2>5, Zenon
<1> QED
  BY <1>8, <1>9, <1>10, <1>11

LEMMA StoresKeep ==
    ASSUME IInv, WriteRegister \/ EditField \/ EditBit \/ WriteMultiplier
    PROVE  IInv'
  BY StoresPut, PutsInv, Zenon

-----------------------------------------------------------------------------
(* The steps of the processor that leave the registers as they are. *)
Quiet ==
    LET st == lowlevel_init[at] IN
    /\ at \in 1 .. 218 /\ ~IsStore(st) /\ at' = at + 1 /\ tmp' \in Nat
    /\ UNCHANGED <<board, mmio, locked, rate, ready, vtp>> /\ posting' \in BOOLEAN
    /\ st.do = "spin" =>
          /\ st.what = "locked" => st.on \in locked
          /\ st.what = "bypassed" => st.on \notin locked
          /\ st.what = "module" => st.on \in ready
          /\ st.what = "vtp" => vtp = "ready"

LEMMA QuietIs ==
    ASSUME Quiet
    PROVE  /\ at \in 1 .. 218 /\ ~IsStore(lowlevel_init[at]) /\ at' = at + 1 /\ board' = board
           /\ mmio' = mmio /\ locked' = locked /\ rate' = rate /\ ready' = ready /\ vtp' = vtp
  BY DEF Quiet

LEMMA QuietTypes ==
    ASSUME BoardTypes, Quiet
    PROVE  BoardTypes'
<1>1. at' \in 1 .. 219
  BY QuietIs
<1> QED
  BY <1>1 DEF BoardTypes, Quiet

LEMMA QuietBypass ==
    ASSUME Bypass, Quiet
    PROVE  Bypass'
<1> SUFFICES ASSUME NEW x \in Setups
             PROVE  /\ at' \in x.o + 3 .. x.o + x.n - 1 => ClkmodeOf(x.d)' = 4
                    /\ at' \in x.o + 4 .. x.o + x.n - 1 => x.d \notin locked'
  BY Zenon DEF Bypass
<1>1. x.d \in Dplls /\ x.o \in Nat /\ x.n \in {7, 9}
  BY SetupTypes
<1>2. /\ at \in 1 .. 218 /\ ~IsStore(lowlevel_init[at]) /\ at' = at + 1
      /\ mmio' = mmio /\ locked' = locked
  BY QuietIs, Zenon
<1>3. at # x.o + 2
  <2>1. lowlevel_init[x.o + 2] = Field_(dpll_regs[x.d].clkmode, 8, 4)
    BY SetupAt, Zenon
  <2>2. lowlevel_init[x.o + 2].do = "field"
    BY <2>1, SMTT(10) DEF Field_
  <2> QED
    BY <1>2, <2>2 DEF IsStore
<1>4. ASSUME at' \in x.o + 3 .. x.o + x.n - 1 PROVE ClkmodeOf(x.d)' = 4
  <2>1. at \in x.o + 3 .. x.o + x.n - 1
    BY <1>1, <1>2, <1>3, <1>4
  <2>2. ClkmodeOf(x.d) = 4
    BY <2>1, Zenon DEF Bypass
  <2> QED
    BY <1>2, <2>2 DEF ClkmodeOf
<1>5. ASSUME at' \in x.o + 4 .. x.o + x.n - 1 PROVE x.d \notin locked'
  <2>1. CASE at = x.o + 3
    <3>1. lowlevel_init[at] = Spin_("bypassed", x.d)
      BY <2>1, SetupAt, Zenon
    <3>2. /\ lowlevel_init[at].do = "spin" /\ lowlevel_init[at].what = "bypassed"
          /\ lowlevel_init[at].on = x.d
      BY <3>1, SMTT(10) DEF Spin_
    <3> QED
      BY <1>2, <3>2, Zenon DEF Quiet
  <2>2. CASE at # x.o + 3
    <3>1. at \in x.o + 4 .. x.o + x.n - 1
      BY <1>1, <1>2, <1>5, <2>2
    <3> QED
      BY <1>2, <3>1, Zenon DEF Bypass
  <2> QED
    BY <2>1, <2>2
<1> QED
  BY <1>4, <1>5

LEMMA QuietLocked ==
    ASSUME Locked, Quiet
    PROVE  Locked'
<1> SUFFICES ASSUME NEW x \in Final
             PROVE  /\ at' > x.o + 4 => /\ MultiplierOf(ClkselOf(x.d))' = Multiplier(x.d)'
                                        /\ DividerOf(ClkselOf(x.d))' = 23
                    /\ at' > x.o + x.n - 1 => /\ ClkmodeOf(x.d)' = 7
                                              /\ x.d \in locked' => rate'[x.d] = <<Multiplier(x.d)', 23>>
                    /\ at' > x.o + x.n => x.d \in locked'
  BY DEF Locked
<1>1. x \in Setups /\ x.d \in Dplls /\ x.o \in Nat /\ x.n \in {7, 9}
  BY SetupTypes, FinalLast
<1>2. /\ at \in 1 .. 218 /\ ~IsStore(lowlevel_init[at]) /\ at' = at + 1 /\ board' = board
      /\ mmio' = mmio /\ locked' = locked /\ rate' = rate
  BY QuietIs, Zenon
<1>3. at # x.o + 4
  <2>1. lowlevel_init[x.o + 4] = Clksel_(x.d, x.m, 23)
    BY <1>1, SetupAt, Zenon
  <2>2. lowlevel_init[x.o + 4].do = "clksel"
    BY <2>1, SMTT(10) DEF Clksel_
  <2> QED
    BY <1>2, <2>2 DEF IsStore
<1>4. at # x.o + x.n - 1
  <2>1. lowlevel_init[x.o + x.n - 1] = Field_(dpll_regs[x.d].clkmode, 8, 7)
    BY <1>1, SetupAt, Zenon
  <2>2. lowlevel_init[x.o + x.n - 1].do = "field"
    BY <2>1, SMTT(10) DEF Field_
  <2> QED
    BY <1>2, <2>2 DEF IsStore
<1>5. Multiplier(x.d)' = Multiplier(x.d)
  BY <1>2, MultiplierKept, Zenon
<1>6. ASSUME at' > x.o + 4
      PROVE  MultiplierOf(ClkselOf(x.d)) = Multiplier(x.d) /\ DividerOf(ClkselOf(x.d)) = 23
  <2>1. at > x.o + 4
    BY <1>1, <1>2, <1>3, <1>6
  <2> QED
    BY <2>1, Zenon DEF Locked
<1>7. ASSUME at' > x.o + x.n - 1
      PROVE  ClkmodeOf(x.d) = 7 /\ (x.d \in locked => rate[x.d] = <<Multiplier(x.d), 23>>)
  <2>1. at > x.o + x.n - 1
    BY <1>1, <1>2, <1>4, <1>7
  <2> QED
    BY <2>1, Zenon DEF Locked
<1>8. ASSUME at' > x.o + x.n PROVE x.d \in locked'
  <2>1. CASE at = x.o + x.n
    <3>1. lowlevel_init[at] = Spin_("locked", x.d)
      BY <1>1, <2>1, SetupAt, Zenon
    <3>2. /\ lowlevel_init[at].do = "spin" /\ lowlevel_init[at].what = "locked"
          /\ lowlevel_init[at].on = x.d
      BY <3>1, SMTT(10) DEF Spin_
    <3> QED
      BY <1>2, <3>2, Zenon DEF Quiet
  <2>2. CASE at # x.o + x.n
    <3>1. at > x.o + x.n
      BY <1>1, <1>2, <1>8, <2>2
    <3> QED
      BY <1>2, <3>1, Zenon DEF Locked
  <2> QED
    BY <2>1, <2>2
<1> QED
  BY <1>2, <1>5, <1>6, <1>7, <1>8 DEF ClkmodeOf, ClkselOf, CM_CLKMODE_DPLL_EN, MultiplierOf, DividerOf

LEMMA QuietStarted ==
    ASSUME Started, Quiet
    PROVE  Started'
<1>1. /\ at \in 1 .. 218 /\ ~IsStore(lowlevel_init[at]) /\ at' = at + 1
      /\ mmio' = mmio /\ ready' = ready /\ vtp' = vtp
  BY QuietIs, Zenon
<1>2. ASSUME NEW j \in 1 .. 24, at' > 13 + 2 * j
      PROVE  mods[j] \in ready' \/ (mods[j] = CM_RTC /\ at' > 120)
  <2>1. CASE at = 13 + 2 * j
    <3>1. lowlevel_init[at] = Spin_("module", mods[j])
      BY <2>1, ModulesAre, Zenon
    <3>2. /\ lowlevel_init[at].do = "spin" /\ lowlevel_init[at].what = "module"
          /\ lowlevel_init[at].on = mods[j]
      BY <3>1, SMTT(10) DEF Spin_
    <3> QED
      BY <1>1, <3>2, Zenon DEF Quiet
  <2>2. CASE at # 13 + 2 * j
    <3>1. at > 13 + 2 * j
      BY <1>1, <1>2, <2>2
    <3>2. mods[j] \in ready \/ (mods[j] = CM_RTC /\ at > 120)
      BY <3>1, Zenon DEF Started
    <3> QED
      BY <1>1, <3>2
  <2> QED
    BY <2>1, <2>2
<1>3. ASSUME at' > 120 PROVE CM_RTC \notin ready' /\ mmio'[CM_RTC] % 4 = 0
  <2>1. at # 120
    <3>1. lowlevel_init[120] = Write_(CM_RTC, 48)
      BY PinsAre, Zenon
    <3>2. lowlevel_init[120].do = "write"
      BY <3>1, SMTT(10) DEF Write_
    <3> QED
      BY <1>1, <3>2 DEF IsStore
  <2>2. at > 120
    BY <1>1, <1>3, <2>1
  <2> QED
    BY <1>1, <2>2, Zenon DEF Started
<1>4. ASSUME at' > 138 PROVE vtp' = "ready"
  <2>1. CASE at = 138
    <3>1. lowlevel_init[at].do = "spin" /\ lowlevel_init[at].what = "vtp"
      BY <2>1, DdrAre, SMTT(10) DEF Spin_
    <3> QED
      BY <1>1, <3>1, Zenon DEF Quiet
  <2>2. CASE at # 138
    <3>1. at > 138
      BY <1>1, <1>4, <2>2
    <3> QED
      BY <1>1, <3>1, Zenon DEF Started
  <2> QED
    BY <2>1, <2>2
<1> QED
  BY <1>2, <1>3, <1>4 DEF Started

LEMMA QuietSettled ==
    ASSUME Settled, Quiet
    PROVE  Settled'
<1> SUFFICES ASSUME NEW w \in Written, at' > w.k PROVE mmio'[w.a] = w.v
  BY Zenon DEF Settled
<1>1. /\ at \in 1 .. 218 /\ ~IsStore(lowlevel_init[at]) /\ at' = at + 1 /\ mmio' = mmio
  BY QuietIs, Zenon
<1>2. IsStore(lowlevel_init[w.k]) /\ w.k \in 1 .. 218
  BY WrittenAt, Zenon
<1>3. at # w.k
  BY <1>1, <1>2, Zenon
<1> DEFINE k == w.k
<1>4. at' > k /\ at # k /\ k \in 1 .. 218
  BY <1>2, <1>3
<1> HIDE DEF k
<1>5. at > k
  BY <1>1, <1>4, SMTT(10)
<1>6. at > w.k
  BY <1>5 DEF k
<1> QED
  BY <1>1, <1>6, Zenon DEF Settled

LEMMA QuietInv ==
    ASSUME IInv, Quiet, DriverTypes', Course'
    PROVE  IInv'
<1>1. BoardTypes /\ Bypass /\ Locked /\ Started /\ Settled
  BY DEF IInv
<1>2. BoardTypes' /\ Bypass' /\ Locked' /\ Started' /\ Settled'
  BY <1>1, QuietTypes, QuietBypass, QuietLocked, QuietStarted, QuietSettled, Zenon
<1> QED
  BY <1>2, Zenon DEF IInv

LEMMA InvParts ==
    ASSUME IInv
    PROVE  /\ DriverTypes /\ BoardTypes /\ Course /\ Bypass /\ Locked /\ Started /\ Settled
  BY DEF IInv

(* Where the processor is when it does what only one statement does. *)
LEMMA OnlyAt ==
    ASSUME NEW k \in 1 .. 218
    PROVE  LET do == lowlevel_init[k].do IN
           /\ do = "efuse" => k = 198
           /\ do = "voltages" => k = 199
           /\ do = "select" => k = 216
           /\ do = "width" => k = 218
<1> DEFINE do == lowlevel_init[k].do
<1>1. k \in {198, 199, 216, 218} \/ do \notin {"efuse", "voltages", "select", "width"}
  BY KindsAre DEF IsStore
<1>2. CASE k \in {198, 199, 216, 218}
  BY <1>2, LastAre
<1> QED
  BY <1>1, <1>2

(* A step that leaves the driver and the bus alone. *)
LEMMA CourseGoes ==
    ASSUME BoardTypes, Course, at \in 1 .. 218, at # 198, at # 216, at' = at + 1,
           UNCHANGED <<board, port, mpu_m, step, pc>>
    PROVE  Course'
<1> DEFINE f == get_efuse_mpu_max_freq(board)
<1>1. f' = f
  BY FrequencyKept
<1>2. /\ mpu_m = IF at <= 198 THEN 550 ELSE f
      /\ port = IF at <= 216 THEN -1 ELSE 0
      /\ step # 0 => at >= 199
      /\ pc # "idle" => step # 0
  BY DEF Course
<1>3. /\ mpu_m' = IF at' <= 198 THEN 550 ELSE f'
      /\ port' = IF at' <= 216 THEN -1 ELSE 0
      /\ step' # 0 => at' >= 199
      /\ pc' # "idle" => step' # 0
  <2> HIDE DEF f
  <2> QED
    BY <1>1, <1>2
<1> QED
  BY <1>3 DEF Course

LEMMA Untouched ==
    ASSUME UNCHANGED <<i2cvars, tpsvars>>
    PROVE  step' = step /\ pc' = pc
  BY DEF tpsvars, i2cvars, cpu

LEMMA ReadKeeps ==
    ASSUME IInv, ReadMultiplier
    PROVE  IInv'
<1>1. DriverTypes /\ BoardTypes /\ Course
  BY InvParts
<1>2. Running /\ Now.do = "read" /\ tmp' = mmio[Now.reg] /\ Goes /\ UNCHANGED <<mpu_m, hardware>>
  BY DEF ReadMultiplier
<1>3. at \in 1 .. 218 /\ Now = lowlevel_init[at]
  BY <1>1, <1>2, NowIs, Zenon
<1>4. Now.reg \in Addresses
  BY <1>2, <1>3, Used, Zenon
<1>5. tmp' \in Nat
  BY <1>1, <1>2, <1>4, Holds, Zenon
<1>6. ~IsStore(Now) /\ Now.do # "spin"
  BY <1>2 DEF IsStore
<1>7. at # 198 /\ at # 216
  BY <1>2, <1>3, LastAre
<1>8. /\ at' = at + 1 /\ UNCHANGED <<board, port, mpu_m, step, pc>>
      /\ UNCHANGED <<mmio, locked, rate, ready, vtp, posting>>
      /\ UNCHANGED <<i2cvars, tpsvars>>
  BY <1>2, Untouched, Zenon DEF Goes, hardware
<1>9. Course'
  BY <1>1, <1>3, <1>7, <1>8, CourseGoes, Zenon
<1>10. DriverTypes'
  BY <1>1, <1>8, DriverStays, Zenon
<1>11. posting' \in BOOLEAN
  BY <1>1, <1>8 DEF BoardTypes
<1>12. Quiet
  BY <1>3, <1>5, <1>6, <1>8, <1>11, Zenon DEF Quiet
<1> QED
  BY <1>9, <1>10, <1>12, QuietInv, Zenon

LEMMA SpinKeeps ==
    ASSUME IInv, SpinEnds
    PROVE  IInv'
<1>1. DriverTypes /\ BoardTypes /\ Course
  BY InvParts
<1>2. Running /\ Now.do = "spin" /\ Goes /\ UNCHANGED <<tmp, mpu_m, hardware>>
  BY DEF SpinEnds
<1>3. at \in 1 .. 218 /\ Now = lowlevel_init[at]
  BY <1>1, <1>2, NowIs, Zenon
<1>4. /\ Now.what = "locked" => Now.on \in locked
      /\ Now.what = "bypassed" => Now.on \notin locked
      /\ Now.what = "module" => Now.on \in ready
      /\ Now.what = "vtp" => vtp = "ready"
  BY DEF SpinEnds
<1>5. ~IsStore(Now)
  BY <1>2 DEF IsStore
<1>6. at # 198 /\ at # 216
  BY <1>2, <1>3, LastAre
<1>7. /\ at' = at + 1 /\ UNCHANGED <<board, port, mpu_m, step, pc>>
      /\ UNCHANGED <<mmio, locked, rate, ready, vtp, posting>>
      /\ UNCHANGED <<i2cvars, tpsvars>> /\ tmp' = tmp
  BY <1>2, Untouched, Zenon DEF Goes, hardware
<1>8. Course'
  BY <1>1, <1>3, <1>6, <1>7, CourseGoes, Zenon
<1>9. DriverTypes'
  BY <1>1, <1>7, DriverStays, Zenon
<1>10. posting' \in BOOLEAN /\ tmp' \in Nat
  BY <1>1, <1>7 DEF BoardTypes
<1>11. Quiet
  BY <1>3, <1>4, <1>5, <1>7, <1>10, Zenon DEF Quiet
<1> QED
  BY <1>8, <1>9, <1>11, QuietInv, Zenon

LEMMA FrequencyKeeps ==
    ASSUME IInv, GetFrequency
    PROVE  IInv'
<1>1. DriverTypes /\ BoardTypes /\ Course
  BY InvParts
<1>2. /\ Running /\ Now.do = "efuse" /\ mpu_m' = get_efuse_mpu_max_freq(board)
      /\ Goes /\ UNCHANGED <<tmp, hardware>>
  BY DEF GetFrequency
<1>3. at \in 1 .. 218 /\ Now = lowlevel_init[at]
  BY <1>1, <1>2, NowIs, Zenon
<1>4. at = 198
  BY <1>2, <1>3, OnlyAt, Zenon
<1>5. ~IsStore(Now) /\ Now.do # "spin"
  BY <1>2 DEF IsStore
<1>6. /\ at' = at + 1 /\ UNCHANGED <<board, port, step, pc>>
      /\ UNCHANGED <<mmio, locked, rate, ready, vtp, posting>>
      /\ UNCHANGED <<i2cvars, tpsvars>> /\ tmp' = tmp
  BY <1>2, Untouched, Zenon DEF Goes, hardware
<1>7. Course'
  <2> DEFINE f == get_efuse_mpu_max_freq(board)
  <2>1. f' = f
    BY <1>6, FrequencyKept
  <2>2. /\ port = IF at <= 216 THEN -1 ELSE 0
        /\ step # 0 => at >= 199
        /\ pc # "idle" => step # 0
    BY <1>1 DEF Course
  <2>3. mpu_m' = f
    BY <1>2
  <2>4. /\ mpu_m' = IF at' <= 198 THEN 550 ELSE f'
        /\ port' = IF at' <= 216 THEN -1 ELSE 0
        /\ step' # 0 => at' >= 199
        /\ pc' # "idle" => step' # 0
    <3> HIDE DEF f
    <3> QED
      BY <1>4, <1>6, <2>1, <2>2, <2>3
  <2> QED
    BY <2>4 DEF Course
<1>8. DriverTypes'
  BY <1>1, <1>6, DriverStays, Zenon
<1>9. posting' \in BOOLEAN /\ tmp' \in Nat
  BY <1>1, <1>6 DEF BoardTypes
<1>10. Quiet
  BY <1>3, <1>5, <1>6, <1>9, Zenon DEF Quiet
<1> QED
  BY <1>7, <1>8, <1>10, QuietInv, Zenon

LEMMA VoltagesKeep ==
    ASSUME IInv, VoltagesDone
    PROVE  IInv'
<1>1. DriverTypes /\ BoardTypes /\ Course
  BY InvParts
<1>2. Running /\ Now.do = "voltages" /\ Goes /\ UNCHANGED <<tmp, mpu_m, hardware>>
  BY DEF VoltagesDone
<1>3. at \in 1 .. 218 /\ Now = lowlevel_init[at]
  BY <1>1, <1>2, NowIs, Zenon
<1>4. at = 199
  BY <1>2, <1>3, OnlyAt, Zenon
<1>5. ~IsStore(Now) /\ Now.do # "spin"
  BY <1>2 DEF IsStore
<1>6. /\ at' = at + 1 /\ UNCHANGED <<board, port, mpu_m, step, pc>>
      /\ UNCHANGED <<mmio, locked, rate, ready, vtp, posting>>
      /\ UNCHANGED <<i2cvars, tpsvars>> /\ tmp' = tmp
  BY <1>2, Untouched, Zenon DEF Goes, hardware
<1>7. Course'
  <2>1. at # 198 /\ at # 216
    BY <1>4
  <2> QED
    BY <1>1, <1>3, <1>6, <2>1, CourseGoes, Zenon
<1>8. DriverTypes'
  BY <1>1, <1>6, DriverStays, Zenon
<1>9. posting' \in BOOLEAN /\ tmp' \in Nat
  BY <1>1, <1>6 DEF BoardTypes
<1>10. Quiet
  BY <1>3, <1>5, <1>6, <1>9, Zenon DEF Quiet
<1> QED
  BY <1>7, <1>8, <1>10, QuietInv, Zenon

(* The chip select found is the first: gpmc_init opened it. *)
LEMMA SelectKeeps ==
    ASSUME IInv, SelectChip
    PROVE  IInv'
<1>1. DriverTypes /\ BoardTypes /\ Course /\ Settled
  BY InvParts
<1>2. /\ Running /\ Now.do = "select"
      /\ port' = IF Nands = {} THEN -1 ELSE CHOOSE cs \in Nands : \A other \in Nands : cs <= other
      /\ at' = IF Nands = {} THEN Len(lowlevel_init) + 1 ELSE at + 1
      /\ UNCHANGED <<board, tmp, mpu_m, hardware, i2cvars, tpsvars>>
  BY DEF SelectChip
<1>3. at \in 1 .. 218 /\ Now = lowlevel_init[at]
  BY <1>1, <1>2, NowIs, Zenon
<1>4. at = 216
  BY <1>2, <1>3, OnlyAt, Zenon
<1>5. ~IsStore(Now) /\ Now.do # "spin"
  BY <1>2 DEF IsStore
<1>6. mmio[gpmc_cs(0)] = 2048
  BY <1>1, <1>4, SettledThen
<1>7. 0 \in Nands /\ \A other \in Nands : 0 <= other /\ other \in Nat
  <2>1. (2048 \div 2 ^ 10) % 4 = 2
    BY SMTT(10)
  <2>2. 0 \in 0 .. GPMC_MAX_CS - 1
    BY DEF GPMC_MAX_CS
  <2>3. 0 \in Nands
    BY <1>6, <2>1, <2>2 DEF Nands
  <2>4. \A other \in Nands : other \in 0 .. 7
    BY DEF Nands, GPMC_MAX_CS
  <2> QED
    BY <2>3, <2>4
<1>8. port' = 0 /\ at' = at + 1
  <2>1. Nands # {} /\ (CHOOSE cs \in Nands : \A other \in Nands : cs <= other) = 0
    <3> HIDE DEF Nands
    <3>1. \E cs \in Nands : \A other \in Nands : cs <= other
      BY <1>7
    <3> DEFINE c == CHOOSE cs \in Nands : \A other \in Nands : cs <= other
    <3>2. c \in Nands /\ \A other \in Nands : c <= other
      BY <3>1, Zenon
    <3> HIDE DEF c
    <3>3. c = 0
      BY <3>2, <1>7
    <3> QED
      BY <3>3, <1>7 DEF c
  <2> QED
    BY <1>2, <2>1
<1>9. /\ UNCHANGED <<board, mpu_m, step, pc>>
      /\ UNCHANGED <<mmio, locked, rate, ready, vtp, posting>>
      /\ UNCHANGED <<i2cvars, tpsvars>> /\ tmp' = tmp
  BY <1>2, Untouched, Zenon DEF hardware
<1>10. Course'
  <2> DEFINE f == get_efuse_mpu_max_freq(board)
  <2>1. f' = f
    BY <1>9, FrequencyKept
  <2>2. /\ mpu_m = IF at <= 198 THEN 550 ELSE f
        /\ step # 0 => at >= 199
        /\ pc # "idle" => step # 0
    BY <1>1 DEF Course
  <2>3. /\ mpu_m' = IF at' <= 198 THEN 550 ELSE f'
        /\ port' = IF at' <= 216 THEN -1 ELSE 0
        /\ step' # 0 => at' >= 199
        /\ pc' # "idle" => step' # 0
    <3> HIDE DEF f
    <3> QED
      BY <1>4, <1>8, <1>9, <2>1, <2>2
  <2> QED
    BY <2>3 DEF Course
<1>11. DriverTypes'
  BY <1>1, <1>9, DriverStays, Zenon
<1>12. posting' \in BOOLEAN /\ tmp' \in Nat
  BY <1>1, <1>9 DEF BoardTypes
<1>13. Quiet
  BY <1>3, <1>5, <1>8, <1>9, <1>12, Zenon DEF Quiet
<1> QED
  BY <1>10, <1>11, <1>13, QuietInv, Zenon

(* The width is already eight bits. *)
LEMMA WidthSame ==
    ASSUME IInv, EightBits
    PROVE  /\ mmio' = mmio /\ ready' = ready /\ vtp' = vtp /\ locked' = locked /\ rate' = rate
           /\ posting' \in BOOLEAN
<1>1. DriverTypes /\ BoardTypes /\ Course /\ Settled
  BY InvParts
<1> DEFINE a == gpmc_cs(port)
           v == IF IsSet(a, WIDE) THEN mmio[a] - WIDE ELSE mmio[a]
<1>2. Running /\ Now.do = "width" /\ Takes(a, v) /\ Goes /\ UNCHANGED <<tmp, mpu_m>>
  BY DEF EightBits
<1>3. at \in 1 .. 218 /\ Now = lowlevel_init[at]
  BY <1>1, <1>2, NowIs, Zenon
<1>4. at = 218
  BY <1>2, <1>3, OnlyAt, Zenon
<1>5. ~IsStore(Now) /\ Now.do # "spin"
  BY <1>2 DEF IsStore
<1>6. port = 0
  <2> DEFINE f == get_efuse_mpu_max_freq(board)
  <2>1. port = IF at <= 216 THEN -1 ELSE 0
    BY <1>1 DEF Course
  <2> QED
    BY <1>4, <2>1
<1>7. mmio[a] = 2048
  BY <1>1, <1>4, <1>6, SettledThen
<1>8. v = mmio[a]
  BY <1>7, SMTT(10) DEF IsSet, WIDE
<1>9. a \in Nat /\ InGpmc(a)
  BY <1>6, SMTT(10) DEF gpmc_cs, GPMC_BASE, InGpmc
<1>10. a \notin Modules /\ a # VTP0_CTRL_ADDR
  <2>1. ~InModules(a) /\ ~InVtp(a)
    BY <1>9, RegionsApart, Zenon
  <2>2. a # VTP0_CTRL_ADDR
    BY <2>1 DEF InVtp, VTP0_CTRL_ADDR
  <2> QED
    BY <2>1, <2>2, ModuleAddresses, Zenon
<1>11. /\ mmio' = mmio /\ ready' = ready /\ vtp' = vtp /\ locked' = locked /\ rate' = rate
       /\ posting' \in BOOLEAN
  <2>1. mmio' = [mmio EXCEPT ![a] = v] /\ mmio \in [Addresses -> Nat]
    BY <1>1, <1>2 DEF Takes, BoardTypes
  <2>2. mmio' = mmio
    <3> HIDE DEF v
    <3> QED
      BY <1>8, <2>1
  <2>3. ready' = ready
    BY <1>2, <1>10, Zenon DEF Takes
  <2>4. vtp' = vtp
    <3>1. vtp' = CASE a = VTP0_CTRL_ADDR /\ v % 2 = 0 -> "off"
                   [] a = VTP0_CTRL_ADDR /\ v % 2 = 1 /\ vtp = "off" -> "running"
                   [] OTHER -> vtp
      BY <1>2 DEF Takes
    <3> HIDE DEF a, v
    <3> QED
      BY <1>10, <3>1
  <2>5. locked' = locked /\ rate' = rate
    BY <1>2 DEF Takes
  <2>6. posting' \in BOOLEAN
    BY <1>2 DEF Takes
  <2> QED
    BY <2>2, <2>3, <2>4, <2>5, <2>6
<1> QED
  BY <1>11

LEMMA WidthKeeps ==
    ASSUME IInv, EightBits
    PROVE  IInv'
<1>1. DriverTypes /\ BoardTypes /\ Course
  BY InvParts
<1>2. Running /\ Now.do = "width" /\ Goes /\ UNCHANGED <<tmp, mpu_m>>
  BY DEF EightBits
<1>3. at \in 1 .. 218 /\ Now = lowlevel_init[at]
  BY <1>1, <1>2, NowIs, Zenon
<1>4. at = 218
  BY <1>2, <1>3, OnlyAt, Zenon
<1>5. ~IsStore(Now) /\ Now.do # "spin"
  BY <1>2 DEF IsStore
<1>11. /\ mmio' = mmio /\ ready' = ready /\ vtp' = vtp /\ locked' = locked /\ rate' = rate
       /\ posting' \in BOOLEAN
  BY WidthSame, Zenon
<1>12. /\ at' = at + 1 /\ UNCHANGED <<board, port, mpu_m, step, pc>>
       /\ UNCHANGED <<i2cvars, tpsvars>> /\ tmp' = tmp
  BY <1>2, Untouched, Zenon DEF Goes
<1>13. Course'
  <2>1. at # 198 /\ at # 216
    BY <1>4
  <2> QED
    BY <1>1, <1>3, <1>12, <2>1, CourseGoes, Zenon
<1>14. DriverTypes'
  BY <1>1, <1>12, DriverStays, Zenon
<1>15. tmp' \in Nat
  BY <1>1, <1>12 DEF BoardTypes
<1>16. Quiet
  BY <1>3, <1>5, <1>11, <1>12, <1>15, Zenon DEF Quiet
<1> QED
  BY <1>13, <1>14, <1>16, QuietInv, Zenon

-----------------------------------------------------------------------------
(* The steps the processor stays where it is in. *)
LEMMA BypassStays ==
    ASSUME Bypass, UNCHANGED <<at, mmio, locked>>
    PROVE  Bypass'
  BY DEF Bypass, ClkmodeOf

LEMMA StartedStays ==
    ASSUME Started, UNCHANGED <<at, mmio, ready, vtp>>
    PROVE  Started'
  BY DEF Started

LEMMA SettledStays ==
    ASSUME Settled, UNCHANGED <<at, mmio>>
    PROVE  Settled'
  BY DEF Settled

LEMMA CourseStays ==
    ASSUME Course, UNCHANGED <<at, board, mpu_m, port>>,
           step' # 0 => at >= 199, pc' # "idle" => step' # 0
    PROVE  Course'
<1>1. get_efuse_mpu_max_freq(board)' = get_efuse_mpu_max_freq(board)
  BY FrequencyKept
<1> DEFINE f == get_efuse_mpu_max_freq(board)
<1>2. f' = f /\ mpu_m = (IF at <= 198 THEN 550 ELSE f) /\ port = (IF at <= 216 THEN -1 ELSE 0)
  BY <1>1 DEF Course
<1>3. mpu_m' = (IF at' <= 198 THEN 550 ELSE f') /\ port' = (IF at' <= 216 THEN -1 ELSE 0)
  <2> HIDE DEF f
  <2> QED
    BY <1>2
<1> QED
  BY <1>3 DEF Course

LEMMA LockedStays ==
    ASSUME Locked, UNCHANGED <<at, board, mmio>>,
           \A x \in Final :
              /\ at > x.o + x.n - 1 => (x.d \in locked' => rate'[x.d] = <<Multiplier(x.d), 23>>)
              /\ at > x.o + x.n => x.d \in locked'
    PROVE  Locked'
<1> SUFFICES ASSUME NEW x \in Final
             PROVE  /\ at' > x.o + 4 => /\ MultiplierOf(ClkselOf(x.d))' = Multiplier(x.d)'
                                        /\ DividerOf(ClkselOf(x.d))' = 23
                    /\ at' > x.o + x.n - 1 => /\ ClkmodeOf(x.d)' = 7
                                              /\ x.d \in locked' => rate'[x.d] = <<Multiplier(x.d)', 23>>
                    /\ at' > x.o + x.n => x.d \in locked'
  BY DEF Locked
<1>1. Multiplier(x.d)' = Multiplier(x.d)
  BY MultiplierKept
<1>2. /\ at > x.o + 4 => /\ MultiplierOf(ClkselOf(x.d)) = Multiplier(x.d)
                         /\ DividerOf(ClkselOf(x.d)) = 23
      /\ at > x.o + x.n - 1 => ClkmodeOf(x.d) = 7
  BY Zenon DEF Locked
<1> QED
  BY <1>1, <1>2 DEF ClkmodeOf, ClkselOf, CM_CLKMODE_DPLL_EN, MultiplierOf, DividerOf

LEMMA StillInv ==
    ASSUME IInv, UNCHANGED <<software, hardware>>, DriverTypes',
           step' # 0 => at >= 199, pc' # "idle" => step' # 0
    PROVE  IInv'
<1>1. /\ UNCHANGED <<board, at, tmp, mpu_m, port>>
      /\ UNCHANGED <<mmio, locked, rate, ready, vtp, posting>>
  BY DEF software, hardware
<1>2. DriverTypes /\ BoardTypes /\ Course /\ Bypass /\ Locked /\ Started /\ Settled
  BY InvParts
<1>3. BoardTypes'
  BY <1>1, <1>2 DEF BoardTypes
<1>4. Bypass' /\ Started' /\ Settled'
  BY <1>1, <1>2, BypassStays, StartedStays, SettledStays, Zenon
<1>5. Course'
  BY <1>1, <1>2, CourseStays, Zenon
<1>6. \A x \in Final :
         /\ at > x.o + x.n - 1 => (x.d \in locked' => rate'[x.d] = <<Multiplier(x.d), 23>>)
         /\ at > x.o + x.n => x.d \in locked'
  BY <1>1, <1>2, Zenon DEF Locked
<1>7. Locked'
  BY <1>1, <1>2, <1>6, LockedStays, Zenon
<1> QED
  BY <1>3, <1>4, <1>5, <1>7, Zenon DEF IInv

LEMMA UpdateKeeps ==
    ASSUME IInv, UpdateVoltages
    PROVE  IInv'
<1>1. DriverTypes /\ BoardTypes /\ Course
  BY InvParts
<1>2. /\ Running /\ Now.do = "voltages" /\ UNCHANGED <<software, hardware>>
      /\ step' = 1 /\ mpu_vdd' = get_tps65910_mpu_vdd(board, mpu_m)
      /\ val' = val /\ UNCHANGED i2cvars
      /\ step = 0
  BY DEF UpdateVoltages, StartUpdate
<1>3. at \in 1 .. 218 /\ Now = lowlevel_init[at]
  BY <1>1, <1>2, NowIs, Zenon
<1>4. at = 199
  BY <1>2, <1>3, OnlyAt, Zenon
<1>5. pc = "idle" /\ pc' = pc
  BY <1>1, <1>2 DEF Course, i2cvars, cpu
<1>6. get_tps65910_mpu_vdd(board, mpu_m) \in DOMAIN OpSel
  <2>1. DOMAIN OpSel = {"1_1_3", "1_2_0", "1_2_6", "1_3_2_5"}
    BY TpsAssumption
  <2>2. get_tps65910_mpu_vdd(board, mpu_m) \in {"1_1_3", "1_2_0", "1_2_6", "1_3_2_5"}
    BY SMTT(10) DEF get_tps65910_mpu_vdd
  <2> QED
    BY <2>1, <2>2
<1>7. DriverTypes'
  <2>1. AdapterTypes' /\ regs' = regs
    BY <1>1, <1>2 DEF DriverTypes, AdapterTypes, i2cvars, cpu, ctrl, slave
  <2>2. Len(Changes)' = 5
    BY DEF Changes
  <2>3. step' \in 0 .. Len(Changes)' + 1
    BY <1>2, <2>2
  <2>4. TpsTypeOK'
    BY <1>1, <1>2, <1>6, <2>1, <2>3 DEF DriverTypes, TpsTypeOK
  <2>5. ReadBuffer'
    BY <1>5 DEF ReadBuffer
  <2> QED
    BY <2>1, <2>4, <2>5 DEF DriverTypes
<1>8. step' # 0 /\ at >= 199
  BY <1>2, <1>4
<1> QED
  BY <1>2, <1>7, <1>8, StillInv, Zenon

LEMMA DriverKeeps ==
    ASSUME IInv, Driver, UNCHANGED <<software, hardware>>
    PROVE  IInv'
<1>1. DriverTypes /\ Course
  BY InvParts
<1>2. /\ DriverTypes'
      /\ step # 0 => step' # 0
      /\ step = 0 => step' = 0 /\ (pc' # "idle" => pc # "idle")
  BY <1>1, DriverStep, Zenon
<1>3. (step # 0 => at >= 199) /\ (pc # "idle" => step # 0)
  BY <1>1 DEF Course
<1>4. (step' # 0 => at >= 199) /\ (pc' # "idle" => step' # 0)
  BY <1>2, <1>3
<1> QED
  BY <1>2, <1>4, StillInv, Zenon

LEMMA WireKeeps ==
    ASSUME IInv, I2cBus
    PROVE  IInv'
<1>1. DriverTypes /\ Course
  BY InvParts
<1>2. Wire /\ UNCHANGED <<software, hardware>>
  BY DEF I2cBus
<1>3. DriverTypes' /\ step' = step /\ pc' = pc
  BY <1>1, <1>2, WireStep, Zenon
<1>4. (step' # 0 => at >= 199) /\ (pc' # "idle" => step' # 0)
  BY <1>1, <1>3 DEF Course
<1> QED
  BY <1>2, <1>3, <1>4, StillInv, Zenon

LEMMA StutterKeeps ==
    ASSUME IInv, UNCHANGED vars
    PROVE  IInv'
<1>1. DriverTypes /\ Course
  BY InvParts
<1>2. UNCHANGED <<software, hardware>> /\ UNCHANGED <<i2cvars, tpsvars>>
  BY DEF vars
<1>3. DriverTypes'
  BY <1>1, <1>2, DriverStays, Zenon
<1>4. step' = step /\ pc' = pc
  BY <1>2, Untouched, Zenon
<1>5. (step' # 0 => at >= 199) /\ (pc' # "idle" => step' # 0)
  BY <1>1, <1>4 DEF Course
<1> QED
  BY <1>2, <1>3, <1>5, StillInv, Zenon

-----------------------------------------------------------------------------
(* The hardware. *)
LEMMA PartsTogether ==
    ASSUME IInv, UNCHANGED <<i2cvars, tpsvars, software, mmio>>,
           BoardTypes', Bypass', Locked', Started'
    PROVE  IInv'
<1>1. DriverTypes /\ Course /\ Settled
  BY InvParts
<1>2. UNCHANGED <<board, at, tmp, mpu_m, port>> /\ mmio' = mmio /\ UNCHANGED <<i2cvars, tpsvars>>
  BY DEF software
<1>3. DriverTypes'
  BY <1>1, <1>2, DriverStays, Zenon
<1>4. step' = step /\ pc' = pc
  BY <1>2, Untouched, Zenon
<1>5. (step' # 0 => at >= 199) /\ (pc' # "idle" => step' # 0)
  BY <1>1, <1>4 DEF Course
<1>6. Course'
  BY <1>1, <1>2, <1>5, CourseStays, Zenon
<1>7. Settled'
  BY <1>1, <1>2, SettledStays, Zenon
<1> QED
  BY <1>3, <1>6, <1>7, Zenon DEF IInv

LEMMA MultipliersFit ==
    ASSUME NEW w \in Nat
    PROVE  <<MultiplierOf(w), DividerOf(w)>> \in (0 .. 2047) \X (0 .. 127)
<1>1. (w \div 256) % 2048 \in 0 .. 2047
  <2>1. w \div 256 \in Nat
    BY SMTT(10)
  <2> DEFINE q == w \div 256
  <2> HIDE DEF q
  <2>2. q \in Nat => q % 2048 \in 0 .. 2047
    BY SMTT(10)
  <2> QED
    BY <2>1, <2>2 DEF q
<1>2. w % 128 \in 0 .. 127
  BY SMTT(10)
<1> QED
  BY <1>1, <1>2, SMTT(60) DEF MultiplierOf, DividerOf

LEMMA LockKeeps ==
    ASSUME IInv, NEW d \in Dplls, PllLocks(d)
    PROVE  IInv'
<1>1. BoardTypes /\ Bypass /\ Locked /\ Started
  BY InvParts
<1>2. /\ ClkmodeOf(d) = 7 /\ locked' = locked \cup {d}
      /\ rate' = [rate EXCEPT ![d] = <<MultiplierOf(ClkselOf(d)), DividerOf(ClkselOf(d))>>]
      /\ UNCHANGED <<i2cvars, tpsvars, software, mmio>> /\ ready' = ready /\ vtp' = vtp
      /\ posting' = posting
  BY DEF PllLocks, DPLL_EN_LOCK
<1>3. UNCHANGED <<board, at, tmp, mpu_m, port>>
  BY <1>2 DEF software
<1>4. ClkselOf(d) \in Nat
  <2>1. dpll_regs[d].clksel \in Addresses
    BY PllAddresses, Zenon
  <2> QED
    BY <1>1, <2>1, Holds, Zenon DEF ClkselOf
<1>5. rate \in [Dplls -> (0 .. 2047) \X (0 .. 127)] /\ locked \in SUBSET Dplls
  BY <1>1 DEF BoardTypes
<1> DEFINE r == <<MultiplierOf(ClkselOf(d)), DividerOf(ClkselOf(d))>>
           R == (0 .. 2047) \X (0 .. 127)
<1>6. r \in R
  BY <1>4, MultipliersFit
<1>7. /\ rate' \in [Dplls -> R] /\ rate'[d] = r
      /\ \A e \in Dplls : e # d => rate'[e] = rate[e]
  <2> HIDE DEF r, R
  <2>1. rate' = [rate EXCEPT ![d] = r] /\ rate \in [Dplls -> R]
    BY <1>2, <1>5 DEF r, R
  <2> QED
    BY <1>6, <2>1
<1>8. BoardTypes'
  <2>1. /\ at \in 1 .. 219 /\ tmp \in Nat /\ board \in Boards
        /\ mmio \in [Addresses -> Nat] /\ ready \in SUBSET Modules
        /\ vtp \in {"off", "running", "ready"} /\ posting \in BOOLEAN
    BY <1>1, Zenon DEF BoardTypes
  <2>2. locked' \in SUBSET Dplls
    <3>1. locked' = locked \cup {d} /\ locked \in SUBSET Dplls
      BY <1>2, <1>5
    <3> QED
      BY <3>1, Zenon
  <2>3. UNCHANGED <<at, tmp, board, mmio, ready, vtp, posting>>
    BY <1>2, <1>3
  <2> QED
    BY <1>7, <2>1, <2>2, <2>3, Zenon DEF BoardTypes
<1>9. Bypass'
  <2> SUFFICES ASSUME NEW x \in Setups
               PROVE  /\ at' \in x.o + 3 .. x.o + x.n - 1 => ClkmodeOf(x.d)' = 4
                      /\ at' \in x.o + 4 .. x.o + x.n - 1 => x.d \notin locked'
    BY Zenon DEF Bypass
  <2>1. x.o \in Nat /\ x.n \in {7, 9} /\ at \in 1 .. 219
    BY <1>1, SetupTypes DEF BoardTypes
  <2>2. at \in x.o + 4 .. x.o + x.n - 1 => at \in x.o + 3 .. x.o + x.n - 1
    BY <2>1
  <2>3. /\ at \in x.o + 3 .. x.o + x.n - 1 => ClkmodeOf(x.d) = 4
        /\ at \in x.o + 4 .. x.o + x.n - 1 => x.d \notin locked
    BY <1>1, Zenon DEF Bypass
  <2>4. ClkmodeOf(x.d)' = ClkmodeOf(x.d)
    BY <1>2 DEF ClkmodeOf
  <2>5. x.d = d => ClkmodeOf(x.d) # 4
    BY <1>2
  <2> QED
    BY <1>2, <1>3, <2>2, <2>3, <2>4, <2>5
<1>10. Locked'
  <2>1. ASSUME NEW x \in Final
        PROVE  /\ at > x.o + x.n - 1 => (x.d \in locked' => rate'[x.d] = <<Multiplier(x.d), 23>>)
               /\ at > x.o + x.n => x.d \in locked'
    <3>1. x.d \in Dplls /\ x.o \in Nat /\ x.n \in {7, 9} /\ at \in 1 .. 219
      BY <1>1, SetupTypes, FinalLast DEF BoardTypes
    <3>2. /\ at > x.o + 4 => /\ MultiplierOf(ClkselOf(x.d)) = Multiplier(x.d)
                             /\ DividerOf(ClkselOf(x.d)) = 23
          /\ at > x.o + x.n - 1 => (x.d \in locked => rate[x.d] = <<Multiplier(x.d), 23>>)
          /\ at > x.o + x.n => x.d \in locked
      BY <1>1, Zenon DEF Locked
    <3>3. at > x.o + x.n - 1 => at > x.o + 4
      BY <3>1
    <3>4. CASE x.d = d
      <4>1. rate'[x.d] = <<MultiplierOf(ClkselOf(x.d)), DividerOf(ClkselOf(x.d))>>
        BY <1>7, <3>4
      <4>2. x.d \in locked'
        BY <1>2, <3>4
      <4> QED
        BY <3>2, <3>3, <4>1, <4>2
    <3>5. CASE x.d # d
      BY <1>2, <1>7, <3>1, <3>2, <3>5
    <3> QED
      BY <3>4, <3>5
  <2> QED
    BY <1>1, <1>2, <1>3, <2>1, LockedStays, Zenon
<1>11. Started'
  BY <1>1, <1>2, <1>3, StartedStays, Zenon
<1> QED
  BY <1>2, <1>8, <1>9, <1>10, <1>11, PartsTogether, Zenon

LEMMA UnlockKeeps ==
    ASSUME IInv, NEW d \in Dplls, PllBypasses(d)
    PROVE  IInv'
<1>1. BoardTypes /\ Bypass /\ Locked /\ Started
  BY InvParts
<1>2. /\ ClkmodeOf(d) = 4 /\ locked' = locked \ {d} /\ rate' = rate
      /\ UNCHANGED <<i2cvars, tpsvars, software, mmio>> /\ ready' = ready /\ vtp' = vtp
      /\ posting' = posting
  BY DEF PllBypasses, DPLL_EN_MN_BYPASS
<1>3. UNCHANGED <<board, at, tmp, mpu_m, port>>
  BY <1>2 DEF software
<1>4. BoardTypes'
  BY <1>1, <1>2, <1>3 DEF BoardTypes
<1>5. Bypass'
  <2> SUFFICES ASSUME NEW x \in Setups
               PROVE  /\ at' \in x.o + 3 .. x.o + x.n - 1 => ClkmodeOf(x.d)' = 4
                      /\ at' \in x.o + 4 .. x.o + x.n - 1 => x.d \notin locked'
    BY Zenon DEF Bypass
  <2>1. /\ at \in x.o + 3 .. x.o + x.n - 1 => ClkmodeOf(x.d) = 4
        /\ at \in x.o + 4 .. x.o + x.n - 1 => x.d \notin locked
    BY <1>1, Zenon DEF Bypass
  <2>2. ClkmodeOf(x.d)' = ClkmodeOf(x.d)
    BY <1>2 DEF ClkmodeOf
  <2> QED
    BY <1>2, <1>3, <2>1, <2>2
<1>6. Locked'
  <2>1. ASSUME NEW x \in Final
        PROVE  /\ at > x.o + x.n - 1 => (x.d \in locked' => rate'[x.d] = <<Multiplier(x.d), 23>>)
               /\ at > x.o + x.n => x.d \in locked'
    <3>1. x.o \in Nat /\ x.n \in {7, 9} /\ at \in 1 .. 219
      BY <1>1, SetupTypes, FinalLast DEF BoardTypes
    <3>2. /\ at > x.o + x.n - 1 => /\ ClkmodeOf(x.d) = 7
                                   /\ x.d \in locked => rate[x.d] = <<Multiplier(x.d), 23>>
          /\ at > x.o + x.n => x.d \in locked
      BY <1>1, Zenon DEF Locked
    <3>3. at > x.o + x.n => at > x.o + x.n - 1
      BY <3>1
    <3>4. at > x.o + x.n - 1 => x.d # d
      BY <1>2, <3>2
    <3> QED
      BY <1>2, <3>2, <3>3, <3>4
  <2> QED
    BY <1>1, <1>2, <1>3, <2>1, LockedStays, Zenon
<1>7. Started'
  BY <1>1, <1>2, <1>3, StartedStays, Zenon
<1> QED
  BY <1>2, <1>4, <1>5, <1>6, <1>7, PartsTogether, Zenon

LEMMA StartKeeps ==
    ASSUME IInv, NEW a \in Modules, ModuleStarts(a)
    PROVE  IInv'
<1>1. BoardTypes /\ Bypass /\ Locked /\ Started
  BY InvParts
<1>2. /\ mmio[a] % 4 = 2 /\ ready' = ready \cup {a} /\ locked' = locked /\ rate' = rate
      /\ UNCHANGED <<i2cvars, tpsvars, software, mmio>> /\ vtp' = vtp /\ posting' = posting
  BY DEF ModuleStarts, MODULE_CLKCTRL_MODULEMODE, SW_EXPLICIT_EN
<1>3. UNCHANGED <<board, at, tmp, mpu_m, port>>
  BY <1>2 DEF software
<1>4. BoardTypes'
  BY <1>1, <1>2, <1>3 DEF BoardTypes
<1>5. Bypass'
  BY <1>1, <1>2, <1>3, BypassStays, Zenon
<1>6. Locked'
  <2>1. \A x \in Final :
           /\ at > x.o + x.n - 1 => (x.d \in locked' => rate'[x.d] = <<Multiplier(x.d), 23>>)
           /\ at > x.o + x.n => x.d \in locked'
    BY <1>1, <1>2, Zenon DEF Locked
  <2> QED
    BY <1>1, <1>2, <1>3, <2>1, LockedStays, Zenon
<1>7. Started'
  <2>1. \A j \in 1 .. 24 : at' > 13 + 2 * j => mods[j] \in ready' \/ (mods[j] = CM_RTC /\ at' > 120)
    <3> SUFFICES ASSUME NEW j \in 1 .. 24, at' > 13 + 2 * j
                 PROVE  mods[j] \in ready' \/ (mods[j] = CM_RTC /\ at' > 120)
      OBVIOUS
    <3>1. mods[j] \in ready \/ (mods[j] = CM_RTC /\ at > 120)
      BY <1>1, <1>3, Zenon DEF Started
    <3> QED
      BY <1>2, <1>3, <3>1
  <2>2. ASSUME at' > 120 PROVE CM_RTC \notin ready' /\ mmio'[CM_RTC] % 4 = 0
    <3>1. CM_RTC \notin ready /\ mmio[CM_RTC] % 4 = 0
      BY <1>1, <1>3, <2>2, Zenon DEF Started
    <3>2. a # CM_RTC
      BY <1>2, <3>1
    <3> QED
      BY <1>2, <3>1, <3>2
  <2>3. ASSUME at' > 138 PROVE vtp' = "ready"
    BY <1>1, <1>2, <1>3, <2>3, Zenon DEF Started
  <2> QED
    BY <2>1, <2>2, <2>3 DEF Started
<1> QED
  BY <1>2, <1>4, <1>5, <1>6, <1>7, PartsTogether, Zenon

LEMMA CalibrationKeeps ==
    ASSUME IInv, VtpCalibrates \/ WatchdogPosts
    PROVE  IInv'
<1>1. BoardTypes /\ Bypass /\ Locked /\ Started
  BY InvParts
<1>2. /\ locked' = locked /\ rate' = rate /\ ready' = ready
      /\ UNCHANGED <<i2cvars, tpsvars, software, mmio>>
      /\ vtp' \in {vtp, "ready"} /\ posting' \in {posting, FALSE}
  BY ZenonT(30) DEF VtpCalibrates, WatchdogPosts
<1>3. UNCHANGED <<board, at, tmp, mpu_m, port>>
  BY <1>2 DEF software
<1>4. BoardTypes'
  <2>1. vtp \in {"off", "running", "ready"} /\ posting \in BOOLEAN
    BY <1>1 DEF BoardTypes
  <2>2. vtp' \in {vtp, "ready"} /\ (posting' = posting \/ posting' = FALSE)
    BY <1>2, ZenonT(30)
  <2>3. vtp' \in {"off", "running", "ready"}
    BY <2>1, <2>2
  <2>4. posting' \in BOOLEAN
    BY <2>1, <2>2
  <2>5. mmio' = mmio /\ locked' = locked /\ rate' = rate /\ ready' = ready
    BY <1>2
  <2>6. board' = board /\ at' = at /\ tmp' = tmp
    BY <1>3
  <2> QED
    BY <1>1, <2>3, <2>4, <2>5, <2>6, Zenon DEF BoardTypes
<1>5. Bypass'
  BY <1>1, <1>2, <1>3, BypassStays, Zenon
<1>6. Locked'
  <2>1. \A x \in Final :
           /\ at > x.o + x.n - 1 => (x.d \in locked' => rate'[x.d] = <<Multiplier(x.d), 23>>)
           /\ at > x.o + x.n => x.d \in locked'
    BY <1>1, <1>2, Zenon DEF Locked
  <2> QED
    BY <1>1, <1>2, <1>3, <2>1, LockedStays, Zenon
<1>7. Started'
  <2>1. \A j \in 1 .. 24 : at' > 13 + 2 * j => mods[j] \in ready' \/ (mods[j] = CM_RTC /\ at' > 120)
    <3> SUFFICES ASSUME NEW j \in 1 .. 24, at' > 13 + 2 * j
                 PROVE  mods[j] \in ready' \/ (mods[j] = CM_RTC /\ at' > 120)
      OBVIOUS
    <3>1. mods[j] \in ready \/ (mods[j] = CM_RTC /\ at > 120)
      BY <1>1, <1>3, Zenon DEF Started
    <3> QED
      BY <1>2, <1>3, <3>1
  <2>2. ASSUME at' > 120 PROVE CM_RTC \notin ready' /\ mmio'[CM_RTC] % 4 = 0
    <3>1. CM_RTC \notin ready /\ mmio[CM_RTC] % 4 = 0
      BY <1>1, <1>3, <2>2, Zenon DEF Started
    <3> QED
      BY <1>2, <3>1
  <2>3. ASSUME at' > 138 PROVE vtp' = "ready"
    <3>1. vtp = "ready"
      BY <1>1, <1>3, <2>3, Zenon DEF Started
    <3> QED
      BY <1>2, <3>1
  <2> QED
    BY <2>1, <2>2, <2>3 DEF Started
<1> QED
  BY <1>2, <1>4, <1>5, <1>6, <1>7, PartsTogether, Zenon

-----------------------------------------------------------------------------
(* The first state, and every step. *)
LEMMA FirstTypes ==
    ASSUME NEW a \in Addresses, NEW w \in BOOLEAN
    PROVE  FirstValue(a, w) \in Nat
<1>1. /\ DPLL_EN_LOCK \in Nat /\ DPLL_EN_MN_BYPASS \in Nat /\ WarmClksel \in Nat
      /\ SW_EXPLICIT_EN \in Nat /\ VTP_CTRL_ENABLE + VTP_CTRL_START_EN \in Nat
  BY SMTT(10) DEF DPLL_EN_LOCK, DPLL_EN_MN_BYPASS, WarmClksel, SW_EXPLICIT_EN,
     VTP_CTRL_ENABLE, VTP_CTRL_START_EN
<1> DEFINE x == VTP_CTRL_ENABLE + VTP_CTRL_START_EN
           h == \h1800
           p == a \in {dpll_regs[d].clkmode : d \in Dplls}
           q == a \in {dpll_regs[d].clksel : d \in Dplls}
           r == a \in Modules
           s == a = VTP0_CTRL_ADDR
           t == a \in {gpmc_cs(cs) : cs \in 0 .. GPMC_MAX_CS - 1}
<1>2. h \in Nat
  BY SMTT(10)
<1> HIDE DEF x, h
<1>3. \/ FirstValue(a, w) \in {DPLL_EN_LOCK, DPLL_EN_MN_BYPASS, WarmClksel, 0,
                              SW_EXPLICIT_EN, x, h}
  BY SMTT(20) DEF FirstValue, x, h
<1> QED
  BY <1>1, <1>2, <1>3 DEF x

LEMMA FirstInv == Init => IInv
<1> SUFFICES ASSUME Init PROVE IInv
  OBVIOUS
<1>1. /\ TpsInit /\ board \in Boards
      /\ at = 1 /\ tmp = 0 /\ mpu_m = 550 /\ port = -1
      /\ mmio = [a \in Addresses |-> FirstValue(a, board.warm)]
      /\ locked = IF board.warm THEN Dplls ELSE {}
      /\ rate = [d \in Dplls |-> IF board.warm THEN <<600, 23>> ELSE <<0, 0>>]
      /\ ready = IF board.warm THEN Modules ELSE {}
      /\ vtp = IF board.warm THEN "ready" ELSE "off"
      /\ posting = FALSE
  BY DEF Init
<1>2. board.warm \in BOOLEAN
  BY <1>1, BoardAssumption
<1>3. mmio \in [Addresses -> Nat]
  BY <1>1, <1>2, FirstTypes
<1>4. rate \in [Dplls -> (0 .. 2047) \X (0 .. 127)]
  BY <1>1, <1>2
<1>5. BoardTypes
  <2>1. at \in 1 .. 219 /\ tmp \in Nat /\ board \in Boards
    BY <1>1
  <2>2. locked \in SUBSET Dplls
    BY <1>1, Zenon
  <2>3. ready \in SUBSET Modules
    BY <1>1, Zenon
  <2>4. vtp \in {"off", "running", "ready"}
    BY <1>1, Zenon
  <2>5. posting \in BOOLEAN
    BY <1>1, Zenon
  <2> QED
    BY <1>3, <1>4, <2>1, <2>2, <2>3, <2>4, <2>5, Zenon DEF BoardTypes
<1>6. DriverTypes
  <2>1. I2cInit /\ mpu_vdd = "1_1_3" /\ step = 0 /\ val = <<>>
    BY <1>1 DEF TpsInit
  <2>2. AdapterTypes /\ pc = "idle"
    BY <2>1, AdapterInit DEF I2cInit
  <2>3. mpu_vdd \in DOMAIN OpSel /\ Len(Changes) = 5
    <3>1. mpu_vdd \in DOMAIN OpSel
      BY <2>1, TpsAssumption
    <3> QED
      BY <3>1, ChangesRight, Zenon
  <2>4. TpsTypeOK
    BY <2>1, <2>2, <2>3 DEF TpsTypeOK, AdapterTypes
  <2> QED
    BY <2>2, <2>4 DEF DriverTypes, ReadBuffer
<1>7. Course
  <2>1. step = 0 /\ pc = "idle"
    BY <1>1 DEF TpsInit, I2cInit
  <2> DEFINE f == get_efuse_mpu_max_freq(board)
  <2>2. mpu_m = (IF at <= 198 THEN 550 ELSE f) /\ port = (IF at <= 216 THEN -1 ELSE 0)
    <3> HIDE DEF f
    <3> QED
      BY <1>1
  <2> QED
    BY <2>1, <2>2 DEF Course
<1>8. Bypass
  <2>1. ASSUME NEW x \in Setups PROVE at \notin x.o + 3 .. x.o + x.n - 1
                                   /\ at \notin x.o + 4 .. x.o + x.n - 1
    BY <1>1, SetupTypes
  <2> QED
    BY <2>1, Zenon DEF Bypass
<1>9. Locked
  <2>1. ASSUME NEW x \in Final
        PROVE  ~(at > x.o + 4) /\ ~(at > x.o + x.n - 1) /\ ~(at > x.o + x.n)
    BY <1>1, SetupTypes, FinalLast
  <2> QED
    BY <2>1, Zenon DEF Locked
<1>10. Started
  <2>1. ~(at > 120) /\ ~(at > 138) /\ \A j \in 1 .. 24 : ~(at > 13 + 2 * j)
    BY <1>1
  <2> QED
    BY <2>1, Zenon DEF Started
<1>11. Settled
  <2>1. ASSUME NEW w \in Written PROVE ~(at > w.k)
    <3>1. w.k \in 1 .. 218
      BY WrittenAt, Zenon
    <3> QED
      BY <1>1, <3>1
  <2> QED
    BY <2>1, Zenon DEF Settled
<1> QED
  BY <1>5, <1>6, <1>7, <1>8, <1>9, <1>10, <1>11, Zenon DEF IInv

LEMMA StepInv == IInv /\ [Next]_vars => IInv'
<1> SUFFICES ASSUME IInv, [Next]_vars PROVE IInv'
  OBVIOUS
<1>1. CASE Processor
  <2>1. CASE WriteRegister \/ EditField \/ EditBit \/ WriteMultiplier
    BY <2>1, StoresKeep, Zenon
  <2>2. CASE ReadMultiplier
    BY <2>2, ReadKeeps, Zenon
  <2>3. CASE SpinEnds
    BY <2>3, SpinKeeps, Zenon
  <2>4. CASE GetFrequency
    BY <2>4, FrequencyKeeps, Zenon
  <2>5. CASE UpdateVoltages
    BY <2>5, UpdateKeeps, Zenon
  <2>6. CASE VoltagesDone
    BY <2>6, VoltagesKeep, Zenon
  <2>7. CASE SelectChip
    BY <2>7, SelectKeeps, Zenon
  <2>8. CASE EightBits
    BY <2>8, WidthKeeps, Zenon
  <2>9. CASE Driver /\ UNCHANGED <<software, hardware>>
    BY <2>9, DriverKeeps, Zenon
  <2> QED
    BY <1>1, <2>1, <2>2, <2>3, <2>4, <2>5, <2>6, <2>7, <2>8, <2>9, Zenon DEF Processor
<1>2. CASE Silicon
  <2>1. ASSUME NEW d \in Dplls, PllLocks(d) PROVE IInv'
    BY <2>1, LockKeeps, Zenon
  <2>2. ASSUME NEW d \in Dplls, PllBypasses(d) PROVE IInv'
    BY <2>2, UnlockKeeps, Zenon
  <2>3. ASSUME NEW a \in Modules, ModuleStarts(a) PROVE IInv'
    BY <2>3, StartKeeps, Zenon
  <2>4. CASE VtpCalibrates \/ WatchdogPosts
    BY <2>4, CalibrationKeeps, Zenon
  <2> QED
    BY <1>2, <2>1, <2>2, <2>3, <2>4, Zenon DEF Silicon
<1>3. CASE I2cBus
  BY <1>3, WireKeeps, Zenon
<1>4. CASE UNCHANGED vars
  BY <1>4, StutterKeeps, Zenon
<1> QED
  BY <1>1, <1>2, <1>3, <1>4, Zenon DEF Next

(* The invariant from which the properties follow. *)
LEMMA Invariant == Spec => []IInv
  BY FirstInv, StepInv, PTL DEF Spec

-----------------------------------------------------------------------------
(* What the invariant gives. *)
LEMMA PairOf ==
    ASSUME NEW A, NEW B, NEW x \in A \X B
    PROVE  x[1] \in A /\ x[2] \in B
  OBVIOUS

LEMMA InvTypes == IInv => TypeOK
<1> SUFFICES ASSUME IInv PROVE TypeOK
  OBVIOUS
<1>1. DriverTypes /\ BoardTypes /\ Course
  BY InvParts
<1>2. TpsTypeOK
  BY <1>1 DEF DriverTypes
<1>3. at \in 1 .. Len(lowlevel_init) + 1
  <2>1. Len(lowlevel_init) = 218 /\ at \in 1 .. 219
    BY <1>1, ProgramTyped, Zenon DEF BoardTypes
  <2> DEFINE n == Len(lowlevel_init)
  <2> HIDE DEF n
  <2>2. n = 218 => at \in 1 .. n + 1
    BY <2>1
  <2> QED
    BY <2>1, <2>2 DEF n
<1>4. mpu_m \in MPUPLL_M \cup {550} /\ port \in -1 .. GPMC_MAX_CS - 1
  <2> DEFINE f == get_efuse_mpu_max_freq(board)
  <2>1. f \in MPUPLL_M
    BY Frequency, Zenon
  <2>2. mpu_m = (IF at <= 198 THEN 550 ELSE f) /\ port = (IF at <= 216 THEN -1 ELSE 0)
    BY <1>1 DEF Course
  <2> HIDE DEF f
  <2>3. mpu_m \in MPUPLL_M \cup {550}
    BY <2>1, <2>2
  <2>4. port \in -1 .. GPMC_MAX_CS - 1
    BY <2>2 DEF GPMC_MAX_CS
  <2> QED
    BY <2>3, <2>4
<1>5. DOMAIN mmio = Addresses /\ \A a \in Addresses : mmio[a] \in Nat
  BY <1>1 DEF BoardTypes
<1>6. locked \subseteq Dplls /\ ready \subseteq Modules
  BY <1>1, Zenon DEF BoardTypes
<1>7. \A d \in Dplls : rate[d][1] \in 0 .. 2047 /\ rate[d][2] \in 0 .. 127
  <2>1. rate \in [Dplls -> (0 .. 2047) \X (0 .. 127)]
    BY <1>1 DEF BoardTypes
  <2> SUFFICES ASSUME NEW d \in Dplls PROVE rate[d][1] \in 0 .. 2047 /\ rate[d][2] \in 0 .. 127
    OBVIOUS
  <2>2. rate[d] \in (0 .. 2047) \X (0 .. 127)
    BY <2>1
  <2> QED
    BY <2>2, PairOf
<1>8. vtp \in {"off", "running", "ready"} /\ posting \in BOOLEAN
  BY <1>1 DEF BoardTypes
<1> QED
  BY <1>2, <1>3, <1>4, <1>5, <1>6, <1>7, <1>8, Zenon DEF TypeOK

(* The module statement 12 + 2 j enables, once it was waited for. *)
LEMMA ModuleRuns ==
    ASSUME Started, NEW j \in 1 .. 24, j # 21, at > 13 + 2 * j
    PROVE  mods[j] \in ready
<1>1. mods[j] \in ready \/ (mods[j] = CM_RTC /\ at > 120)
  BY Zenon DEF Started
<1>2. mods[j] # CM_RTC
  BY ModuleRegisters, Zenon
<1> QED
  BY <1>1, <1>2, Zenon

LEMMA MemoryPll ==
    ASSUME Locked, at > 93
    PROVE  "ddr" \in locked
<1> DEFINE x == SetupOf("ddr", 86, 7, 303)
<1>1. x \in Final
  BY SMTT(60) DEF Final
<1>2. x.d = "ddr" /\ at > x.o + x.n
  BY SMTT(10) DEF SetupOf
<1> HIDE DEF x
<1> QED
  BY <1>1, <1>2, Zenon DEF Locked

LEMMA Blocks ==
    ASSUME NEW a \in Nat
    PROVE  /\ DOMAIN Block = {CMPER.GPMCCLKCTRL, CMPER.EMIFCLKCTRL, CMWKUP.WKUP_I2C0CTRL}
           /\ a \in Block[CMPER.GPMCCLKCTRL] => InGpmc(a)
           /\ a \in Block[CMPER.EMIFCLKCTRL] => InEmif(a)
           /\ a \in Block[CMWKUP.WKUP_I2C0CTRL] => InI2c(a)
           /\ CMPER.GPMCCLKCTRL # CMPER.EMIFCLKCTRL
           /\ CMWKUP.WKUP_I2C0CTRL # CMPER.EMIFCLKCTRL
<1> DEFINE g == CMPER.GPMCCLKCTRL
           e == CMPER.EMIFCLKCTRL
           i == CMWKUP.WKUP_I2C0CTRL
           G == GPMC_BASE .. GPMC_BASE + \hFFF
           E == EMIF4_0_CFG_BASE .. EMIF4_0_CFG_BASE + \hFFF
           I == I2C0_BASE .. I2C0_BASE + \hFFF
<1>1. g # e /\ i # e /\ g # i
  BY SMTT(10) DEF CMPER, CMWKUP, CM_PER, CM_WKUP
<1>2. a \in G => InGpmc(a)
  BY SMTT(10) DEF GPMC_BASE, InGpmc
<1>3. a \in E => InEmif(a)
  BY SMTT(10) DEF EMIF4_0_CFG_BASE, InEmif
<1>4. a \in I => InI2c(a)
  BY SMTT(10) DEF I2C0_BASE, InI2c
<1>5. Block = [p \in {g, e, i} |-> CASE p = g -> G [] p = e -> E [] OTHER -> I]
  BY Zenon DEF Block
<1> HIDE DEF g, e, i, G, E, I
<1>6. DOMAIN Block = {g, e, i} /\ Block[g] = G /\ Block[e] = E /\ Block[i] = I
  BY <1>1, <1>5
<1> QED
  BY <1>1, <1>2, <1>3, <1>4, <1>6, Zenon DEF g, e, i

LEMMA NowBlocks ==
    ASSUME BoardTypes, Running, IsStore(Now)
    PROVE  /\ Now.reg \in Nat
           /\ InGpmc(Now.reg) => at \in 181 .. 192 \/ at = 217
           /\ InEmif(Now.reg) => at \in 139 .. 180
           /\ InI2c(Now.reg) => at \in 193 .. 197
<1>1. at \in 1 .. 218 /\ Now = lowlevel_init[at] /\ IsStore(lowlevel_init[at])
  BY NowIs, Zenon
<1> DEFINE b == lowlevel_init[at].reg
<1>2. /\ InGpmc(b) => at \in 181 .. 192 \/ at = 217
      /\ InEmif(b) => at \in 139 .. 180
      /\ InI2c(b) => at \in 193 .. 197
      /\ InVtp(b) => at \in 135 .. 137
  BY <1>1, BlockStores, ZenonT(60)
<1>3. b \in Nat
  BY <1>1, StoresTo, ZenonT(60)
<1>4. Now.reg = b
  BY <1>1, Zenon
<1> HIDE DEF b
<1> QED
  BY <1>2, <1>3, <1>4, Zenon

LEMMA InvClocked == IInv => ClockedBeforeUse
<1> SUFFICES ASSUME IInv PROVE ClockedBeforeUse
  OBVIOUS
<1>1. BoardTypes /\ Course /\ Locked /\ Started
  BY InvParts
<1> DEFINE g == CMPER.GPMCCLKCTRL
           e == CMPER.EMIFCLKCTRL
           i == CMWKUP.WKUP_I2C0CTRL
<1>2. mods[10] = g /\ mods[14] = i /\ mods[24] = e
  BY ModuleRegisters
<1>3. ASSUME NEW j \in {10, 14, 24}, at > 61 PROVE mods[j] \in ready
  <2>1. j \in 1 .. 24 /\ j # 21 /\ at > 13 + 2 * j
    BY <1>1, <1>3 DEF BoardTypes
  <2> QED
    BY <1>1, <2>1, ModuleRuns, Zenon
<1>4. at > 61 => g \in ready /\ e \in ready /\ i \in ready
  <2> HIDE DEF g, e, i
  <2> QED
    BY <1>2, <1>3
<1>5. ASSUME Running, Now.do \in {"write", "field", "set", "clear", "clksel"},
             NEW p \in DOMAIN Block, Now.reg \in Block[p]
      PROVE  p \in ready /\ (p = e => "ddr" \in locked /\ vtp = "ready")
  <2> DEFINE a == Now.reg
  <2>1. IsStore(Now)
    BY <1>5 DEF IsStore
  <2>2. /\ a \in Nat
        /\ InGpmc(a) => at \in 181 .. 192 \/ at = 217
        /\ InEmif(a) => at \in 139 .. 180
        /\ InI2c(a) => at \in 193 .. 197
    BY <1>1, <1>5, <2>1, NowBlocks, Zenon
  <2>6. p \in {g, e, i} /\ g # e /\ i # e
    BY <1>5, <2>2, Blocks, ZenonT(60)
  <2>7. at > 61 /\ (p = e => at > 138 /\ at > 93)
    <3> HIDE DEF a, g, e, i
    <3>1. /\ p = g => InGpmc(a)
          /\ p = e => InEmif(a)
          /\ p = i => InI2c(a)
      BY <1>5, <2>2, Blocks, Zenon DEF g, e, i, a
    <3> QED
      BY <2>2, <2>6, <3>1
  <2>8. p = e => "ddr" \in locked
    BY <1>1, <2>7, MemoryPll, Zenon
  <2>9. p = e => vtp = "ready"
    BY <1>1, <2>7, Zenon DEF Started
  <2> QED
    BY <1>4, <2>6, <2>7, <2>8, <2>9, Zenon
<1>6. pc # "idle" => i \in ready
  <2>1. pc # "idle" => at > 61
    BY <1>1 DEF BoardTypes, Course
  <2> QED
    BY <1>4, <2>1, Zenon
<1> QED
  BY <1>5, <1>6, Zenon DEF ClockedBeforeUse

-----------------------------------------------------------------------------
(* The registers a locked PLL runs by. *)
LEMMA StepsPut ==
    ASSUME IInv, [Next]_vars
    PROVE  mmio' = mmio \/ \E a, v : Puts(a, v)
<1>1. CASE Processor
  <2>1. CASE WriteRegister \/ EditField \/ EditBit \/ WriteMultiplier
    BY <2>1, StoresPut, Zenon
  <2>2. CASE EightBits
    BY <2>2, WidthSame, Zenon
  <2>3. CASE ReadMultiplier \/ SpinEnds \/ GetFrequency \/ UpdateVoltages \/ VoltagesDone \/ SelectChip
    BY <2>3 DEF ReadMultiplier, SpinEnds, GetFrequency, UpdateVoltages, VoltagesDone,
       SelectChip, hardware
  <2>4. CASE Driver /\ UNCHANGED <<software, hardware>>
    BY <2>4 DEF hardware
  <2> QED
    BY <1>1, <2>1, <2>2, <2>3, <2>4, Zenon DEF Processor
<1>2. CASE Silicon
  BY <1>2 DEF Silicon, PllLocks, PllBypasses, ModuleStarts, VtpCalibrates, WatchdogPosts
<1>3. CASE I2cBus
  BY <1>3 DEF I2cBus, hardware
<1>4. CASE UNCHANGED vars
  BY <1>4 DEF vars, hardware
<1> QED
  BY <1>1, <1>2, <1>3, <1>4, Zenon DEF Next

(* The multiplier and the dividers of a PLL. *)
RunsBy(d, b) == b = dpll_regs[d].clksel \/ \E i \in 1 .. 5 : b = dpll_regs[d].div[i]

(* A store to a multiplier or a divider is made in the set-up of its PLL,  *)
(* between the wait for the bypass and the request to lock.                *)
LEMMA RateStore ==
    ASSUME NEW k \in 1 .. 218, IsStore(lowlevel_init[k]), NEW d \in Dplls,
           NEW b, b # 0, b = lowlevel_init[k].reg,
           RunsBy(d, b)
    PROVE  \E x \in Setups : x.d = d /\ k \in x.o + 4 .. x.o + x.n - 1
<1>1. InPlls(lowlevel_init[k].reg)
  BY PllRegisters, Zenon DEF RunsBy
<1>2. PICK x \in Setups : SetupStore(k, x)
  BY <1>1, StoresTo, ZenonT(60)
<1>3. x.d \in Dplls /\ x.o \in Nat /\ x.n \in {7, 9}
  BY SetupTypes
<1> DEFINE e == x.d
<1> HIDE DEF e
<1>4. /\ dpll_regs[e].clkmode # dpll_regs[d].clksel
      /\ e # d => dpll_regs[e].clksel # dpll_regs[d].clksel
      /\ \A i \in 1 .. 5 : dpll_regs[e].div[i] # dpll_regs[d].clksel
  <2>1. e \in Dplls
    BY <1>3 DEF e
  <2> QED
    BY <2>1, PllsApart, ZenonT(60)
<1>5. \A i \in 1 .. 5 : /\ dpll_regs[d].div[i] # dpll_regs[e].clkmode
                        /\ dpll_regs[d].div[i] # dpll_regs[e].clksel
                        /\ \A j \in 1 .. 5 : dpll_regs[d].div[i] = dpll_regs[e].div[j]
                              => d = e \/ dpll_regs[d].div[i] = 0
  BY <1>3, PllsApart, ZenonT(60) DEF e
<1>6. \/ k = x.o + 2 /\ b = dpll_regs[e].clkmode
      \/ k = x.o + 4 /\ b = dpll_regs[e].clksel
      \/ k \in x.o + 5 .. x.o + x.n - 2 /\ \E i \in 1 .. 5 : b = dpll_regs[e].div[i]
      \/ k = x.o + x.n - 1 /\ b = dpll_regs[e].clkmode
  BY <1>2, SMTT(10) DEF SetupStore, Field_, Clksel_, e
<1>7. e = d /\ (k = x.o + 4 \/ k \in x.o + 5 .. x.o + x.n - 2)
  <2>1. b # dpll_regs[e].clkmode
    BY <1>4, <1>5, Zenon DEF RunsBy
  <2>2. b = dpll_regs[e].clksel => e = d
    BY <1>4, <1>5, Zenon DEF RunsBy
  <2>3. (\E i \in 1 .. 5 : b = dpll_regs[e].div[i]) => e = d
    BY <1>4, <1>5, Zenon DEF RunsBy
  <2> QED
    BY <1>6, <2>1, <2>2, <2>3, Zenon
<1>8. k \in x.o + 4 .. x.o + x.n - 1
  BY <1>3, <1>7
<1> QED
  BY <1>7, <1>8, Zenon DEF e

LEMMA PutsSafe ==
    ASSUME BoardTypes, Bypass, NEW a, NEW v, Puts(a, v), NEW d \in Dplls, d \in locked,
           NEW b \in Addresses, b # 0,
           RunsBy(d, b)
    PROVE  mmio'[b] = mmio[b]
<1>1. /\ \A c \in Addresses : c # a => mmio'[c] = mmio[c]
      /\ at \in 1 .. 218 /\ IsStore(lowlevel_init[at])
  BY Changed, ZenonT(60)
<1>2. a = lowlevel_init[at].reg
  BY Zenon DEF Puts
<1>3. ASSUME a = b PROVE FALSE
  <2>1. PICK x \in Setups : x.d = d /\ at \in x.o + 4 .. x.o + x.n - 1
    <3>1. b = lowlevel_init[at].reg
      BY <1>2, <1>3, Zenon
    <3> QED
      BY <1>1, <3>1, RateStore, Zenon
  <2> QED
    BY <2>1, Zenon DEF Bypass
<1> QED
  BY <1>1, <1>3, Zenon

LEMMA StepSafe ==
    ASSUME IInv, [Next]_vars, NEW d \in Dplls, d \in locked
    PROVE  /\ ClkselOf(d)' = ClkselOf(d)
           /\ \A k \in 1 .. 5 : dpll_regs[d].div[k] # NULL /\ dpll_regs[d].div[k] \in Addresses =>
                 mmio'[dpll_regs[d].div[k]] = mmio[dpll_regs[d].div[k]]
<1>1. BoardTypes /\ Bypass
  BY InvParts
<1>2. CASE mmio' = mmio
  BY <1>2 DEF ClkselOf
<1>3. CASE \E a, v : Puts(a, v)
  <2>1. PICK a, v : Puts(a, v)
    BY <1>3
  <2>2. dpll_regs[d].clksel # 0 /\ dpll_regs[d].clksel \in Addresses
    <3>1. dpll_regs[d].clksel \in Nat /\ InPlls(dpll_regs[d].clksel)
      BY PllRegisters, Zenon
    <3> QED
      BY <3>1, RegionsApart, PllAddresses, Zenon
  <2>3. ClkselOf(d)' = ClkselOf(d)
    BY <1>1, <2>1, <2>2, PutsSafe, Zenon DEF ClkselOf, RunsBy
  <2>4. ASSUME NEW k \in 1 .. 5, dpll_regs[d].div[k] # NULL, dpll_regs[d].div[k] \in Addresses
        PROVE  mmio'[dpll_regs[d].div[k]] = mmio[dpll_regs[d].div[k]]
    <3>1. dpll_regs[d].div[k] # 0
      BY <2>4 DEF NULL
    <3> QED
      BY <1>1, <2>1, <2>4, <3>1, PutsSafe, Zenon DEF RunsBy
  <2> QED
    BY <2>3, <2>4, Zenon
<1> QED
  BY <1>2, <1>3, StepsPut, Zenon

-----------------------------------------------------------------------------
(* The end of lowlevel_init. *)
LEMMA EndPlls ==
    ASSUME IInv, at = 219
    PROVE  locked = Dplls /\ \A d \in Dplls : rate[d] = <<Multiplier(d), 23>>
<1>1. BoardTypes /\ Locked
  BY InvParts
<1>2. ASSUME NEW d \in Dplls PROVE d \in locked /\ rate[d] = <<Multiplier(d), 23>>
  <2>1. PICK x \in Final : x.d = d
    BY FinalLast, Zenon
  <2>2. at > x.o + x.n /\ at > x.o + x.n - 1
    <3>1. x \in Setups
      BY FinalLast, Zenon
    <3> QED
      BY <3>1, SetupTypes
  <2>3. x.d \in locked /\ (x.d \in locked => rate[x.d] = <<Multiplier(x.d), 23>>)
    BY <1>1, <2>2, Zenon DEF Locked
  <2> QED
    BY <2>1, <2>3, Zenon
<1>3. locked \in SUBSET Dplls
  BY <1>1, Zenon DEF BoardTypes
<1> QED
  BY <1>2, <1>3, Zenon

LEMMA EndModules ==
    ASSUME IInv, at = 219
    PROVE  ready = Modules \ {CMRTC.RTCCLKCTRL}
<1>1. BoardTypes /\ Started
  BY InvParts
<1>2. CMRTC.RTCCLKCTRL = CM_RTC
  BY DEF CMRTC
<1>3. CM_RTC \notin ready
  <2>1. at > 120
    OBVIOUS
  <2> QED
    BY <1>1, <2>1, Zenon DEF Started
<1>4. ready \in SUBSET Modules
  BY <1>1, Zenon DEF BoardTypes
<1>5. ASSUME NEW a \in Modules, a # CM_RTC PROVE a \in ready
  <2>1. PICK j \in 1 .. 24 : a = mods[j]
    BY ModuleRegisters, Zenon
  <2>2. j # 21
    BY <1>5, <2>1, ModuleRegisters, Zenon
  <2>3. at > 13 + 2 * j
    OBVIOUS
  <2> QED
    BY <1>1, <2>1, <2>2, <2>3, ModuleRuns, Zenon
<1> DEFINE r == CM_RTC
           M == Modules
<1> HIDE DEF r, M
<1>6. ready = M \ {r}
  <2>1. r \notin ready /\ ready \in SUBSET M /\ \A a \in M : a # r => a \in ready
    BY <1>3, <1>4, <1>5, Zenon DEF r, M
  <2> QED
    BY <2>1, Zenon
<1> QED
  BY <1>2, <1>6, Zenon DEF r, M

LEMMA EndPorts ==
    ASSUME IInv, at = 219
    PROVE  /\ port = 0 /\ ~IsSet(gpmc_cs(port), WIDE) /\ IsSet(GPMC_CONFIG, 16)
           /\ mmio[gpmc_cs(port) + \h18] = 64 + SYS_NAND_BASE \div 2 ^ 24
           /\ \A k \in 1 .. 6 : mmio[gpmc_cs(port) + 4 * (k - 1)] = M_NAND_GPMC_CONFIG[k]
           /\ HundredKHz
<1>1. Course /\ Settled
  BY InvParts
<1>2. port = 0
  <2>1. port = IF at <= 216 THEN -1 ELSE 0
    BY <1>1 DEF Course
  <2> QED
    BY <2>1
<1>3. /\ mmio[GPMC_CONFIG] = 18 /\ mmio[GPMC_BASE + 120] = 72
      /\ mmio[gpmc_cs(0)] = 2048
      /\ \A j \in 1 .. 6 : mmio[GPMC_BASE + 96 + 4 * (j - 1)] = Config[j]
      /\ mmio[I2C0_BASE + 176] = 1 /\ mmio[I2C0_BASE + 180] = 113 /\ mmio[I2C0_BASE + 184] = 115
  <2>1. at \in 216 .. 219
    OBVIOUS
  <2> QED
    BY <1>1, <2>1, SettledThen, Zenon
<1>4. ~IsSet(gpmc_cs(0), WIDE)
  BY <1>3, SMTT(10) DEF IsSet, WIDE
<1>5. IsSet(GPMC_CONFIG, 16)
  BY <1>3, SMTT(10) DEF IsSet
<1>6. mmio[gpmc_cs(0) + \h18] = 64 + SYS_NAND_BASE \div 2 ^ 24
  <2>1. gpmc_cs(0) + \h18 = GPMC_BASE + 120
    BY SMTT(10) DEF gpmc_cs, GPMC_BASE
  <2>2. 64 + SYS_NAND_BASE \div 2 ^ 24 = 72
    BY SMTT(10) DEF SYS_NAND_BASE
  <2> QED
    BY <1>3, <2>1, <2>2
<1>7. \A k \in 1 .. 6 : mmio[gpmc_cs(0) + 4 * (k - 1)] = M_NAND_GPMC_CONFIG[k]
  <2> SUFFICES ASSUME NEW k \in 1 .. 6
               PROVE  mmio[gpmc_cs(0) + 4 * (k - 1)] = M_NAND_GPMC_CONFIG[k]
    OBVIOUS
  <2>1. gpmc_cs(0) + 4 * (k - 1) = GPMC_BASE + 96 + 4 * (k - 1)
    BY SMTT(10) DEF gpmc_cs, GPMC_BASE
  <2>2. mmio[GPMC_BASE + 96 + 4 * (k - 1)] = Config[k]
    BY <1>3
  <2> QED
    BY <2>1, <2>2 DEF Config
<1>8. /\ mmio[I2C0_BASE + \hB0] = 1 /\ mmio[I2C0_BASE + \hB4] = 113
      /\ mmio[I2C0_BASE + \hB8] = 115
  BY <1>3
<1>9. HundredKHz
  <2> DEFINE p == mmio[I2C0_BASE + \hB0]
             q == mmio[I2C0_BASE + \hB4]
             s == mmio[I2C0_BASE + \hB8]
  <2> HIDE DEF p, q, s
  <2>1. p = 1 /\ q = 113 /\ s = 115
    BY <1>8 DEF p, q, s
  <2>2. 48000000 = 100000 * (p + 1) * (q + 7 + s + 5)
    BY <2>1
  <2> QED
    BY <2>2, SMTT(30) DEF HundredKHz, p, q, s
<1> QED
  BY <1>2, <1>4, <1>5, <1>6, <1>7, <1>9

LEMMA InvReady == IInv => ReadyToLoad
<1> SUFFICES ASSUME IInv, AtLoader PROVE ReadyToLoad
  BY Zenon DEF ReadyToLoad
<1>1. at = 219
  <2>1. Len(lowlevel_init) = 218
    BY ProgramTyped, Zenon
  <2> DEFINE n == Len(lowlevel_init)
  <2> HIDE DEF n
  <2>2. at = n + 1 /\ n = 218
    BY <2>1 DEF AtLoader, n
  <2> QED
    BY <2>2
<1>2. \A d \in Dplls : rate[d] = <<Multiplier(d), OSC - 1>>
  <2>1. OSC - 1 = 23
    BY DEF OSC
  <2> SUFFICES ASSUME NEW d \in Dplls PROVE rate[d] = <<Multiplier(d), OSC - 1>>
    OBVIOUS
  <2>2. rate[d] = <<Multiplier(d), 23>>
    BY <1>1, EndPlls, Zenon
  <2> QED
    BY <2>1, <2>2
<1>3. locked = Dplls /\ ready = Modules \ {CMRTC.RTCCLKCTRL}
  BY <1>1, EndPlls, EndModules, Zenon
<1> QED
  BY <1>1, <1>2, <1>3, EndPorts, Zenon DEF ReadyToLoad

-----------------------------------------------------------------------------
(* The registers, the PLLs, the modules and the driver stay of their types *)
(* at every statement of lowlevel_init.                                    *)
THEOREM TypeCorrect == Spec => []TypeOK
  BY Invariant, InvTypes, PTL

(* No register of the memory controllers or of the I2C port is written,    *)
(* and no transfer runs, before the module's clock does: the order in      *)
(* which lowlevel_init makes its calls is enough, after a cold reset and   *)
(* after a warm one.                                                       *)
THEOREM UsedWhenClocked == Spec => []ClockedBeforeUse
  BY Invariant, InvClocked, PTL

(* What holds when nand_init is called: the PLLs locked at the last rates  *)
(* asked for, the modules running but for the RTC's clock, the chip        *)
(* select, its timings and its width, and the rate of the I2C bus.         *)
THEOREM ReadyAtLoader == Spec => []ReadyToLoad
  BY Invariant, InvReady, PTL

(* do_setup_dpll never changes the multiplier or a divider of a PLL that   *)
(* is locked, whichever of them the reset left locked and whenever the     *)
(* hardware locks and releases them.                                       *)
THEOREM PllsSafe == Spec => DpllsSafe
<1>1. IInv /\ [Next]_vars =>
        [\A d \in Dplls : d \in locked =>
            /\ ClkselOf(d)' = ClkselOf(d)
            /\ \A k \in 1 .. 5 : dpll_regs[d].div[k] # NULL /\ dpll_regs[d].div[k] \in Addresses =>
                  mmio'[dpll_regs[d].div[k]] = mmio[dpll_regs[d].div[k]]]_vars
  BY StepSafe, Zenon
<1> QED
  BY <1>1, Invariant, PTL DEF Spec, DpllsSafe

=============================================================================
