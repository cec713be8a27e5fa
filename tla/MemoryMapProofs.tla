--------------------------- MODULE MemoryMapProofs ---------------------------
(* The memory map is sound for all sizes the build accepts.                *)
EXTENDS MemoryMap, TLAPS

LEMMA ConfigTypes ==
  ASSUME NEW c \in Configs
  PROVE  /\ c.freertos \in Int /\ c.freertos >= 0
         /\ c.ion \in Int /\ c.ion >= 0
         /\ c.h26x \in Int /\ c.h26x >= 0
         /\ c.isp \in Int /\ c.isp >= 0
BY DEF Configs, Sizes

(* Two regions of which one ends before the other begins are apart, and so *)
(* are all regions that lie in a row.                                      *)
LEMMA BuildsSound ==
  ASSUME NEW c \in Configs, Builds(c)
  PROVE  SoundMap(c)
<1> USE DEF MiB, DRAM_BASE, DRAM_SIZE, FREERTOS_ADDR, ION_ADDR, BOOTLOGO_ADDR,
            BOOTLOGO_SIZE, FRAMEBUFFER_ADDR, FRAMEBUFFER_SIZE, UIMAG_ADDR,
            UIMAG_SIZE, CVI_UPDATE_HEADER_ADDR, CVI_UPDATE_HEADER_SIZE,
            CONFIG_SYS_TEXT_BASE, MONITOR_ADDR, OPENSBI_SIZE,
            H26X_BITSTREAM_ADDR, H26X_ENC_BUFF_ADDR, H26X_ENC_BUFF_SIZE,
            ISP_MEM_BASE_ADDR, KERNEL_MEMORY_ADDR, KERNEL_MEMORY_SIZE
<1>1. AllApart(Regions(c))
  BY ConfigTypes DEF Builds, AllApart, Regions, Apart, Region
<1>2. AllApart(IonParts(c))
  BY ConfigTypes DEF Builds, AllApart, IonParts, Apart, Region
<1>3. \A i \in DOMAIN Regions(c) :
        Inside(Regions(c)[i], Region(DRAM_BASE, DRAM_SIZE))
  BY ConfigTypes DEF Builds, Regions, Inside, Region
<1>4. \A i \in DOMAIN IonParts(c) : Inside(IonParts(c)[i], Regions(c).ion)
  BY ConfigTypes DEF Builds, Regions, IonParts, Inside, Region
<1>5. \A i \in DOMAIN Regions(c) \ {"freertos"} :
        Inside(Regions(c)[i], Region(KERNEL_MEMORY_ADDR, KERNEL_MEMORY_SIZE(c)))
  BY ConfigTypes DEF Builds, Regions, Inside, Region
<1> QED
  BY <1>1, <1>2, <1>3, <1>4, <1>5 DEF SoundMap

MapInv == config \in Configs /\ (build = "built" => Builds(config))

LEMMA ChoicesStay == MapInv /\ [MapNext]_mapVars => MapInv'
<1> SUFFICES ASSUME MapInv, [MapNext]_mapVars PROVE MapInv'
  OBVIOUS
<1>0. config \in Configs
  BY DEF MapInv
<1>a. ASSUME NEW c \in Configs, Choose(c) PROVE MapInv'
  BY <1>a DEF Choose, MapInv
<1>1. CASE ChooseBoard
  <2>1. PICK b \in Boards : Choose([config EXCEPT !.board = b])
    BY <1>1 DEF ChooseBoard
  <2>2. [config EXCEPT !.board = b] \in Configs
    BY <1>0 DEF Configs
  <2> QED
    BY <1>a, <2>1, <2>2
<1>2. CASE ChooseFreertos
  <2>1. PICK n \in Heaps : Choose([config EXCEPT !.freertos = n])
    BY <1>2 DEF ChooseFreertos
  <2>2. [config EXCEPT !.freertos = n] \in Configs
    BY <1>0, HeapsAssumption DEF Configs
  <2> QED
    BY <1>a, <2>1, <2>2
<1>3. CASE ChooseIon
  <2>1. PICK n \in Heaps : Choose([config EXCEPT !.ion = n, !.h26x = AtMost(@, n),
                                                 !.isp = AtMost(@, n)])
    BY <1>3 DEF ChooseIon
  <2>2. [config EXCEPT !.ion = n, !.h26x = AtMost(@, n), !.isp = AtMost(@, n)]
          \in Configs
    <3>1. n \in Sizes
      BY HeapsAssumption
    <3>2. \A k \in Sizes : AtMost(k, n) \in Sizes /\ AtMost(k, n) <= n
      BY <3>1 DEF Sizes, AtMost
    <3> QED
      BY <1>0, <3>1, <3>2 DEF Configs
  <2> QED
    BY <1>a, <2>1, <2>2
<1>4. CASE ChooseParts
  <2>1. PICK n \in Heaps :
          /\ n <= config.ion
          /\ \/ Choose([config EXCEPT !.h26x = n])
             \/ Choose([config EXCEPT !.isp = n])
    BY <1>4 DEF ChooseParts
  <2>2. /\ [config EXCEPT !.h26x = n] \in Configs
        /\ [config EXCEPT !.isp = n] \in Configs
    BY <1>0, <2>1, HeapsAssumption DEF Configs
  <2> QED
    BY <1>a, <2>1, <2>2
<1>5. CASE Build
  BY <1>5 DEF Build, MapInv
<1>6. CASE UNCHANGED mapVars
  BY <1>6 DEF mapVars, MapInv
<1> QED
  BY <1>1, <1>2, <1>3, <1>4, <1>5, <1>6 DEF MapNext

(* Every map that a build accepts is sound, for all sizes of the heaps.    *)
THEOREM MapSoundAlways == MapSpec => []MapSound
<1>1. MapInit => MapInv
  BY DEF MapInit, MapInv, Configs, DefaultConfig, Boards, Sizes
<1>2. MapInv => MapSound
  BY BuildsSound DEF MapInv, MapSound
<1> QED
  BY <1>1, <1>2, ChoicesStay, PTL DEF MapSpec
=============================================================================
