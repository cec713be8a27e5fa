------------------------------ MODULE MemoryMap ------------------------------
(***************************************************************************)
(* The memory map of the boards.  The menu of the build asks for the sizes *)
(* of four heaps; cvitekconfig.mk writes them into the board's memmap.py,  *)
(* which places everything in DRAM, from both ends, and asserts twice that *)
(* it fits.  All sizes and addresses are counted in KiB.                   *)
(***************************************************************************)
EXTENDS Integers

CONSTANT Heaps  \* the sizes tried for a heap, in MiB

Sizes == 0 .. 256

ASSUME HeapsAssumption == Heaps \subseteq Sizes

VARIABLES
  config,  \* what is chosen in the menu
  build    \* what became of it: "none", "built" or "failed"

mapVars == <<config, build>>

MiB == 1024

(* What the menu lets one choose.                                          *)
Boards == {"licheervnano", "recamera", "test"}
Configs ==
  {c \in [board : Boards, freertos : Sizes, ion : Sizes, h26x : Sizes, isp : Sizes] :
     c.h26x <= c.ion /\ c.isp <= c.ion}
DefaultConfig ==
  [board |-> "licheervnano", freertos |-> 2, ion |-> 75, h26x |-> 2, isp |-> 20]

DRAM_BASE == 2048 * MiB
DRAM_SIZE == 256 * MiB
FREERTOS_ADDR(c) == DRAM_BASE + DRAM_SIZE - c.freertos * MiB

MONITOR_ADDR == DRAM_BASE
OPENSBI_SIZE == 512
OPENSBI_FDT_ADDR == MONITOR_ADDR + OPENSBI_SIZE
CONFIG_SYS_TEXT_BASE == DRAM_BASE + 2 * MiB

KERNEL_MEMORY_ADDR == DRAM_BASE
KERNEL_MEMORY_SIZE(c) == DRAM_SIZE - c.freertos * MiB

ION_ADDR(c) == FREERTOS_ADDR(c) - c.ion * MiB
H26X_BITSTREAM_ADDR(c) == ION_ADDR(c)
H26X_ENC_BUFF_ADDR(c) == H26X_BITSTREAM_ADDR(c) + c.h26x * MiB
H26X_ENC_BUFF_SIZE == 0
ISP_MEM_BASE_ADDR(c) == H26X_ENC_BUFF_ADDR(c) + H26X_ENC_BUFF_SIZE

BOOTLOGO_SIZE(c) == IF c.board = "licheervnano" THEN 8000 ELSE 1800
BOOTLOGO_ADDR(c) == ION_ADDR(c) - BOOTLOGO_SIZE(c)
FRAMEBUFFER_ADDR(c) == BOOTLOGO_ADDR(c)
FRAMEBUFFER_SIZE(c) == BOOTLOGO_SIZE(c)

CVI_UPDATE_HEADER_SIZE == 1
UIMAG_SIZE == 16 * MiB
UIMAG_ADDR == DRAM_BASE + 24 * MiB
CVI_UPDATE_HEADER_ADDR == UIMAG_ADDR - CVI_UPDATE_HEADER_SIZE

(* Mutant: the second assertion looks at the ION buffer.                   *)
ForgetsBootlogo(c) ==
  /\ c.board # "test"
  /\ ISP_MEM_BASE_ADDR(c) + c.isp * MiB <= ION_ADDR(c) + c.ion * MiB
  /\ UIMAG_ADDR + UIMAG_SIZE <= ION_ADDR(c)

(* The file of the test board does not exist; the rest are the assertions. *)
Builds(c) ==
  /\ c.board # "test"
  /\ ISP_MEM_BASE_ADDR(c) + c.isp * MiB <= ION_ADDR(c) + c.ion * MiB
  /\ UIMAG_ADDR + UIMAG_SIZE <= BOOTLOGO_ADDR(c)

MapInit == config = DefaultConfig /\ build = "none"

Choose(c) == config' = c /\ build' = "none"

ChooseBoard == \E b \in Boards : Choose([config EXCEPT !.board = b])
ChooseFreertos == \E n \in Heaps : Choose([config EXCEPT !.freertos = n])

(* Sizes that are out of their range then are the largest in it.           *)
AtMost(n, max) == IF n < max THEN n ELSE max
ChooseIon ==
  \E n \in Heaps :
    Choose([config EXCEPT !.ion = n, !.h26x = AtMost(@, n), !.isp = AtMost(@, n)])

ChooseParts ==
  \E n \in {m \in Heaps : m <= config.ion} :
    \/ Choose([config EXCEPT !.h26x = n])
    \/ Choose([config EXCEPT !.isp = n])

Build ==
  /\ build = "none"
  /\ build' = IF Builds(config) THEN "built" ELSE "failed"
  /\ UNCHANGED config

MapNext == ChooseBoard \/ ChooseFreertos \/ ChooseIon \/ ChooseParts \/ Build
MapSpec == MapInit /\ [][MapNext]_mapVars

-----------------------------------------------------------------------------
(* What has to hold of a map.                                              *)

Region(addr, size) == [addr |-> addr, size |-> size]

(* Memory that different parties use at the same time.                     *)
Regions(c) == [
  opensbi  |-> Region(MONITOR_ADDR, OPENSBI_SIZE),
  uboot    |-> Region(CONFIG_SYS_TEXT_BASE, CVI_UPDATE_HEADER_ADDR - CONFIG_SYS_TEXT_BASE),
  uimage   |-> Region(CVI_UPDATE_HEADER_ADDR, CVI_UPDATE_HEADER_SIZE + UIMAG_SIZE),
  fb       |-> Region(FRAMEBUFFER_ADDR(c), FRAMEBUFFER_SIZE(c)),
  ion      |-> Region(ION_ADDR(c), c.ion * MiB),
  freertos |-> Region(FREERTOS_ADDR(c), c.freertos * MiB)]

(* The buffers of the fast image share the ION buffer.                     *)
IonParts(c) == [
  h26x |-> Region(H26X_BITSTREAM_ADDR(c), c.h26x * MiB),
  enc  |-> Region(H26X_ENC_BUFF_ADDR(c), H26X_ENC_BUFF_SIZE),
  isp  |-> Region(ISP_MEM_BASE_ADDR(c), c.isp * MiB)]

Inside(r, s) == s.addr <= r.addr /\ r.addr + r.size <= s.addr + s.size
Apart(r, s) == r.addr + r.size <= s.addr \/ s.addr + s.size <= r.addr
AllApart(rs) == \A i, j \in DOMAIN rs : i # j => Apart(rs[i], rs[j])

SoundMap(c) ==
  /\ AllApart(Regions(c))
  /\ AllApart(IonParts(c))
  /\ \A i \in DOMAIN Regions(c) :
       Inside(Regions(c)[i], Region(DRAM_BASE, DRAM_SIZE))
  /\ \A i \in DOMAIN IonParts(c) : Inside(IonParts(c)[i], Regions(c).ion)
  /\ \A i \in DOMAIN Regions(c) \ {"freertos"} :
       Inside(Regions(c)[i], Region(KERNEL_MEMORY_ADDR, KERNEL_MEMORY_SIZE(c)))

(* Whatever is chosen, in whatever order: if the build accepts it, all     *)
(* that is in memory at the same time lies in DRAM, apart from each other, *)
(* and the kernel is given all of it but FreeRTOS's.                       *)
MapSound == build = "built" => SoundMap(config)
=============================================================================
