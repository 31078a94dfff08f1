----------------------------- MODULE MCGpuOpen -----------------------------
(* GpuOpen for TLC: one address and two threads that want it.  Boards that *)
(* share a device ID inside and outside of the ranges, and a switch.       *)
EXTENDS GpuOpen

CONSTANTS t1, t2

MCThreads == {t1, t2}
MCDevices == {<<0, 101, 0, 0>>}
MCSpellings ==
  {Pci!Spelling(<<0, 101>>, <<0, 0>>), Pci!Spelling(<<101>>, <<0, 0>>),
   Pci!Spelling(<<101>>, <<0, Pci!NotHex>>), Pci!Spelling(<<101>>, <<>>),
   Pci!Spelling(<<65536, 101>>, <<0, 0>>), Pci!Spelling(<<0, 0, 101>>, <<0, 0>>)}

Card(v, g, d, s, c, coherent) ==
  [vendor |-> v, gpu |-> g, device |-> d, subsystem |-> s, chip |-> c, coherent |-> coherent]
Record(d, s, p, a) == [device |-> d, subsystem |-> s, gpu |-> TRUE, profile |-> p, attachment |-> a]

MCCards ==
  {Card("nvidia", TRUE, "x29bc", 1, "GB102", FALSE), Card("nvidia", TRUE, "x29bc", 2, "GB102", TRUE),
   Card("nvidia", TRUE, "xfff0", 1, "GH100", FALSE), Card("nvidia", TRUE, "xfff0", 2, "GR100", TRUE),
   Card("nvidia", FALSE, "x22a3", 1, "NVSwitch_gen3", FALSE)}

MCChips == {"GH100", "GB102", "GR100"}
MCSwitches == {"NVSwitch_gen3"}
MCRange == [d \in {"x29bc", "xfff0", "x22a3"} |-> IF d = "x29bc" THEN "GB102" ELSE NoChip]
MCBuiltin ==
  {Record("x29bc", 2, "GB102", "coherent"), Record("xfff0", 1, "GH100", "sxm"),
   Record("xfff0", 2, "GR100", "coherent")}
MCGiven == MCBuiltin \cup {Record("x22a3", 1, "FutureGPU", "sxm")}
=============================================================================
