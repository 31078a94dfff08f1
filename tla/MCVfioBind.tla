----------------------------- MODULE MCVfioBind -----------------------------
(* VfioBind for TLC: the host's driver, generic vfio-pci, a variant driver  *)
(* and a module without a PCI driver, in alias tables of up to two lines.   *)
EXTENDS VfioBind

MCDrivers == {"vfio-pci", "variant"}
MCModules == {"host", "vfio_pci", "variant_pci", "mdev"}
MCRegisters ==
  [m \in MCModules |-> CASE m = "host" -> {"native"}
                         [] m = "vfio_pci" -> {"vfio-pci"}
                         [] m = "variant_pci" -> {"variant"}
                         [] OTHER -> {}]
MCLines == [names : {"this", "other", "any"}, module : MCModules \ {"host"}]
MCTables ==
  {<<>>} \cup {<<l>> : l \in MCLines}
    \cup {<<l, [names |-> "any", module |-> "vfio_pci"]>> : l \in MCLines}
    \cup {<<[names |-> "any", module |-> "vfio_pci"], l>> : l \in MCLines}
=============================================================================
