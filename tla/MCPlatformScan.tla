--------------------------- MODULE MCPlatformScan ---------------------------
(* Three functions, two of them in one slot.                               *)
EXTENDS PlatformScan

Function(v, c, chip, vf, mark, port) ==
  [vendor |-> v, class |-> c, chip |-> chip, vf |-> vf, marked |-> mark, port |-> port]
Gpu(v, chip) == Function(v, "display", chip, FALSE, FALSE, NoPort)
Nic(vf, mark, port) == Function("mellanox", "other", Unknown, vf, mark, port)
Nvidia(family, attachment) == [family |-> family, attachment |-> attachment]
Port(infiniband, smDisabled, guid) ==
  [infiniband |-> infiniband, smDisabled |-> smDisabled, guid |-> guid]

MCAddresses == 1 .. 3
MCSlot == <<1, 1, 2>>
MCDevices ==
  {Gpu("nvidia", Nvidia("hopper", "sxm")), Gpu("nvidia", Nvidia("blackwell", "sxm")),
   Gpu("nvidia", Nvidia("blackwell", "coherent")), Gpu("other", Unknown),
   Function("nvidia", "bridge", Unknown, FALSE, FALSE, NoPort),
   Nic(FALSE, TRUE, NoPort), Nic(FALSE, TRUE, Port(TRUE, TRUE, 1)),
   Nic(FALSE, FALSE, Port(TRUE, FALSE, 1)), Nic(FALSE, FALSE, Port(TRUE, FALSE, 0)),
   Nic(TRUE, TRUE, Port(TRUE, FALSE, 1))}
=============================================================================
