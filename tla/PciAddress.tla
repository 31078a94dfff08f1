----------------------------- MODULE PciAddress -----------------------------
(***************************************************************************)
(* PCI addresses as callers spell them and as sysfs knows them             *)
(* (src/src/linux.rs, src/src/sysfs.rs).  What a caller passes is split    *)
(* into the fields before the last colon, and the slot behind it at its    *)
(* dot; a field is the number its hex digits spell.                        *)
(***************************************************************************)
EXTENDS Integers, Sequences

NotHex == -1
NoAddress == <<>>

\* slot is <<>> if it has no dot.
Spelling(fields, slot) == [fields |-> fields, slot |-> slot]

Fits(field, bits) == field \in 0 .. 2^bits - 1

\* normalize_bdf: domain, bus, device and function, in the one spelling that is
\* joined onto a path.  The domain may be left out.
NormalizeBdf(spelling) ==
  LET fields == IF Len(spelling.fields) = 1 THEN <<0>> \o spelling.fields ELSE spelling.fields
  IN IF /\ Len(fields) = 2 /\ Fits(fields[1], 16) /\ Fits(fields[2], 8)
        /\ Len(spelling.slot) = 2 /\ \A i \in 1 .. 2 : Fits(spelling.slot[i], 8)
     THEN fields \o spelling.slot
     ELSE NoAddress
=============================================================================
