---------------------------- MODULE CatalogText -----------------------------
(***************************************************************************)
(* What the text of a catalog file says (src/src/catalog/records.rs).  A   *)
(* text is a sequence of lines, and a line one of fields; of a field, what *)
(* the parser tells apart:                                                 *)
(*   word    the field, if it is not an ID                                 *)
(*   digits  how many hex digits it has behind an optional 0x, 0 if it has *)
(*           anything else                                                 *)
(*   value   what they spell                                               *)
(***************************************************************************)
EXTENDS CatalogRecords, SequencesExt

CONSTANT Names   \* the words a profile may be called: short, and plain ASCII

Word(w) == [word |-> w, digits |-> 0, value |-> 0]
Hex(digits, value) == [word |-> "hex", digits |-> digits, value |-> value]

DeviceKind == {"gpu", "nic", "switch", "bridge", "other"}
Attachment == {"pcie", "sxm", "coherent", "unknown"}

IsHexId(field) == field.digits = 4
IsSubsystemId(field) == field.word = "*" \/ IsHexId(field)
SubsystemId(field) == IF field.word = "*" THEN Wildcard ELSE field.value

\* parse_entry succeeds: seven fields, only the subsystem's of them a wildcard.
Parses(line) ==
  /\ Len(line) = 7
  /\ IsHexId(line[1]) /\ IsHexId(line[2])
  /\ IsSubsystemId(line[3]) /\ IsSubsystemId(line[4])
  /\ line[5].word \in DeviceKind /\ line[6].word \in Names /\ line[7].word \in Attachment

ParseEntry(line) ==
  [vendor |-> line[1].value, device |-> line[2].value,
   subvendor |-> SubsystemId(line[3]), subdevice |-> SubsystemId(line[4]),
   properties |-> [kind |-> line[5].word, profile |-> line[6].word,
                   attachment |-> line[7].word]]

\* lines(): blank lines and comments are left out.
Lines(text) == SelectSeq(text, LAMBDA line : line # <<>> /\ line[1].word # "#")

\* What CatalogLoad knows of a text.
Parsed(text) ==
  LET good == SelectSeq(Lines(text), Parses)
  IN [records |-> [i \in DOMAIN good |-> ParseEntry(good[i])],
      malformed |-> good # Lines(text)]
=============================================================================
