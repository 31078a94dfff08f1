--------------------------- MODULE MCCatalogLoad ----------------------------
(* Records of two devices that meet on both subsystem axes, in two files.  *)
EXTENDS CatalogLoad, CatalogText

MCNames == {"P"}
MCProperties == [kind : {"gpu"}, profile : MCNames, attachment : {"pcie", "coherent"}]
MCCoherent == {p \in MCProperties : p.attachment = "coherent"}

Star == Word("*")
Id(n) == Hex(4, n)
R(device, subvendor, subdevice, attachment) ==
  <<Id(1), device, subvendor, subdevice, Word("gpu"), Word("P"), Word(attachment)>>

One == R(Id(1), Star, Id(1), "pcie")
OneC2c == R(Id(1), Star, Id(1), "coherent")
TwoC2c == R(Id(1), Star, Id(2), "coherent")
Axis == R(Id(1), Id(1), Star, "pcie")
Other == R(Id(2), Star, Star, "pcie")

MCBundles == {Parsed(text).records : text \in {<<>>, <<OneC2c>>, <<One, TwoC2c>>}}

Good == {<<>>, <<One>>, <<OneC2c>>, <<Axis>>, <<Other>>, <<One, TwoC2c>>,
         <<<<Word("#"), Word("gpu")>>, One, <<>>, Other>>}
\* Overlapping, and unsorted; an ID that is cut off or a wildcard, a field too
\* many, and a name no profile has.
Bad == {<<TwoC2c, Axis>>, <<Other, One>>,
        <<One, R(Hex(3, 2), Star, Star, "pcie")>>, <<OneC2c, R(Star, Star, Star, "pcie")>>,
        <<Axis, Append(Other, Star)>>, <<Other, [Other EXCEPT ![6] = Word("?")]>>}

MCTexts == {Parsed(text) : text \in Good \cup Bad}
MCIds == 1 .. 2
=============================================================================
