---------------------------- MODULE MCCcControl ----------------------------
(* Instances of CcControl for TLC: every kind of device the library knows, *)
(* and every combination of knobs at the values the calls write.           *)
EXTENDS CcControl

MCProfiles ==
  {p \in Profile :
     /\ p.family = "rubin" => p.c2c
     /\ p.family = "switch" => ~p.c2c
     /\ ~SupportsPpcie(p) => ~p.ppcieKnob}

MCStartKnobs ==
  {k \in [Knob -> 0..2] :
     /\ \A n \in Knob \ {"decoupler"} : k[n] # 2
     /\ k["decoupler"] # 1
     /\ k["knob2"] = k["knob4"]}
=============================================================================
