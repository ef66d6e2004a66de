--------------------------- MODULE MCHetznerParse ---------------------------
(***************************************************************************)
(* Instantiation of HetznerParse for TLC: texts in the shapes Hetzner's    *)
(* listing uses, one of each branch of every rule, including texts no rule *)
(* recognizes and a multiplier keyword before ' Core CPU'.                 *)
(***************************************************************************)
EXTENDS HetznerParse

CONSTANTS ex41, vq7

MCNumerals == ("6" :> 6) @@ ("16" :> 16) @@ ("32" :> 32) @@ ("64" :> 64)
              @@ ("240" :> 240)

CpuTexts ==
    { <<"6", "Core", "CPU">>,
      <<"Intel", "Core", "i7-6700", "Quad-Core">>,
      <<"Intel", "Xeon", "E5-1650V3", "Hexa-Core">>,
      <<"Intel", "Xeon", "Hexa", "Core", "CPU">>,
      <<"Intel", "Xeon", "Octa-Core">> }

RamTexts ==
    { <<"32", "GB", "RAM">>,
      <<"16", "GB", "DDR3", "RAM">>,
      <<"64", "GB", "DDR4", "RAM">>,
      <<"32", "GB", "DDR4", "ECC", "RAM">>,
      <<"64", "GB", "DDR4", "ECC", "Reg.", "RAM">> }

DiskTexts ==
    { <<"240", "GB", "SSD">>,
      <<"2", "x", "3", "TB", "SATA">> }

MCProducts ==
    [id : {ex41, vq7},
     name : {<<"EX41">>, <<"vServer", "VQ7">>},
     description : {<<c, r, d>> : c \in CpuTexts, r \in RamTexts, d \in DiskTexts}]

=============================================================================
