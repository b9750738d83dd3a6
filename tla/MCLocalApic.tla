---------------------------- MODULE MCLocalApic ----------------------------
(* The APICs with none and with all of the optional LVT entries, after a   *)
(* reset and after firmware that used virtual wire mode and an error entry. *)
EXTENDS LocalApic

MCMaxLvts == {3, 6}
ResetState ==
  [r \in Regs |-> IF r \in Lvt THEN Clean
                 ELSE IF r = "SPIV" THEN Spiv("reset", FALSE)
                 ELSE IF r = "TASKPRI" THEN 0 ELSE "reset"]
WiredState ==
  [ResetState EXCEPT !["TASKPRI"] = 32, !["SPIV"] = Spiv("legacy", TRUE), !["LVT0"] = Entry("extint", FALSE),
                     !["LVT1"] = Entry("nmi", FALSE), !["LVTERR"] = Entry("other", FALSE)]
MCFirmware == {ResetState, WiredState}
=============================================================================
