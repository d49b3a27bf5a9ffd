--------------------------- MODULE MCSafetyGates ---------------------------
(* SafetyGates with one call, since calls do not read what another one     *)
(* writes: a report that strict mode refuses for its findings, an          *)
(* interface that it accepts after a review, and a configuration without a *)
(* transport, alone or in a batch.                                         *)
EXTENDS SafetyGates

Report == [name |-> "Z_REPORT", kind |-> "code", syntax |-> "clean", atc |-> "minor",
           naming |-> "good", transport |-> "none", tests |-> FALSE]
Interface == [name |-> "ZIF_ORDER", kind |-> "interface", syntax |-> "clean", atc |-> "clean",
              naming |-> "good", transport |-> "valid", tests |-> FALSE]
Setting == [name |-> "Z_SETTING", kind |-> "configuration", syntax |-> "broken", atc |-> "critical",
            naming |-> "warning", transport |-> "none", tests |-> FALSE]
MCBatches == {<<Report>>, <<Interface, Setting>>, <<Setting, Interface>>}
MCNames == {"ZIF_ORDER", "config_request_approval"}
=============================================================================
