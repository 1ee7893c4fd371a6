------------------------------- MODULE MCFleet -------------------------------
(* Small instances of Fleet for TLC.                                       *)
EXTENDS Fleet

Rev5  == [asset |-> "BTC", key |-> "BTC", strategy |-> "reversal"]
Vee15 == [asset |-> "BTC", key |-> "BTC@15m", strategy |-> "v_shape"]

MCSlots == {Rev5, Vee15}
MCPeriod == [s \in MCSlots |-> IF s = Rev5 THEN 1 ELSE 2]

Cmd(verb, name, strategy) == [verb |-> verb, name |-> name, strategy |-> strategy]
MCCommands == {Cmd("halt", "BTC", "reversal"), Cmd("resume", "", ""),
               Cmd("resume", "BTC@15m", ""), Cmd("halt", "BTC@15m", "v_shape"),
               Cmd("reset_losses", "BTC", "")}

Flags(paper, dry) == [paper |-> paper, dry |-> dry]
MCRunFlags == {Flags(FALSE, FALSE), Flags(TRUE, TRUE), Flags(FALSE, TRUE)}
=============================================================================
