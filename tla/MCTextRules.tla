------------------------------ MODULE MCTextRules ------------------------------
(***************************************************************************)
(* A watch whose trigger is a regular expression or a word, on pages of a  *)
(* line or two.                                                            *)
(***************************************************************************)
EXTENDS TextRules, TLC

CONSTANTS a, b

Trigger(kind) ==
  [ignore |-> {}, keep |-> {}, extract |-> << >>, unrepeated |-> FALSE, sorted |-> FALSE,
   strip |-> FALSE, trigger |-> {[of |-> "watch", kind |-> kind, lines |-> {b}]},
   forbid |-> {}, conditions |-> {}, match |-> "ALL", unique |-> FALSE, types |-> Types]

MCPages == {<<a>>, <<b>>, <<a, b>>}
MCRank == (a :> 1) @@ (b :> 2)
MCConfigs == {Trigger("word"), Trigger("regex")}
==============================================================================
