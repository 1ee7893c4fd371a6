------------------------------ MODULE MCSiglab ------------------------------
(* One crypto market with one variant, or a weather event of a
   bucket a day. *)
EXTENDS Siglab

MCVariants == [rev |-> "reversal"]
MCMinDelta == [reversal |-> 1, high_prob |-> 1, v_shape |-> 0]
MCEvents == {{"today"}, {"tomorrow"}}
=============================================================================
