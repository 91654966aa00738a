------------------------- MODULE MCIndicationQueue --------------------------
(* A ring of six slots: the smallest in which a poll can ask for more than  *)
(* the room left after a wrap.  Eight indications that start in the last    *)
(* slot wrap it, fill it and overflow it.                                   *)
EXTENDS IndicationQueue

MCMaxNumberIndication == 3
MCUIntRange == 64
MCStartIndices == {5}
=============================================================================
