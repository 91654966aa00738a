--------------------------- MODULE IndicationFifo ---------------------------
(***************************************************************************)
(* What the indication queue of c-mesh-api promises, without its ring, its *)
(* locks or its threads: a bounded first-in first-out buffer between the   *)
(* serial line and the indication handlers.  The node numbers its          *)
(* indications 1, 2, 3, ...; each one is accepted or refused exactly once, *)
(* in that order, and refused only when the buffer is full.  An accepted   *)
(* indication keeps its place while its handler runs.                      *)
(***************************************************************************)
EXTENDS Naturals, Sequences

CONSTANT Capacity  \* how many indications fit, a positive number

VARIABLES
  last,     \* number of the last indication the node handed over
  fifo,     \* accepted, and their handler has not returned
  serving,  \* a handler is running on Head(fifo)
  handled,  \* numbers given to a handler, in order
  refused   \* numbers that found no room

fifoVars == <<last, fifo, serving, handled, refused>>

Init == /\ last = 0
        /\ fifo = <<>>
        /\ serving = FALSE
        /\ handled = <<>>
        /\ refused = {}

Accept == /\ Len(fifo) < Capacity
          /\ last' = last + 1
          /\ fifo' = Append(fifo, last + 1)
          /\ UNCHANGED <<serving, handled, refused>>

Refuse == /\ Len(fifo) = Capacity
          /\ last' = last + 1
          /\ refused' = refused \union {last + 1}
          /\ UNCHANGED <<fifo, serving, handled>>

Serve == /\ ~serving
         /\ fifo # <<>>
         /\ serving' = TRUE
         /\ handled' = Append(handled, Head(fifo))
         /\ UNCHANGED <<last, fifo, refused>>

Release == /\ serving
           /\ serving' = FALSE
           /\ fifo' = Tail(fifo)
           /\ UNCHANGED <<last, handled, refused>>

Next == Accept \/ Refuse \/ Serve \/ Release

Spec == Init /\ [][Next]_fifoVars
=============================================================================
