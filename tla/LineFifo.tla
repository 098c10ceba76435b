------------------------------ MODULE LineFifo ------------------------------
(***************************************************************************)
(* What a stream of lines promises its reader: the lines that were sent,   *)
(* all of a line or nothing, in order, each once.  Cosim uses its channels *)
(* this way.                                                               *)
(***************************************************************************)
EXTENDS Naturals, Sequences

CONSTANT Lines

VARIABLES
    sent, \* the lines sent so far
    got   \* the lines read so far

Init == sent = <<>> /\ got = <<>>

Put ==
    /\ \E l \in Lines : sent' = Append(sent, l)
    /\ UNCHANGED got

Get ==
    /\ Len(got) < Len(sent)
    /\ got' = Append(got, sent[Len(got) + 1])
    /\ UNCHANGED sent

Spec == Init /\ [][Put \/ Get]_<<sent, got>>

=============================================================================
