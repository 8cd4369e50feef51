------------------------------ MODULE Selection ------------------------------
(* Sequences of some of the elements of another, said by their places: what *)
(* SelectSeq does for a test, in a form that can be proved about.            *)
EXTENDS Naturals, Sequences

Picked(s, places) ==
    LET picked[n \in 0..Len(s)] ==
            IF n = 0 THEN <<>>
            ELSE IF n \in places THEN Append(picked[n - 1], s[n])
            ELSE picked[n - 1]
    IN  picked[Len(s)]
=============================================================================
