------------------------ MODULE MCOutcomeValidation -------------------------
(* OutcomeValidation on a short chart of a few shapes of candle.           *)
EXTENDS OutcomeValidation, TLC

Shape(adv, fav) == [adv |-> adv, fav |-> fav]

\* Away from every level, on the entry, at the first target, at the last
\* target, at the stop, at the stop and the target.
AllShapes == {Shape(3, 3), Shape(2, 3), Shape(2, 4), Shape(3, 6), Shape(0, 2), Shape(0, 6)}

FewShapes == {Shape(3, 3), Shape(3, 6)}

Symmetry == Permutations(Runs)

=============================================================================
