------------------------- MODULE MCUnicodeTokenizer -------------------------
(* An instance of UnicodeTokenizer for TLC: a character of each class. *)
EXTENDS UnicodeTokenizer

CONSTANTS a, b, han, modifier, quote, tick, dash, underscore, mark, space

\* Short texts of all classes, and longer ones for compounds of three parts.
MCTexts == BoundedSeq(Chars \ {b}, 4) \cup BoundedSeq({a, b, quote, dash}, 6)

\* Short ones, left for another when used up, half way or not at all.
MCReused == BoundedSeq({a, han, space}, 3)
=============================================================================
