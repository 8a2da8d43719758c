------------------------------ MODULE MCFraming ------------------------------
(***************************************************************************)
(* Framing.tla for TLC: end "b" may be another implementation.             *)
(***************************************************************************)
EXTENDS Framing

MCMaxMessages == [a |-> 1, b |-> 2]

OtherLine == [kind |-> "other", value |-> "none"]

\* In another order, with an unknown line, with a repeated length; a length
\* that is missing, zero or too large; a type that is none.
MCForeignHeaders ==
    [a |-> {},
     b |-> {<<TypeGvariant, OtherLine, Length(1)>>,
            <<Length(MaxSize + 1), Length(1)>>,
            <<Length(0), Length(2)>>,
            <<OtherLine>>,
            <<GvariantType("none"), Length(1)>>}]
=============================================================================
