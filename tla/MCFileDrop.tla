----------------------------- MODULE MCFileDrop -----------------------------
(* Files of up to three blocks: a reading may mix two contents, and two      *)
(* readings that each mix two may agree in what is none of the three.        *)
EXTENDS FileDrop

CONSTANTS a, b    \* model values: two blocks
MCContents == {<<>>, <<a>>, <<a, a, b>>, <<a, b, a>>, <<b, a, a>>}
=============================================================================
