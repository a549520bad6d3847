--------------------------- MODULE MCResizeStream ---------------------------
(***************************************************************************)
(* Sizes for TLC: 384x384, whose bytes are the magic prefix again, and one *)
(* that begins with its second half.                                       *)
(***************************************************************************)
EXTENDS ResizeStream

ResizeSizes == {<<"A", "B", "A", "B">>, <<"A", "B", "x", "A">>}

=============================================================================
