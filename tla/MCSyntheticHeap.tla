--------------------------- MODULE MCSyntheticHeap ---------------------------
(* Sizes around every boundary of allocate: nothing, more than one unit, the    *)
(* whole heap, one byte more, the largest size that does not wrap and the first *)
(* that does; products of them saturate to the largest word.                    *)
EXTENDS SyntheticHeap

MCWords == {0, 17, HeapSize - Reserve, HeapSize + 1, Modulus - 16, Modulus - 15}
=============================================================================
