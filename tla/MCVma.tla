------------------------------- MODULE MCVma --------------------------------
(* Three user pages of two units, the last one the stack, with the kernel in  *)
(* the other half of a table of two entries: a page of code, one of data.    *)
EXTENDS Vma

KernelSections == << <<8, 40, 2, "x">>, <<10, 41, 2, "w">> >>

Programs == {<<>>, << <<0, 2>> >>}
=============================================================================
