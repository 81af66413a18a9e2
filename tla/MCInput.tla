------------------------------ MODULE MCInput ------------------------------
(* TLC instance of Input: a key, the same code escaped, and an escaped code *)
(* that has no key; two corners of the screen.                              *)
EXTENDS Input

MCKeys == {<<29>>, <<224, 29>>, <<224, 42>>}
MCPlaces == {<<0, 0>>, <<1, 1>>}
=============================================================================
