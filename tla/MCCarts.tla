------------------------------- MODULE MCCarts -------------------------------
(* An instance of Carts for model checking.                                  *)
EXTENDS Carts, TLC

MCOnShelf == [p \in Products |-> 1]
==============================================================================
