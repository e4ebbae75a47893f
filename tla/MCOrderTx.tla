----------------------------- MODULE MCOrderTx -----------------------------
(***************************************************************************)
(* Small instances of OrderTx for TLC.                                     *)
(***************************************************************************)
EXTENDS OrderTx, TLC

ln(p, q) == [product |-> p, quantity |-> q]

\* Both orders of the same two products, two lines of one product, a product
\* that does not exist, a total that does not fit and a quantity that
\* validation refuses.
StockCarts == {<<ln(1, 1), ln(2, 1)>>, <<ln(2, 1), ln(1, 1)>>, <<ln(1, 1), ln(1, 1)>>,
               <<ln(3, 1)>>, <<ln(1, 1), ln(1, 1), ln(1, 1)>>, <<ln(1, 0)>>}

\* Two placements of the first cart can wait for each other; the second has
\* another fingerprint and shares a product with it.
CallCarts == {<<ln(1, 1), ln(2, 1)>>, <<ln(2, 1)>>}

\* Three of product 1 cost more than 10, two do not.
Prices == [p \in Products |-> IF p = 1 THEN 5 ELSE 2]

Symmetry == Permutations(Placements) \cup Permutations(Cancels)
=============================================================================
