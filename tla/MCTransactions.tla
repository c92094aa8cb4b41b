--------------------------- MODULE MCTransactions ---------------------------
(* Two transactions on two snapshots.                                      *)
EXTENDS Transactions

CONSTANTS t1, t2, p1, p2

MCTx == {t1, t2}
MCPins == {p1, p2}

(* The snapshots are interchangeable: the first transaction is on p1.      *)
MCInit == Init /\ pin[t1] = p1
MCSpec == MCInit /\ [][Next]_vars /\ Fairness
=============================================================================
