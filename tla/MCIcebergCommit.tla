--------------------------- MODULE MCIcebergCommit --------------------------
(* Instances of IcebergCommit.  The transactions tx1 and tx2 cover both    *)
(* tables, the commits key1 and key2 the first one.  A mix is a commit     *)
(* with its retry and a transaction, a transaction with its retry and      *)
(* another, or a commit with its retry and another commit.                 *)
EXTENDS IcebergCommit

CONSTANTS c1, c2, c3, key1, key2, tx1, tx2

Two == {1, 2}
One == {1}

WithTxs    == {c1 :> key1 @@ c2 :> key1 @@ c3 :> tx1, c1 :> tx1 @@ c2 :> tx1 @@ c3 :> tx2}
TxsTables  == key1 :> {1} @@ tx1 :> {1, 2} @@ tx2 :> {1, 2}

Commits       == {c1 :> key1 @@ c2 :> key1 @@ c3 :> key2}
CommitsTables == key1 :> {1} @@ key2 :> {1}
=============================================================================
