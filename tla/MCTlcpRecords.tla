--------------------------- MODULE MCTlcpRecords ---------------------------
(***************************************************************************)
(* Cipher blocks of two bytes, MACs of two blocks as in the code, plain-   *)
(* texts of up to four bytes whose bytes look like padding, pad lengths    *)
(* that reach over two blocks.  The client sends two records.              *)
(***************************************************************************)
EXTENDS TlcpRecords

MCPayloads == {<<>>, <<Byte(1)>>, [k \in 1..4 |-> Byte(3)], [k \in 1..5 |-> Byte(0)]}
MCRecords == [client |-> 2, server |-> 1]
MCJunk == {<<Byte(1), Byte(1)>>, <<Byte(3), Byte(1)>>, <<Byte(1), Byte(0)>>}
=============================================================================
