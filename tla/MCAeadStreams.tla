---------------------------- MODULE MCAeadStreams ----------------------------
(* Blocks of three bits.  GCM's counter starts two short of its wrap, and  *)
(* both ceilings are six bytes, two blocks, so that a stream can fill its  *)
(* ceiling exactly, miss it by one, or be four over, where a fourth block  *)
(* of GCM keystream would be the tag's mask.                               *)
EXTENDS AeadStreams

MCPayloads == {[i \in 1..10 |-> 0], [i \in 1..10 |-> (i \div 2) % 2]}

MCKs == [c \in 0..6 |-> <<c % 2, (c \div 2) % 2, (c \div 4) % 2>>]

(* One associated datum, and two that zero-padding confuses with it. *)
MCSenderAad == <<0>>
MCReceiverAads == {<<>>, <<0>>, <<0, 0>>}
=============================================================================
