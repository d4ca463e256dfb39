--------------------------- MODULE QuantumMPIFifo ---------------------------
(***************************************************************************)
(* The mailbox of QuantumMPI implements FifoChannels.  One vector holds    *)
(* the messages of all channels, interleaved as they arrived, and a recv   *)
(* erases from its middle: the queue of a channel is what is left of it    *)
(* there, in the order of arrival.                                         *)
(***************************************************************************)
EXTENDS QuantumMPI, Sequences

\* The i-th of a set of messages, in the order of arrival.
Nth(ms, i) == CHOOSE m \in ms : Cardinality({x \in ms : x.at <= m.at}) = i

InOrder(ms) == [i \in 1 .. Cardinality(ms) |-> Nth(ms, i).payload]

Queued == [c \in Channel |-> InOrder({m \in mailbox : ChannelOf(m) = c})]

Abstract == INSTANCE FifoChannels
  WITH chan <- Queued, End <- Rank, Label <- Tag, Value <- Payload

(***************************************************************************)
(* Every step of the code is a Put, a Take of the oldest value, a Clear or *)
(* invisible: whatever is interleaved in the vector, messages of one       *)
(* sender, receiver and tag are received in the order sent, once each.     *)
(***************************************************************************)
ImplementsFifo == Abstract!Spec

=============================================================================
