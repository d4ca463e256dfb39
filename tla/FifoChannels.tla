---------------------------- MODULE FifoChannels ----------------------------
(***************************************************************************)
(* What the mailbox promises: one queue per sender, receiver and tag, that *)
(* keeps its values in order and gives each of them once.  Nothing is lost *)
(* but by Clear, when one end leaves.                                      *)
(***************************************************************************)
EXTENDS Naturals, Sequences

CONSTANTS
  End,    \* the ends of the channels
  Label,  \* the labels that tell apart the channels between the same two ends
  Value   \* what is sent

VARIABLE chan

Line == End \X End \X Label

Init == chan = [c \in Line |-> << >>]

Newest(s) == s[Len(s)]

\* Any value of the set Value, which may be infinite, arrives on c.
Put(c) ==
  /\ Len(chan'[c]) = Len(chan[c]) + 1
  /\ Newest(chan'[c]) \in Value
  /\ chan' = [chan EXCEPT ![c] = Append(@, Newest(chan'[c]))]

Take(c) ==
  /\ chan[c] # << >>
  /\ Len(chan'[c]) = Len(chan[c]) - 1
  /\ chan' = [chan EXCEPT ![c] = Tail(@)]

Clear(e) ==
  chan' = [c \in Line |-> IF c[1] = e \/ c[2] = e THEN << >> ELSE chan[c]]

Next ==
  \/ \E c \in Line : Take(c) \/ Put(c)
  \/ \E e \in End : Clear(e)

Spec == Init /\ [][Next]_chan

=============================================================================
