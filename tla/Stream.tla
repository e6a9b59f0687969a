-------------------------------- MODULE Stream --------------------------------
(***************************************************************************)
(* What GET /ws promises its clients: the events of one execution, one     *)
(* after the other and without a gap as long as the subscription's buffer  *)
(* was never full, and nothing any more once the stream has ended.         *)
(***************************************************************************)
EXTENDS Naturals, Sequences

CONSTANTS
  Clients,
  Events   \* the events of an execution, a set of numbers

VARIABLES
  sent,   \* client -> numbers of the events sent to it
  lossy,  \* the clients for which an event was dropped
  ended   \* the clients whose stream has ended

vars == <<sent, lossy, ended>>

Init ==
  /\ sent = [c \in Clients |-> <<>>]
  /\ lossy = {} /\ ended = {}

Send(c, n) ==
  /\ c \notin ended
  /\ sent[c] # <<>> =>
       LET previous == sent[c][Len(sent[c])] IN
       IF c \in lossy THEN n > previous ELSE n = previous + 1
  /\ sent' = [sent EXCEPT ![c] = Append(@, n)]
  /\ UNCHANGED <<lossy, ended>>

Lose(c) == lossy' = lossy \cup {c} /\ UNCHANGED <<sent, ended>>

End(c) == ended' = ended \cup {c} /\ UNCHANGED <<sent, lossy>>

Next == \E c \in Clients : (\E n \in Events : Send(c, n)) \/ Lose(c) \/ End(c)

Spec == Init /\ [][Next]_vars
==============================================================================
