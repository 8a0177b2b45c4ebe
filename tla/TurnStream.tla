----------------------------- MODULE TurnStream -----------------------------
(***************************************************************************)
(* What the kiosk (kiosk/voiceTurnProtocol.js) relies on when it reads the *)
(* events of a voice turn: they are only ever appended, nothing follows a  *)
(* terminal event, and a stream is discarded only after its end.           *)
(***************************************************************************)
EXTENDS Sequences, Naturals

CONSTANTS Turns, Events, Ends

VARIABLE stream

Ended(s) == s # <<>> /\ s[Len(s)] \in Ends

Init == stream = [t \in Turns |-> <<>>]

Emit(t, e) ==
  /\ ~Ended(stream[t])
  /\ stream' = [stream EXCEPT ![t] = Append(@, e)]

Discard(t) ==
  /\ Ended(stream[t])
  /\ stream' = [stream EXCEPT ![t] = <<>>]

Next == \E t \in Turns : Discard(t) \/ \E e \in Events : Emit(t, e)

Spec == Init /\ [][Next]_stream

=============================================================================
