----------------------------- MODULE SseStream -----------------------------
(***************************************************************************)
(* What a server-sent-events route promises its client, apart from the     *)
(* channel and the two goroutines that serve it: the messages of the logic *)
(* reach the client in the order they were sent; one that does not marshal *)
(* is left out and the next one follows; a stream that ends because the    *)
(* logic has ended left nothing behind; and only a stream whose client has *)
(* gone may stop with messages still pending.                              *)
(***************************************************************************)
EXTENDS Sequences

CONSTANT Message

VARIABLES pending,    \* messages sent and not yet delivered
          delivered,  \* messages the client was sent, oldest first
          bad,        \* messages that do not marshal
          stream      \* "open", "ended" (all delivered) or "broken"

streamVars == <<pending, delivered, bad, stream>>

StreamInit == /\ pending = <<>>
              /\ delivered = <<>>
              /\ bad \in SUBSET Message
              /\ stream = "open"

\* The logic sends a message. It may do so after the stream has stopped: it
\* cannot know.
Submit == /\ \E m \in Message : pending' = Append(pending, m)
          /\ UNCHANGED <<delivered, bad, stream>>

Deliver == /\ stream = "open"
           /\ pending # <<>>
           /\ Head(pending) \notin bad
           /\ delivered' = Append(delivered, Head(pending))
           /\ pending' = Tail(pending)
           /\ UNCHANGED <<bad, stream>>

LeaveOut == /\ stream = "open"
            /\ pending # <<>>
            /\ Head(pending) \in bad
            /\ pending' = Tail(pending)
            /\ UNCHANGED <<delivered, bad, stream>>

End == /\ stream = "open"
       /\ pending = <<>>
       /\ stream' = "ended"
       /\ UNCHANGED <<pending, delivered, bad>>

\* The request was refused, or the client has gone.
Break == /\ stream = "open"
         /\ stream' = "broken"
         /\ UNCHANGED <<pending, delivered, bad>>

StreamNext == Submit \/ Deliver \/ LeaveOut \/ End \/ Break

StreamSpec == StreamInit /\ [][StreamNext]_streamVars
=============================================================================
