----------------------------- MODULE SseHandler -----------------------------
(***************************************************************************)
(* The handler that sse_handler.tpl generates for a route with "sse: true".*)
(* The handler goroutine makes a buffered channel, starts the logic in a   *)
(* second goroutine and writes what the logic sends, until the channel is  *)
(* closed, a write fails or the request is done. The logic itself is the   *)
(* user's code: it may send, end, panic, and may or may not watch the      *)
(* context of the request (watches). The server and the client are         *)
(* external: the client may go at any time, the server then cancels the    *)
(* context, and it also does so when the handler has returned.             *)
(***************************************************************************)
EXTENDS Naturals, Sequences

CONSTANTS Capacity,   \* of the channel (16 in the template)
          MaxSent     \* bound: messages the logic sends

ASSUME SseAssumption ==
    Capacity \in Nat \ {0} /\ MaxSent \in Nat

VARIABLES handler,    \* "parse", "select", "write" or "left"
          why,        \* how the handler left: "none", "refused", "closed", "done", "failed"
          logic,      \* "none", "runs", "sends" (at client <- message) or "ended"
          buffer,     \* messages in the channel client
          closed,     \* the channel is closed
          hand,       \* the message the handler has received, a sequence of at most one
          sent,       \* messages the logic has sent, which are 1 .. sent
          written,    \* messages written to the client, oldest first
          cancelled,  \* r.Context() is done
          connected,  \* the client is there
          bad,        \* messages that json.Marshal refuses
          watches     \* the logic selects on ctx.Done() when it sends

handlerVars == <<handler, why, hand, written>>
logicVars == <<logic, sent, closed>>
outside == <<cancelled, connected>>
chosen == <<bad, watches>>
vars == <<handlerVars, logicVars, buffer, outside, chosen>>

Init == /\ handler = "parse" /\ why = "none" /\ hand = <<>> /\ written = <<>>
        /\ logic = "none" /\ sent = 0 /\ closed = FALSE
        /\ buffer = <<>>
        /\ cancelled = FALSE /\ connected = TRUE
        /\ bad \in SUBSET (1 .. MaxSent)
        /\ watches \in BOOLEAN
-----------------------------------------------------------------------------
(* The handler goroutine.                                                  *)

Leave(reason) == handler' = "left" /\ why' = reason

\* httpx.Parse refuses the request.
Refuse == /\ handler = "parse"
          /\ Leave("refused")
          /\ UNCHANGED <<hand, written, logicVars, buffer, outside, chosen>>

Start == /\ handler = "parse"
         /\ handler' = "select"
         /\ logic' = "runs"
         /\ UNCHANGED <<why, hand, written, sent, closed, buffer, outside, chosen>>

Receive == /\ handler = "select"
           /\ buffer # <<>>
           /\ hand' = <<Head(buffer)>>
           /\ buffer' = Tail(buffer)
           /\ handler' = "write"
           /\ UNCHANGED <<why, written, logicVars, outside, chosen>>

\* Mutation: the handler goes by the close and forgets what is buffered.
ReceiveClosedEarly == /\ handler = "select"
                      /\ closed
                      /\ Leave("closed")
                      /\ UNCHANGED <<hand, written, logicVars, buffer, outside, chosen>>

\* A closed channel hands out what it still holds before it reports !ok.
ReceiveClosed == /\ handler = "select"
                 /\ closed /\ buffer = <<>>
                 /\ Leave("closed")
                 /\ UNCHANGED <<hand, written, logicVars, buffer, outside, chosen>>

\* Mutation: a message that does not marshal leaves the loop.
MarshalFailsReturns == /\ handler = "write"
                       /\ hand[1] \in bad
                       /\ hand' = <<>>
                       /\ Leave("closed")
                       /\ UNCHANGED <<written, logicVars, buffer, outside, chosen>>

MarshalFails == /\ handler = "write"
                /\ hand[1] \in bad
                /\ hand' = <<>>
                /\ handler' = "select"
                /\ UNCHANGED <<why, written, logicVars, buffer, outside, chosen>>

\* Mutation: a write is retried although it went through.
WriteTwice == /\ handler = "write"
              /\ hand[1] \notin bad
              /\ written' = written \o <<hand[1], hand[1]>>
              /\ hand' = <<>>
              /\ handler' = "select"
              /\ UNCHANGED <<why, logicVars, buffer, outside, chosen>>

\* The write and the flush may succeed for some time after the client left.
Write == /\ handler = "write"
         /\ hand[1] \notin bad
         /\ written' = Append(written, hand[1])
         /\ hand' = <<>>
         /\ handler' = "select"
         /\ UNCHANGED <<why, logicVars, buffer, outside, chosen>>

WriteFails == /\ handler = "write"
              /\ hand[1] \notin bad
              /\ ~connected
              /\ Leave("failed")
              /\ UNCHANGED <<hand, written, logicVars, buffer, outside, chosen>>

\* Mutation: the select has no case for r.Context().Done().
LeaveDoneNever == FALSE /\ UNCHANGED vars

LeaveDone == /\ handler = "select"
             /\ cancelled
             /\ Leave("done")
             /\ UNCHANGED <<hand, written, logicVars, buffer, outside, chosen>>

HandlerStep == Refuse \/ Start \/ Receive \/ ReceiveClosed \/ MarshalFails
                 \/ Write \/ WriteFails \/ LeaveDone
-----------------------------------------------------------------------------
(* The goroutine of the logic.                                             *)

\* The logic comes to a send, which blocks while the channel is full.
LogicCallsSend == /\ logic = "runs"
                  /\ sent < MaxSent
                  /\ logic' = "sends"
                  /\ UNCHANGED <<handlerVars, sent, closed, buffer, outside, chosen>>

LogicSend == /\ logic = "sends"
             /\ Len(buffer) < Capacity
             /\ logic' = "runs"
             /\ sent' = sent + 1
             /\ buffer' = Append(buffer, sent + 1)
             /\ UNCHANGED <<handlerVars, closed, outside, chosen>>

\* Mutation: client is closed after the call, not by a deferred call, so a
\* logic that panics leaves it open.
LogicEndOpen == /\ logic = "runs"
                /\ logic' = "ended"
                /\ closed' \in BOOLEAN
                /\ UNCHANGED <<handlerVars, sent, buffer, outside, chosen>>

\* The logic returns, with an error or without, or panics: the deferred
\* close runs in each case.
LogicEnd == /\ logic = "runs"
            /\ logic' = "ended"
            /\ closed' = TRUE
            /\ UNCHANGED <<handlerVars, sent, buffer, outside, chosen>>

\* Mutation: the context is not passed to the logic.
LogicGivesUpNever == FALSE /\ UNCHANGED vars

\* A logic that watches the context returns from a send it cannot complete.
LogicGivesUp == /\ logic = "sends"
                /\ watches /\ cancelled
                /\ logic' = "ended"
                /\ closed' = TRUE
                /\ UNCHANGED <<handlerVars, sent, buffer, outside, chosen>>

LogicStep == LogicCallsSend \/ LogicSend \/ LogicEnd \/ LogicGivesUp
-----------------------------------------------------------------------------
(* The server and the client.                                              *)

ClientGoes == /\ connected
              /\ connected' = FALSE
              /\ UNCHANGED <<handlerVars, logicVars, buffer, cancelled, chosen>>

ServerCancels == /\ ~cancelled
                 /\ ~connected \/ handler = "left"
                 /\ cancelled' = TRUE
                 /\ UNCHANGED <<handlerVars, logicVars, buffer, connected, chosen>>

\* The stream is over; a logic blocked in a send may be left behind.
Over == /\ handler = "left" /\ cancelled
        /\ \/ logic \in {"none", "ended"}
           \/ logic = "sends" /\ Len(buffer) = Capacity /\ ~watches
        /\ UNCHANGED vars

Next == HandlerStep \/ LogicStep \/ ClientGoes \/ ServerCancels \/ Over

Spec == Init /\ [][Next]_vars

\* The scheduler runs every goroutine that can run, a write ends, and the
\* server notices that a client has gone. Nothing makes the logic go on.
Fairness == WF_vars(HandlerStep) /\ WF_vars(ServerCancels)

FairSpec == Spec /\ Fairness

\* The logic goes on too: it sends, ends, or gives up if it watches.
LogicGoesOn == WF_vars(LogicStep)
-----------------------------------------------------------------------------
TypeOK ==
    /\ handler \in {"parse", "select", "write", "left"}
    /\ why \in {"none", "refused", "closed", "done", "failed"}
    /\ logic \in {"none", "runs", "sends", "ended"}
    /\ buffer \in Seq(Nat) /\ Len(buffer) <= Capacity
    /\ hand \in Seq(Nat) /\ Len(hand) <= 1
    /\ written \in Seq(Nat)
    /\ sent \in 0 .. MaxSent
    /\ closed \in BOOLEAN /\ cancelled \in BOOLEAN
    /\ connected \in BOOLEAN /\ watches \in BOOLEAN
    /\ bad \subseteq 1 .. MaxSent

\* The messages the handler has taken from the channel and dealt with.
Handled == 1 .. sent - Len(buffer) - Len(hand)

\* What the handler has received and what the channel still holds is what the
\* logic has sent, in that order: nothing is lost, repeated or overtaken.
ChannelOrder ==
    /\ \A i \in 1 .. Len(buffer) : buffer[i] = sent - Len(buffer) + i
    /\ hand # <<>> => hand[1] = sent - Len(buffer)

\* The client gets exactly the messages handled so far that marshal, in the
\* order the logic sent them.
WrittenInOrder ==
    /\ \A i, j \in 1 .. Len(written) : i < j => written[i] < written[j]
    /\ {written[i] : i \in 1 .. Len(written)} = Handled \ bad

\* A stream that ends with the close of the channel has delivered everything
\* the logic sent before it ended, also when the logic ended with a full
\* channel or panicked.
ClosedDeliversAll ==
    why = "closed" => /\ logic = "ended"
                      /\ {written[i] : i \in 1 .. Len(written)} = (1 .. sent) \ bad

\* Once the context is done the handler returns, whatever the logic does; and a
\* logic that has ended, by a panic too, lets it return.
HandlerLeaves == /\ cancelled ~> handler = "left"
                 /\ logic = "ended" ~> handler = "left"

\* The goroutine of a logic that goes on is left behind for good only in a send
\* on a full channel, and only if it does not watch the context.
LeakOnlyWhenFull ==
    LogicGoesOn /\ <>[](handler = "left" /\ logic \in {"runs", "sends"})
        => <>[](logic = "sends" /\ Len(buffer) = Capacity /\ ~watches)

\* The generated handler keeps the promise of the route.
Promise == INSTANCE SseStream WITH
    Message <- 1 .. MaxSent,
    pending <- hand \o buffer, delivered <- written, bad <- bad,
    stream <- CASE why = "none" -> "open" [] why = "closed" -> "ended" [] OTHER -> "broken"

ImplementsStream == Promise!StreamSpec
=============================================================================
