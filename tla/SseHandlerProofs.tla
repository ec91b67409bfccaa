-------------------------- MODULE SseHandlerProofs --------------------------
(* What the generated server-sent-events handler keeps, for channels of any  *)
(* capacity and any number of messages.                                      *)
EXTENDS SseHandler, SequenceTheorems, TLAPS

\* How far the handler and the logic have come, seen from each other.
Stages ==
    /\ handler = "write" => Len(hand) = 1
    /\ handler \in {"parse", "select"} => hand = <<>>
    /\ handler = "left" <=> why # "none"
    /\ handler = "parse" => logic = "none"
    /\ logic = "none" => handler \in {"parse", "left"} /\ sent = 0 /\ buffer = <<>> /\ why \in {"none", "refused"}
    /\ logic = "sends" => sent < MaxSent
    /\ Len(buffer) + Len(hand) <= sent
    /\ closed <=> logic = "ended"
    /\ why = "closed" => logic = "ended" /\ buffer = <<>> /\ hand = <<>>

\* The inductive invariant.
SseInv == TypeOK /\ Stages /\ ChannelOrder /\ WrittenInOrder

\* An appended message comes last and the others keep their places.
LEMMA Appended ==
    ASSUME NEW s \in Seq(Nat), NEW m \in Nat
    PROVE  /\ Append(s, m) \in Seq(Nat)
           /\ Len(Append(s, m)) = Len(s) + 1
           /\ Append(s, m)[Len(s) + 1] = m
           /\ \A i \in 1 .. Len(s) : Append(s, m)[i] = s[i]
OBVIOUS

\* The tail of a sequence has its later elements, one place earlier.
LEMMA Shifted ==
    ASSUME NEW s \in Seq(Nat), s # <<>>
    PROVE  /\ Tail(s) \in Seq(Nat)
           /\ Len(Tail(s)) = Len(s) - 1
           /\ Len(s) \in Nat \ {0}
           /\ Head(s) = s[1] /\ s[1] \in Nat
           /\ \A i \in 1 .. Len(s) - 1 : Tail(s)[i] = s[i + 1]
OBVIOUS

\* The range of a sequence grows by the message appended.
LEMMA AppendedRange ==
    ASSUME NEW s \in Seq(Nat), NEW m \in Nat
    PROVE  {Append(s, m)[i] : i \in 1 .. Len(Append(s, m))}
             = {s[i] : i \in 1 .. Len(s)} \cup {m}
BY Appended

LEMMA SseInit == ASSUME Init PROVE SseInv
<1>1. TypeOK
  <2>1. <<>> \in Seq(Nat) /\ Len(<<>>) = 0
    BY EmptySeq
  <2>2. buffer = <<>> /\ hand = <<>> /\ written = <<>>
    BY DEF Init
  <2>3. buffer \in Seq(Nat) /\ Len(buffer) <= Capacity
    BY <2>1, <2>2, SseAssumption
  <2>4. hand \in Seq(Nat) /\ Len(hand) <= 1 /\ written \in Seq(Nat)
    BY <2>1, <2>2
  <2>5. sent \in 0 .. MaxSent /\ bad \subseteq 1 .. MaxSent
    BY SseAssumption DEF Init
  <2> QED
    BY <2>3, <2>4, <2>5 DEF Init, TypeOK
<1>2. Stages /\ ChannelOrder
  BY SseAssumption DEF Init, Stages, ChannelOrder
<1>3. WrittenInOrder
  <2>1. written = <<>> /\ buffer = <<>> /\ hand = <<>> /\ sent = 0
    BY DEF Init
  <2>2. Handled = {}
    BY <2>1 DEF Handled
  <2> QED
    BY <2>1, <2>2 DEF WrittenInOrder
<1> QED
  BY <1>1, <1>2, <1>3 DEF SseInv

\* A step that moves no message keeps what is said of the messages.
LEMMA Unmoved ==
    ASSUME ChannelOrder, WrittenInOrder, UNCHANGED <<buffer, hand, sent, written, bad>>
    PROVE  ChannelOrder' /\ WrittenInOrder'
<1>1. buffer' = buffer /\ hand' = hand /\ sent' = sent /\ written' = written /\ bad' = bad
  OBVIOUS
<1>2. ChannelOrder'
  BY <1>1 DEF ChannelOrder
<1>3. Handled' = Handled
  BY <1>1 DEF Handled
<1>4. WrittenInOrder'
  BY <1>1, <1>3 DEF WrittenInOrder
<1> QED
  BY <1>2, <1>4

\* The steps of the handler that only change where it is.
LEMMA LeavingStep ==
    ASSUME SseInv, Refuse \/ Start \/ ReceiveClosed \/ WriteFails \/ LeaveDone
    PROVE  SseInv'
<1> USE SseAssumption DEF SseInv
<1>1. UNCHANGED <<buffer, hand, sent, written, bad>>
  BY DEF Refuse, Start, ReceiveClosed, WriteFails, LeaveDone, Leave, logicVars, outside, chosen
<1>2. TypeOK'
  <2>1. TypeOK
    OBVIOUS
  <2>2. /\ handler' \in {"select", "left"}
        /\ why' \in {why, "refused", "closed", "done", "failed"}
        /\ logic' \in {logic, "runs"} /\ closed' = closed
        /\ cancelled' = cancelled /\ connected' = connected /\ watches' = watches
    BY DEF Refuse, Start, ReceiveClosed, WriteFails, LeaveDone, Leave, logicVars, outside, chosen
  <2> HIDE DEF SseInv
  <2> QED
    BY <1>1, <2>1, <2>2 DEF TypeOK
<1>3. Stages'
  <2> USE DEF TypeOK, Stages
  <2>1. CASE Refuse
    BY <2>1 DEF Refuse, Leave, logicVars, outside, chosen
  <2>2. CASE Start
    BY <2>2 DEF Start, outside, chosen
  <2>3. CASE ReceiveClosed
    BY <2>3 DEF ReceiveClosed, Leave, logicVars, outside, chosen
  <2>4. CASE WriteFails \/ LeaveDone
    <3>1. /\ handler \in {"write", "select"}
          /\ handler' = "left" /\ why' \in {"failed", "done"}
          /\ logic' = logic /\ closed' = closed
          /\ sent' = sent /\ buffer' = buffer /\ hand' = hand
      BY <2>4 DEF WriteFails, LeaveDone, Leave, logicVars
    <3>2. why = "none" /\ logic # "none"
      BY <3>1
    <3> QED
      BY <3>1, <3>2
  <2> QED
    BY <2>1, <2>2, <2>3, <2>4
<1> QED
  BY <1>1, <1>2, <1>3, Unmoved

\* The steps of the logic that send nothing, and those of client and server.
LEMMA OuterStep ==
    ASSUME SseInv, LogicCallsSend \/ LogicEnd \/ LogicGivesUp \/ ClientGoes \/ ServerCancels
    PROVE  SseInv'
<1> USE SseAssumption DEF SseInv
<1>1. UNCHANGED <<buffer, hand, sent, written, bad>>
  BY DEF LogicCallsSend, LogicEnd, LogicGivesUp, ClientGoes, ServerCancels, handlerVars, logicVars, outside, chosen
<1>2. TypeOK'
  <2>1. TypeOK
    OBVIOUS
  <2>2. /\ handler' = handler /\ why' = why /\ watches' = watches
        /\ logic' \in {logic, "sends", "ended"} /\ closed' \in {closed, TRUE}
        /\ cancelled' \in {cancelled, TRUE} /\ connected' \in {connected, FALSE}
    <3>1. CASE LogicCallsSend
      BY <3>1 DEF LogicCallsSend, handlerVars, outside, chosen
    <3>2. CASE LogicEnd
      BY <3>2 DEF LogicEnd, handlerVars, outside, chosen
    <3>3. CASE LogicGivesUp
      BY <3>3 DEF LogicGivesUp, handlerVars, outside, chosen
    <3>4. CASE ClientGoes
      BY <3>4 DEF ClientGoes, handlerVars, logicVars, chosen
    <3>5. CASE ServerCancels
      BY <3>5 DEF ServerCancels, handlerVars, logicVars, chosen
    <3> QED
      BY <3>1, <3>2, <3>3, <3>4, <3>5
  <2>3. /\ closed' \in BOOLEAN /\ cancelled' \in BOOLEAN /\ connected' \in BOOLEAN
        /\ logic' \in {"none", "runs", "sends", "ended"}
    BY <2>1, <2>2 DEF TypeOK
  <2> HIDE DEF SseInv
  <2> QED
    BY <1>1, <2>1, <2>2, <2>3 DEF TypeOK
<1>3. Stages'
  BY DEF LogicCallsSend, LogicEnd, LogicGivesUp, ClientGoes, ServerCancels, handlerVars, logicVars, outside, chosen, TypeOK, Stages
<1> QED
  BY <1>1, <1>2, <1>3, Unmoved

LEMMA ReceiveStep == ASSUME SseInv, Receive PROVE SseInv'
<1> USE SseAssumption DEF SseInv
<1>1. /\ buffer # <<>> /\ hand = <<>> /\ handler = "select"
      /\ hand' = <<Head(buffer)>> /\ buffer' = Tail(buffer) /\ handler' = "write"
      /\ UNCHANGED <<why, written, logic, sent, closed, cancelled, connected, bad, watches>>
  BY DEF Receive, Stages, logicVars, outside, chosen
<1>2. /\ buffer' \in Seq(Nat) /\ Len(buffer') = Len(buffer) - 1 /\ Len(buffer) \in Nat \ {0}
      /\ Head(buffer) = buffer[1] /\ buffer[1] \in Nat
      /\ \A i \in 1 .. Len(buffer) - 1 : buffer'[i] = buffer[i + 1]
  BY <1>1, Shifted DEF TypeOK
<1>3. hand' \in Seq(Nat) /\ Len(hand') = 1 /\ hand'[1] = buffer[1] /\ Len(hand) = 0
  BY <1>1, <1>2
<1>4. TypeOK'
  BY <1>1, <1>2, <1>3 DEF TypeOK
<1>5. Stages'
  BY <1>1, <1>3 DEF TypeOK, Stages
<1>6. ChannelOrder'
  BY <1>1, <1>2, <1>3 DEF TypeOK, ChannelOrder
<1>7. Handled' = Handled
  BY <1>1, <1>2, <1>3 DEF TypeOK, Handled
<1>8. WrittenInOrder'
  BY <1>1, <1>7 DEF WrittenInOrder
<1> QED
  BY <1>4, <1>5, <1>6, <1>8

\* Once its message is dealt with the handler has dealt with one more.
LEMMA HandedOver ==
    ASSUME SseInv, handler = "write", hand' = <<>>, UNCHANGED <<buffer, sent>>
    PROVE  /\ Handled' = Handled \cup {hand[1]}
           /\ \A m \in Handled : m < hand[1]
           /\ hand[1] \in Nat
<1>1. sent \in Nat /\ Len(buffer) \in Nat /\ buffer' = buffer /\ sent' = sent
  BY SseAssumption DEF SseInv, TypeOK
<1>2. Len(hand) = 1 /\ Len(hand') = 0
  BY DEF SseInv, Stages
<1>3. hand # <<>>
  BY <1>2
<1>4. hand[1] = sent - Len(buffer)
  BY <1>3 DEF SseInv, ChannelOrder
<1>5. hand[1] \in Nat /\ hand[1] >= 1
  BY <1>1, <1>2, <1>4 DEF SseInv, Stages
<1>6. Handled = 1 .. hand[1] - 1
  BY <1>1, <1>2, <1>4 DEF Handled
<1>7. Handled' = 1 .. hand[1]
  BY <1>1, <1>2, <1>4 DEF Handled
<1> QED
  BY <1>5, <1>6, <1>7

\* A message that was written, or one that does not marshal, is dealt with.
LEMMA MarshalFailsStep == ASSUME SseInv, MarshalFails PROVE SseInv'
<1> USE SseAssumption DEF SseInv
<1>1. /\ handler = "write" /\ hand[1] \in bad
      /\ hand' = <<>> /\ handler' = "select"
      /\ UNCHANGED <<why, written, logic, sent, closed, buffer, cancelled, connected, bad, watches>>
  BY DEF MarshalFails, logicVars, outside, chosen
<1>2. hand' \in Seq(Nat) /\ Len(hand') = 0 /\ Len(hand) = 1
  BY <1>1, EmptySeq DEF Stages
<1>3. TypeOK'
  BY <1>1, <1>2 DEF TypeOK
<1>4. Stages'
  BY <1>1, <1>2 DEF TypeOK, Stages
<1>5. ChannelOrder'
  BY <1>1 DEF ChannelOrder
<1>6. WrittenInOrder'
  BY <1>1, HandedOver DEF WrittenInOrder
<1> QED
  BY <1>3, <1>4, <1>5, <1>6

LEMMA WriteStep == ASSUME SseInv, Write PROVE SseInv'
<1> USE SseAssumption DEF SseInv
<1>1. /\ handler = "write" /\ hand[1] \notin bad
      /\ hand' = <<>> /\ handler' = "select" /\ written' = Append(written, hand[1])
      /\ UNCHANGED <<why, logic, sent, closed, buffer, cancelled, connected, bad, watches>>
  BY DEF Write, logicVars, outside, chosen
<1>2. hand' \in Seq(Nat) /\ Len(hand') = 0 /\ Len(hand) = 1
  BY <1>1, EmptySeq DEF Stages
<1>3. /\ Handled' = Handled \cup {hand[1]}
      /\ \A m \in Handled : m < hand[1]
      /\ hand[1] \in Nat
  BY <1>1, HandedOver
<1>4. TypeOK'
  BY <1>1, <1>2, <1>3, Appended DEF TypeOK
<1>5. Stages'
  BY <1>1, <1>2 DEF TypeOK, Stages
<1>6. ChannelOrder'
  BY <1>1 DEF ChannelOrder
<1>7. \A i \in 1 .. Len(written) : written[i] \in Handled
  BY DEF WrittenInOrder
<1>8. ASSUME NEW i \in 1 .. Len(written'), NEW j \in 1 .. Len(written'), i < j
      PROVE  written'[i] < written'[j]
  <2>1. written \in Seq(Nat)
    BY DEF TypeOK
  <2>2. /\ Len(written') = Len(written) + 1 /\ Len(written) \in Nat
        /\ written'[Len(written) + 1] = hand[1]
        /\ \A k \in 1 .. Len(written) : written'[k] = written[k]
    BY <1>1, <1>3, <2>1, Appended
  <2>3. i \in 1 .. Len(written) /\ written'[i] = written[i]
    BY <1>8, <2>2
  <2>4. CASE j = Len(written) + 1
    BY <1>3, <1>7, <2>2, <2>3, <2>4
  <2>5. CASE j \in 1 .. Len(written)
    BY <1>8, <2>2, <2>3, <2>5 DEF WrittenInOrder
  <2> QED
    BY <1>8, <2>2, <2>4, <2>5
<1>9. {written'[i] : i \in 1 .. Len(written')} = Handled' \ bad'
  <2>1. {written'[i] : i \in 1 .. Len(written')} = {written[i] : i \in 1 .. Len(written)} \cup {hand[1]}
    <3>1. written \in Seq(Nat) /\ hand[1] \in Nat
      BY <1>3 DEF TypeOK
    <3>2. {Append(written, hand[1])[i] : i \in 1 .. Len(Append(written, hand[1]))}
            = {written[i] : i \in 1 .. Len(written)} \cup {hand[1]}
      BY <3>1, AppendedRange
    <3> QED
      BY <1>1, <3>2, Zenon
  <2>2. {written[i] : i \in 1 .. Len(written)} = Handled \ bad
    BY DEF WrittenInOrder
  <2> QED
    BY <1>1, <1>3, <2>1, <2>2
<1>10. WrittenInOrder'
  BY <1>8, <1>9 DEF WrittenInOrder
<1> QED
  BY <1>4, <1>5, <1>6, <1>10

LEMMA LogicSendStep == ASSUME SseInv, LogicSend PROVE SseInv'
<1> USE SseAssumption DEF SseInv
<1>1. /\ logic = "sends" /\ Len(buffer) < Capacity
      /\ logic' = "runs" /\ sent' = sent + 1 /\ buffer' = Append(buffer, sent + 1)
      /\ UNCHANGED <<handler, why, hand, written, closed, cancelled, connected, bad, watches>>
  BY DEF LogicSend, handlerVars, outside, chosen
<1>2. /\ buffer' \in Seq(Nat) /\ Len(buffer') = Len(buffer) + 1
      /\ buffer'[Len(buffer) + 1] = sent + 1
      /\ \A i \in 1 .. Len(buffer) : buffer'[i] = buffer[i]
      /\ Len(buffer) \in Nat /\ sent \in Nat /\ sent < MaxSent
  BY <1>1, Appended DEF TypeOK, Stages
<1>3. TypeOK'
  BY <1>1, <1>2 DEF TypeOK
<1>4. Stages'
  BY <1>1, <1>2 DEF TypeOK, Stages
<1>5. ChannelOrder'
  <2>1. sent' - Len(buffer') = sent - Len(buffer)
    BY <1>1, <1>2
  <2>2. \A i \in 1 .. Len(buffer) : buffer'[i] = sent' - Len(buffer') + i
    BY <1>2, <2>1 DEF ChannelOrder
  <2>3. buffer'[Len(buffer')] = sent' - Len(buffer') + Len(buffer')
    BY <1>1, <1>2
  <2>4. \A i \in 1 .. Len(buffer') : i \in 1 .. Len(buffer) \/ i = Len(buffer')
    BY <1>2
  <2>5. hand' # <<>> => hand'[1] = sent' - Len(buffer')
    BY <1>1, <2>1 DEF ChannelOrder
  <2> QED
    BY <2>2, <2>3, <2>4, <2>5 DEF ChannelOrder
<1>6. Handled' = Handled
  BY <1>1, <1>2 DEF TypeOK, Handled
<1>7. WrittenInOrder'
  BY <1>1, <1>6 DEF WrittenInOrder
<1> QED
  BY <1>3, <1>4, <1>5, <1>7

LEMMA SseNext == ASSUME SseInv, [Next]_vars PROVE SseInv'
<1>1. CASE UNCHANGED vars
  <2>1. UNCHANGED <<buffer, hand, sent, written, bad>> /\ UNCHANGED <<handler, why, logic, closed>>
        /\ UNCHANGED <<cancelled, connected, watches>>
    BY <1>1 DEF vars, handlerVars, logicVars, outside, chosen
  <2>2. TypeOK'
    BY <2>1 DEF SseInv, TypeOK
  <2>3. Stages'
    BY <2>1 DEF SseInv, Stages
  <2> QED
    BY <2>1, <2>2, <2>3, Unmoved DEF SseInv
<1> QED
  BY <1>1, ReceiveStep, LeavingStep, OuterStep, MarshalFailsStep, WriteStep, LogicSendStep
     DEF Next, HandlerStep, LogicStep, Over

\* The messages keep their order: what the handler has taken and what the
\* channel holds is what the logic sent, and the client is written exactly the
\* messages dealt with that marshal.
THEOREM SseOrder == Spec => [](TypeOK /\ ChannelOrder /\ WrittenInOrder)
<1>1. SseInv /\ [Next]_vars => SseInv'
  BY SseNext
<1>2. SseInv => TypeOK /\ ChannelOrder /\ WrittenInOrder
  BY DEF SseInv
<1> QED
  BY SseInit, <1>1, <1>2, PTL DEF Spec

\* A handler that leaves because the channel is closed has written every
\* message the logic sent that marshals.
THEOREM SseClosedDelivers == Spec => []ClosedDeliversAll
<1>1. SseInv /\ [Next]_vars => SseInv'
  BY SseNext
<1>2. SseInv => ClosedDeliversAll
  <2> SUFFICES ASSUME SseInv, why = "closed" PROVE ClosedDeliversAll
    BY DEF ClosedDeliversAll
  <2>1. logic = "ended" /\ Len(buffer) = 0 /\ Len(hand) = 0
    BY EmptySeq DEF SseInv, Stages
  <2>2. Handled = 1 .. sent
    BY <2>1, SseAssumption DEF SseInv, TypeOK, Handled
  <2> QED
    BY <2>1, <2>2 DEF SseInv, WrittenInOrder, ClosedDeliversAll
<1> QED
  BY SseInit, <1>1, <1>2, PTL DEF Spec
-----------------------------------------------------------------------------
(* The handler implements SseStream.                                         *)

\* A message in hand stands before those in the channel.
LEMMA InHand ==
    ASSUME NEW h \in Seq(Nat), NEW b \in Seq(Nat), Len(h) = 1
    PROVE  h \o b # <<>> /\ Head(h \o b) = h[1] /\ Tail(h \o b) = b
<1>1. h \o b \in Seq(Nat) /\ Len(h \o b) = 1 + Len(b) /\ Len(b) \in Nat
  <2>1. h \o b \in Seq(Nat) /\ Len(h \o b) = Len(h) + Len(b)
    BY ConcatProperties
  <2> QED
    BY <2>1, LenProperties
<1>2. /\ (h \o b)[1] = h[1]
      /\ \A i \in 1 .. Len(b) : (h \o b)[i + 1] = b[i]
  BY <1>1, ConcatProperties
<1>3. h \o b # <<>>
  BY <1>1, EmptySeq
<1>4. Tail(h \o b) \in Seq(Nat) /\ Len(Tail(h \o b)) = Len(b)
  BY <1>1, <1>3, Shifted
<1>5. \A i \in 1 .. Len(b) : Tail(h \o b)[i] = b[i]
  BY <1>1, <1>2, <1>3, Shifted
<1>6. Tail(h \o b) = b
  BY <1>4, <1>5, SeqEqual
<1>7. Head(h \o b) = h[1]
  BY <1>1, <1>2, <1>3, Shifted
<1> QED
  BY <1>3, <1>6, <1>7

\* Taking the first message into the empty hand moves nothing.
LEMMA TakenInHand ==
    ASSUME NEW b \in Seq(Nat), b # <<>>
    PROVE  <<Head(b)>> \o Tail(b) = <<>> \o b
<1>1. <<>> \o b = b
  BY ConcatEmptySeq
<1> QED
  BY <1>1, Shifted

\* A sent message comes last in the stream.
LEMMA SentLast ==
    ASSUME NEW h \in Seq(Nat), NEW b \in Seq(Nat), NEW m \in Nat
    PROVE  h \o Append(b, m) = Append(h \o b, m)
OBVIOUS

LEMMA StreamInitially == Init => Promise!StreamInit
BY ConcatEmptySeq, EmptySeq DEF Init, Promise!StreamInit

\* Every step of handler, logic, server and client is a step of the stream or
\* leaves it alone.
LEMMA StreamStep ==
    ASSUME SseInv, [Next]_vars
    PROVE  [Promise!StreamNext]_(Promise!streamVars)
<1> USE SseAssumption DEF SseInv, Promise!streamVars
<1>1. CASE Refuse \/ WriteFails \/ LeaveDone
  <2>1. /\ why = "none" /\ why' \in {"refused", "failed", "done"}
        /\ UNCHANGED <<hand, buffer, written, bad>>
    BY <1>1 DEF Refuse, WriteFails, LeaveDone, Leave, logicVars, outside, chosen, Stages
  <2> QED
    BY <2>1 DEF Promise!StreamNext, Promise!Break
<1>2. CASE Start \/ LogicCallsSend \/ LogicEnd \/ LogicGivesUp \/ ClientGoes \/ ServerCancels
              \/ UNCHANGED vars
  <2>1. UNCHANGED <<why, hand, buffer, written, bad>>
    BY <1>2 DEF Start, LogicCallsSend, LogicEnd, LogicGivesUp, ClientGoes, ServerCancels,
                vars, handlerVars, logicVars, outside, chosen
  <2> QED
    BY <2>1
<1>3. CASE Receive
  <2>1. /\ hand = <<>> /\ buffer # <<>> /\ hand' = <<Head(buffer)>> /\ buffer' = Tail(buffer)
        /\ UNCHANGED <<why, written, bad>>
    BY <1>3 DEF Receive, Stages, logicVars, outside, chosen
  <2>2. hand' \o buffer' = hand \o buffer
    BY <2>1, TakenInHand DEF TypeOK
  <2> QED
    BY <2>1, <2>2
<1>4. CASE ReceiveClosed
  <2>1. /\ why = "none" /\ why' = "closed" /\ hand = <<>> /\ buffer = <<>>
        /\ UNCHANGED <<hand, buffer, written, bad>>
    BY <1>4 DEF ReceiveClosed, Leave, logicVars, outside, chosen, Stages
  <2>2. hand \o buffer = <<>>
    BY <2>1, EmptySeq, ConcatEmptySeq
  <2> QED
    BY <2>1, <2>2 DEF Promise!StreamNext, Promise!End
<1>5. CASE MarshalFails \/ Write
  <2>1. /\ handler = "write" /\ hand' = <<>> /\ UNCHANGED <<why, buffer, bad>>
        /\ \/ hand[1] \in bad /\ written' = written
           \/ hand[1] \notin bad /\ written' = Append(written, hand[1])
    BY <1>5 DEF MarshalFails, Write, logicVars, outside, chosen
  <2>2. why = "none" /\ Len(hand) = 1
    BY <2>1 DEF Stages
  <2>3. /\ hand \o buffer # <<>> /\ Head(hand \o buffer) = hand[1]
        /\ hand' \o buffer' = Tail(hand \o buffer)
    BY <2>1, <2>2, InHand, ConcatEmptySeq DEF TypeOK
  <2> QED
    BY <2>1, <2>2, <2>3 DEF Promise!StreamNext, Promise!Deliver, Promise!LeaveOut
<1>6. CASE LogicSend
  <2>1. /\ buffer' = Append(buffer, sent + 1)
        /\ UNCHANGED <<why, hand, written, bad>>
    BY <1>6 DEF LogicSend, handlerVars, outside, chosen
  <2>2. sent + 1 \in 1 .. MaxSent
    BY <1>6 DEF LogicSend, TypeOK, Stages
  <2>3. hand' \o buffer' = Append(hand \o buffer, sent + 1)
    BY <2>1, <2>2, SentLast DEF TypeOK
  <2> QED
    BY <2>1, <2>2, <2>3 DEF Promise!StreamNext, Promise!Submit
<1> QED
  BY <1>1, <1>2, <1>3, <1>4, <1>5, <1>6 DEF Next, HandlerStep, LogicStep, Over

\* The generated handler implements what SseStream promises.
THEOREM SseImplementsStream == Spec => ImplementsStream
<1>1. SseInv /\ [Next]_vars => SseInv'
  BY SseNext
<1>2. SseInv /\ [Next]_vars => [Promise!StreamNext]_(Promise!streamVars)
  BY StreamStep
<1> QED
  BY SseInit, StreamInitially, <1>1, <1>2, PTL DEF Spec, ImplementsStream, Promise!StreamSpec
=============================================================================
