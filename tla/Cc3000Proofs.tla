---------------------------- MODULE Cc3000Proofs ----------------------------
(***************************************************************************)
(* Theorems about Cc3000Spi, for any number of waiting messages, sessions, *)
(* commands and collisions.                                                *)
(***************************************************************************)
EXTENDS Cc3000Spi, SequenceTheorems, TLAPS

\* Which parts of the transport can be at work together.
Sessions ==
    /\ power => open
    /\ chip # "off" => power
    /\ open => (pc = "stop" \/ ie \/ held)
    /\ ~open => pc = "idle" /\ ~ie
    /\ pc = "stop" => open /\ ~power /\ ~held /\ ~ifg
    /\ open /\ ~power /\ pc # "stop" => ~wrote /\ ~ifg /\ pc = "idle"
    /\ ~GIE => power /\ chip # "off"
    /\ ~power => ~held /\ ~awaiting

\* chip and ifg: what each state of the radio means for the handler.
Line ==
    /\ cs <=> pc \in {"spin", "send"}
    /\ power /\ chip = "off" => pc = "idle" /\ ~initialized /\ ~wrote /\ ~ifg
    /\ chip \in {"off", "up"} => ~held /\ ~awaiting
    /\ chip = "up" => ~wrote /\ pc # "return" /\ (GIE => (ifg <=> ~initialized))
    /\ chip \in {"idle", "request", "accept"} => initialized /\ wrote
    /\ ~GIE => initialized
    /\ chip = "idle" => ~ifg /\ pc # "send"
    /\ chip = "request" => outgoing # << >> /\ (pc # "send" => ifg)
    /\ chip = "accept" => pc \in {"spin", "send"}
    /\ held => awaiting /\ rx = "answer" /\ ~ie
    /\ pc \in {"assert", "spin", "send"} => ~awaiting
    /\ pc = "send" => chip # "off" /\ ~ifg

\* One answer at most is on its way, to a command that has not got it.
IsAnswer(i) == i \in 1..Len(outgoing) /\ outgoing[i] = "answer"

Answers ==
    /\ \A i \in 1..Len(outgoing) : IsAnswer(i) => awaiting /\ ~held
    /\ \A i, j \in 1..Len(outgoing) : IsAnswer(i) /\ IsAnswer(j) => i = j

IInv == TypeOK /\ Sessions /\ Line /\ Answers

-----------------------------------------------------------------------------
\* The initial states satisfy it: everything is off.
LEMMA InitHolds == Init => IInv
<1> SUFFICES ASSUME Init PROVE IInv
    OBVIOUS
<1>1. << >> \in Seq(Messages) /\ Len(outgoing) = 0
    BY DEF Init
<1>2. TypeOK
    BY <1>1 DEF Init, TypeOK
<1>3. Sessions
    BY DEF Init, Sessions, GIE
<1>5. Line
    BY DEF Init, Line, GIE
<1>4. Answers
    BY <1>1 DEF Answers, IsAnswer
<1> QED BY <1>2, <1>3, <1>4, <1>5 DEF IInv

\* Every step keeps the invariant.
LEMMA StepHolds == IInv /\ [Next]_vars => IInv'
<1> SUFFICES ASSUME IInv, [Next]_vars PROVE IInv'
    OBVIOUS
<1> USE DEF IInv, TypeOK, Sessions, Line, GIE
<1>1. CASE RadioSteps
    <2> USE <1>1 DEF RadioSteps, flags, host
    <2>1. CASE PowerUp
        BY <2>1 DEF PowerUp, Answers, IsAnswer
    <2>2. CASE NewEvent
        <3>1. /\ Append(outgoing, "event") \in Seq(Messages)
              /\ Append(outgoing, "event") # << >>
              /\ Len(Append(outgoing, "event")) = Len(outgoing) + 1
              /\ \A i \in 1..Len(outgoing) : Append(outgoing, "event")[i] = outgoing[i]
              /\ Append(outgoing, "event")[Len(outgoing) + 1] = "event"
            BY AppendProperties DEF Messages
        <3>2. TypeOK' /\ Sessions' /\ Line'
            BY <2>2, <3>1 DEF NewEvent
        <3>3. Answers'
            BY <2>2, <3>1 DEF NewEvent, Answers, IsAnswer
        <3> QED BY <3>2, <3>3
    <2>3. CASE Request
        BY <2>3 DEF Request, Answers, IsAnswer
    <2>4. CASE Accept
        BY <2>4 DEF Accept, Answers, IsAnswer
    <2> QED BY <2>1, <2>2, <2>3, <2>4
<1>2. CASE SpiOpen
    <2> USE <1>2 DEF SpiOpen, host
    <2>1. TypeOK'
        OBVIOUS
    <2>2. Sessions' /\ Line'
        OBVIOUS
    <2>3. Answers'
        BY DEF Answers, IsAnswer
    <2> QED BY <2>1, <2>2, <2>3
<1>3. CASE PowerOn
    <2> USE <1>3 DEF PowerOn, host
    <2>1. TypeOK'
        OBVIOUS
    <2>2. Sessions' /\ Line'
        OBVIOUS
    <2>3. Answers'
        BY DEF Answers, IsAnswer
    <2> QED BY <2>1, <2>2, <2>3
<1>4. CASE PowerOff
    <2> USE <1>4 DEF PowerOff, MainRuns, host
    <2>1. outgoing' \in Seq(Messages) /\ Len(outgoing') = 0
        OBVIOUS
    <2>2. TypeOK'
        BY <2>1
    <2>3. Sessions' /\ Line'
        OBVIOUS
    <2>4. Answers'
        BY <2>1 DEF Answers, IsAnswer
    <2> QED BY <2>2, <2>3, <2>4
<1>5. CASE SpiClose
    <2> USE <1>5 DEF SpiClose, MainRuns, flags, radio, host
    <2>1. TypeOK'
        OBVIOUS
    <2>2. Sessions' /\ Line'
        OBVIOUS
    <2>3. Answers'
        BY DEF Answers, IsAnswer
    <2> QED BY <2>1, <2>2, <2>3
<1>6. CASE Command
    <2> USE <1>6 DEF Command, MainRuns, Asserted, flags, radio, host
    <2>1. TypeOK'
        OBVIOUS
    <2>2. Sessions' /\ Line'
        OBVIOUS
    <2>3. Answers'
        BY DEF Answers, IsAnswer
    <2> QED BY <2>1, <2>2, <2>3
<1>7. CASE AssertCS
    <2> USE <1>7 DEF AssertCS, flags, radio, host
    <2>1. TypeOK'
        OBVIOUS
    <2>2. Sessions' /\ Line'
        OBVIOUS
    <2>3. Answers'
        BY DEF Answers, IsAnswer
    <2> QED BY <2>1, <2>2, <2>3
<1>8. CASE Acknowledged
    <2> USE <1>8 DEF Acknowledged, Asserted, flags, radio, host
    <2>1. TypeOK'
        OBVIOUS
    <2>2. Sessions' /\ Line'
        OBVIOUS
    <2>3. Answers'
        BY DEF Answers, IsAnswer
    <2> QED BY <2>1, <2>2, <2>3
<1>9. CASE Send
    <2> USE <1>9 DEF Send
    <2>1. /\ Append(outgoing, "answer") \in Seq(Messages)
          /\ Len(Append(outgoing, "answer")) = Len(outgoing) + 1
          /\ \A i \in 1..Len(outgoing) : Append(outgoing, "answer")[i] = outgoing[i]
        BY AppendProperties DEF Messages
    <2>2. TypeOK'
        BY <2>1
    <2>3. Sessions' /\ Line'
        <3>1. chip # "off" /\ power /\ initialized /\ ~ifg /\ ~held /\ open
            OBVIOUS
        <3> QED BY <3>1
    <2>4. \A i \in 1..Len(outgoing) : ~IsAnswer(i)
        BY DEF Answers
    <2>5. \A i \in 1..Len(outgoing') : IsAnswer(i)' => i = Len(outgoing')
        BY <2>1, <2>4 DEF IsAnswer
    <2>6. awaiting' /\ ~held'
        OBVIOUS
    <2> QED BY <2>2, <2>3, <2>5, <2>6 DEF Answers
<1>10. CASE WriteReturns
    <2> USE <1>10 DEF WriteReturns, flags, radio, host
    <2>1. TypeOK'
        OBVIOUS
    <2>2. Sessions' /\ Line'
        OBVIOUS
    <2>3. Answers'
        BY DEF Answers, IsAnswer
    <2> QED BY <2>1, <2>2, <2>3
<1>11. CASE ProcessSpiIRQ
    <2> USE <1>11 DEF ProcessSpiIRQ
    <2>1. CASE PowerUpNoticed
        BY <2>1 DEF PowerUpNoticed, Answers, IsAnswer
    <2>2. CASE ReadMessage
        <3> USE <2>2 DEF ReadMessage
        <3>1. chip = "request" /\ outgoing # << >> /\ power /\ open /\ wrote /\ ~held
            OBVIOUS
        <3>2. /\ Head(outgoing) \in Messages /\ Tail(outgoing) \in Seq(Messages)
              /\ Len(Tail(outgoing)) = Len(outgoing) - 1
              /\ \A i \in 1..Len(Tail(outgoing)) : Tail(outgoing)[i] = outgoing[i + 1]
            BY <3>1, HeadTailProperties
        <3>3. rx' = Head(outgoing) /\ rx' \in {"event", "answer"}
            BY <3>1, <3>2 DEF Incoming, Messages
        <3>4. outgoing' = Tail(outgoing)
            BY <3>3
        <3>5. Len(outgoing) \in Nat \ {0} /\ Head(outgoing) = outgoing[1]
            BY <3>1
        <3>6. rx' = "answer" => IsAnswer(1)
            BY <3>3, <3>5 DEF IsAnswer
        <3>7. rx' = "answer" => awaiting
            BY <3>5, <3>6 DEF Answers
        <3>8. TypeOK'
            BY <3>2, <3>3, <3>4 DEF Messages
        <3>9. Sessions' /\ Line'
            BY <3>1, <3>3, <3>7
        <3>10. \A i \in 1..Len(outgoing') : IsAnswer(i)' => IsAnswer(i + 1)
            BY <3>2, <3>4, <3>5 DEF IsAnswer
        <3>11. \A i \in 1..Len(outgoing') : i + 1 \in 1..Len(outgoing) /\ i + 1 # 1
            BY <3>2, <3>4, <3>5
        <3>12. awaiting' = awaiting /\ held' = (rx' = "answer")
            BY <3>1
        <3>13. Answers'
            BY <3>5, <3>6, <3>10, <3>11, <3>12 DEF Answers
        <3> QED BY <3>8, <3>9, <3>13
    <2> QED BY <2>1, <2>2
<1>12. CASE SpiResumeSpi
    <2> USE <1>12 DEF SpiResumeSpi, MainRuns, flags, radio
    <2>1. TypeOK'
        OBVIOUS
    <2>2. Sessions' /\ Line'
        OBVIOUS
    <2>3. Answers'
        BY DEF Answers, IsAnswer
    <2> QED BY <2>1, <2>2, <2>3
<1>13. CASE UNCHANGED vars
    <2> USE <1>13 DEF vars, flags, radio, host
    <2>1. TypeOK'
        OBVIOUS
    <2>2. Sessions' /\ Line'
        OBVIOUS
    <2>3. Answers'
        BY DEF Answers, IsAnswer
    <2> QED BY <2>1, <2>2, <2>3
<1> QED
    BY <1>1, <1>2, <1>3, <1>4, <1>5, <1>6, <1>7, <1>8, <1>9, <1>10, <1>11, <1>12, <1>13
    DEF Next, Write

\* The invariant holds throughout.
LEMMA InductiveInvariant == Spec => []IInv
BY InitHolds, StepHolds, PTL DEF Spec

\* The handler never takes the power-up notice or the acknowledgement of a
\* write for a message, nor a message for the notice.
THEOREM NoticesUnderstood == Spec => []NoticeUnderstood
<1>1. IInv => NoticeUnderstood
    BY DEF IInv, TypeOK, Sessions, Line, NoticeUnderstood, GIE
<1> QED BY <1>1, InductiveInvariant, PTL

\* No command is clocked out to a radio that has not accepted it, and each
\* first one of a session gets the timing of a first one.
THEOREM WritesAccepted == Spec => []WriteAccepted
<1>1. IInv => WriteAccepted
    BY DEF IInv, TypeOK, Sessions, Line, WriteAccepted, Asserted
<1> QED BY <1>1, InductiveInvariant, PTL

\* The message the host driver works on stays in the buffer until it is done.
THEOREM AnswersKept == Spec => []AnswerKept
<1>1. IInv => AnswerKept
    BY DEF IInv, Line, AnswerKept
<1> QED BY <1>1, InductiveInvariant, PTL

\* No write clears a request that the radio will not make again.
THEOREM RequestsPending == Spec => []RequestPending
<1>1. IInv => RequestPending
    BY DEF IInv, Line, RequestPending, GIE
<1> QED BY <1>1, InductiveInvariant, PTL

=============================================================================
