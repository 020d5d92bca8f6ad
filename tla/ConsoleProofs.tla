---------------------------- MODULE ConsoleProofs ----------------------------
(***************************************************************************)
(* Theorems about the console's output (ConsoleTx) and input (ConsoleRx),  *)
(* for any size of their buffers, and about the command line on it (Cli).  *)
(* Two invariants carry those about output: what a request to be woken     *)
(* stands for, whatever happens to the UART, and, when opening does not    *)
(* fail and the UART is not reset under the console, where the node is     *)
(* linked and when a byte is on its way to the transmitter.  The lemmas    *)
(* about circular buffers serve output and input; those about recursion    *)
(* serve the command search.                                               *)
(***************************************************************************)
EXTENDS ConsoleTx, ConsoleRx, Cli, SequenceTheorems, FiniteSetTheorems,
        WellFoundedInduction, TLAPS

Indices == 0..(Size - 1)

\* What proofs about the indexes and requests rest on.
Types ==
    /\ head \in Indices /\ tail \in Indices
    /\ buffer \in [Indices -> Bytes]
    /\ wake_available \in Int
    /\ pc \in {"queue", "queue_lpm"} => arg \in Bytes
    /\ pc \in {"wait", "wait_lpm"} => arg \in {-1} \cup 1..(Size - 1)

\* A request to be woken is the running call's own, and is not satisfied.
Request ==
    /\ asleep => wake_available # 0
    /\ wake_available # 0 =>
          /\ \/ pc \in {"queue", "queue_lpm"} /\ wake_available = 1
             \/ pc \in {"wait", "wait_lpm"} /\ wake_available = arg
          /\ head # tail
          /\ 0 < wake_available => Available(head, tail) < wake_available

RInv == Types /\ Request

\* The node is linked while the console is open and its output is queued,
\* and never twice; a call runs in an open console whose UART is running.
Linked ==
    /\ ~next
    /\ pc # "idle" => open /\ ~ucswrst
    /\ open => uartTransmit \in {"console_tx_queue", "iBSP430uartTxByte_rh"}
    /\ open => (root <=> (uartTransmit = "console_tx_queue" <=> pc # "switch"))
    /\ ~open => ~root

\* The transmitter has a byte or asks for one; in reset nothing waits for it.
Fed ==
    /\ uctxifg \/ txbuf # None
    /\ open /\ ucswrst => head = tail

AInv == Types /\ Linked /\ Fed /\ TransmitterArmed

-----------------------------------------------------------------------------
(* The buffer's indexes.                                                   *)

\* Indexes stay in the buffer; a full buffer has no space, an empty one has
\* all but one of its slots.
LEMMA RingFacts ==
    ASSUME NEW h \in Indices, NEW t \in Indices
    PROVE  /\ Succ(h) \in Indices
           /\ Succ(h) # h
           /\ Succ(h) = t => Available(h, t) = 0
           /\ Available(h, t) = 0 => Succ(h) = t
           /\ Available(h, h) = Size - 1
           /\ Available(h, t) \in 0..(Size - 1)
<1> USE ConsoleAssumption
<1>1. Succ(h) = IF h = Size - 1 THEN 0 ELSE h + 1
    BY SMT DEF Succ, Indices
<1> QED BY <1>1 DEF Indices, Available

\* Every step keeps the types.
LEMMA StepKeepsTypes == Types /\ [Next]_vars => Types'
<1> SUFFICES ASSUME Types, [Next]_vars PROVE Types'
    OBVIOUS
<1> USE ConsoleAssumption DEF Types
<1>1. CASE TxISR
    <2>1. tail' \in Indices /\ UNCHANGED <<head, buffer, pc, arg>>
        BY <1>1, RingFacts DEF TxISR
    <2>2. wake_available' \in Int
        BY <1>1 DEF TxISR
    <2> QED BY <2>1, <2>2
<1>2. CASE QueueByte
    <2>1. arg \in Bytes /\ head' \in Indices
        BY <1>2, RingFacts DEF QueueByte
    <2> QED BY <1>2, <2>1 DEF QueueByte
<1>3. CASE \E want \in {-1} \cup 1..(Size - 1) : WaitForTxSpace(want)
    BY <1>3 DEF WaitForTxSpace, ring
<1>4. CASE \E c \in Bytes : PutChar(c)
    BY <1>4 DEF PutChar, ring
<1>5. CASE QueueFull
    BY <1>5 DEF QueueFull
<1>6. CASE Resume
    BY <1>6 DEF Resume, ring
<1>7. CASE WaitSleeps
    <2>1. arg \in {-1} \cup 1..(Size - 1)
        BY <1>7 DEF WaitSleeps
    <2>2. arg \in Int
        BY <2>1
    <2> QED BY <1>7, <2>1, <2>2 DEF WaitSleeps
<1>8. CASE \E opened \in OpenResults : Initialize(opened)
    <2>1. 0 \in Indices
        BY DEF Indices
    <2> QED BY <1>8, <2>1 DEF Initialize, ResetRing, main
<1>9. CASE UNCHANGED ring /\ (UNCHANGED <<pc, arg>> \/ pc' \notin {"queue", "queue_lpm", "wait", "wait_lpm"})
    BY <1>9 DEF ring
<1>10. CASE WaitDone \/ Flushed \/ SwitchOn \/ SwitchOff \/ OtherISR \/ Load \/ ShiftOut
    BY <1>9, <1>10 DEF WaitDone, Flushed, SwitchOn, SwitchOff, OtherISR, Load, ShiftOut, main
<1>11. CASE PutCharDirect \/ (\E enable \in BOOLEAN : UseInterrupts(enable))
            \/ Deconfigure \/ ApplicationResets \/ ApplicationReleases \/ UNCHANGED vars
    BY <1>9, <1>11 DEF PutCharDirect, UseInterrupts, Deconfigure, ApplicationResets,
                       ApplicationReleases, vars, main
<1> QED BY <1>1, <1>2, <1>3, <1>4, <1>5, <1>6, <1>7, <1>8, <1>10, <1>11
        DEF Next, UserCalls, Running

-----------------------------------------------------------------------------
(* Who sleeps is awaited.                                                  *)

\* The handler clears a request when it has become satisfied, a call returns
\* only when its request is, and only those two move the indexes.
LEMMA StepKeepsRequest == RInv /\ [Next]_vars => RInv'
<1> SUFFICES ASSUME RInv, [Next]_vars PROVE Request'
    BY StepKeepsTypes DEF RInv
<1> USE ConsoleAssumption DEF RInv
<1>0. head \in Indices /\ tail \in Indices /\ wake_available \in Int
    BY DEF Types
<1>1. CASE TxISR
    <2>1. CASE root /\ Wakes(head, tail')
        BY <1>1, <2>1 DEF TxISR, Request
    <2>2. CASE root /\ ~Wakes(head, tail')
        <3>1. UNCHANGED <<head, wake_available, pc, arg>> /\ (asleep' => asleep)
            BY <1>1, <2>2 DEF TxISR
        <3>2. Available(head, tail') \in Int
            <4>1. tail' \in Indices
                BY StepKeepsTypes DEF Types
            <4>2. Available(head, tail') \in 0..(Size - 1)
                BY <1>0, <4>1, RingFacts
            <4> QED BY <4>2
        <3>3. head = tail' => wake_available = 0
            BY <2>2 DEF Wakes
        <3>4. 0 < wake_available => Available(head, tail') < wake_available
            BY <1>0, <2>2, <3>2 DEF Wakes
        <3> QED BY <3>1, <3>3, <3>4 DEF Request
    <2>3. CASE ~root
        BY <1>1, <2>3 DEF TxISR, Request
    <2> QED BY <2>1, <2>2, <2>3
<1>2. CASE QueueByte
    <2>1. wake_available = 0
        <3>1. Available(head, tail) # 0 /\ Available(head, tail) \in Nat
            BY <1>0, <1>2, RingFacts DEF QueueByte
        <3>2. wake_available # 0 => wake_available = 1
            BY <1>2 DEF QueueByte, Request
        <3> QED BY <3>1, <3>2 DEF Request
    <2>2. UNCHANGED <<wake_available, asleep>>
        BY <1>2 DEF QueueByte
    <2> QED BY <2>1, <2>2 DEF Request
<1>3. CASE QueueFull
    <2>1. Available(head, tail) = 0 /\ head # tail
        BY <1>0, <1>3, RingFacts DEF QueueFull
    <2>2. wake_available' = 1 /\ pc' = "queue_lpm" /\ UNCHANGED <<head, tail>>
        BY <1>3 DEF QueueFull, Request
    <2> QED BY <2>1, <2>2 DEF Request
<1>4. CASE WaitSleeps
    <2>1. arg \in {-1} \cup 1..(Size - 1)
        BY <1>4 DEF WaitSleeps, Types
    <2>2. wake_available' = arg /\ pc' = "wait_lpm" /\ UNCHANGED <<head, tail, arg>>
        BY <1>4 DEF WaitSleeps, Request
    <2>3. head # tail /\ (0 < arg => Available(head, tail) < arg)
        <3>1. CASE arg < 0
            BY <1>4, <2>1, <3>1 DEF WaitSleeps, Satisfied
        <3>2. CASE 0 < arg
            <4>1. ~(Available(head, tail) >= arg) /\ arg <= Size - 1
                BY <1>4, <2>1, <3>2 DEF WaitSleeps, Satisfied
            <4> QED BY <1>0, <2>1, <4>1, RingFacts
        <3> QED BY <2>1, <3>1, <3>2
    <2> QED BY <2>1, <2>2, <2>3 DEF Request
<1>5. CASE WaitDone
    <2>1. wake_available = 0
        <3>1. arg \in {-1} \cup 1..(Size - 1)
            BY <1>5 DEF WaitDone, Types
        <3>2. wake_available # 0 => wake_available = arg
            BY <1>5 DEF WaitDone, Request
        <3>3. CASE arg < 0
            BY <1>5, <3>2, <3>3 DEF WaitDone, Satisfied, Request
        <3>4. CASE 0 < arg
            <4>1. Available(head, tail) >= arg
                BY <1>5, <3>1, <3>4 DEF WaitDone, Satisfied
            <4>2. Available(head, tail) \in Int
                BY <1>0, RingFacts
            <4> QED BY <3>1, <3>2, <3>4, <4>1, <4>2 DEF Request
        <3> QED BY <3>1, <3>3, <3>4
    <2>2. UNCHANGED <<wake_available, asleep>>
        BY <1>5 DEF WaitDone, ring
    <2> QED BY <2>1, <2>2 DEF Request
<1>6. CASE \E opened \in OpenResults : Initialize(opened)
    <2>1. wake_available' = 0 /\ UNCHANGED asleep /\ pc = "idle"
        BY <1>6 DEF Initialize, ResetRing, main
    <2> QED BY <2>1 DEF Request
<1>7. CASE Resume
    BY <1>7 DEF Resume, Request, ring
<1>8. CASE UserCalls /\ UNCHANGED ring
    <2>1. pc = "idle" /\ UNCHANGED asleep
        BY <1>8 DEF UserCalls, PutChar, PutCharDirect, WaitForTxSpace, UseInterrupts, Initialize,
                    Deconfigure, ApplicationResets, ApplicationReleases, Ready, main
    <2> QED BY <1>8, <2>1 DEF Request, ring
<1>9. CASE Flushed \/ SwitchOn \/ SwitchOff
    <2>1. wake_available = 0 /\ UNCHANGED <<wake_available, asleep>>
        BY <1>9 DEF Flushed, SwitchOn, SwitchOff, Request, ring
    <2> QED BY <2>1 DEF Request
<1>10. CASE OtherISR \/ Load \/ ShiftOut \/ UNCHANGED vars
    BY <1>10 DEF OtherISR, Load, ShiftOut, Request, vars, ring, main
<1>11. UserCalls => UNCHANGED ring \/ (\E opened \in OpenResults : Initialize(opened))
    BY DEF UserCalls, PutChar, PutCharDirect, WaitForTxSpace, UseInterrupts,
           Deconfigure, ApplicationResets, ApplicationReleases
<1> QED BY <1>1, <1>2, <1>3, <1>4, <1>5, <1>6, <1>7, <1>8, <1>9, <1>10, <1>11
        DEF Next, Running

\* Requests are the running call's own throughout.
LEMMA RequestInvariant == Spec => []RInv
<1>1. Init => RInv
    <2>1. 0 \in Indices /\ (CHOOSE c \in Bytes : TRUE) \in Bytes
        BY ConsoleAssumption DEF Indices
    <2> QED BY <2>1 DEF Init, RInv, Types, Request, Indices
<1> QED BY <1>1, StepKeepsRequest, PTL DEF Spec

-----------------------------------------------------------------------------
(* What is queued will be sent.                                            *)

\* Opening, closing and switching keep the node linked as the mode says.
LEMMA StepKeepsLinked ==
    ASSUME Careless = {}, Linked, [Next]_vars
    PROVE  Linked'
<1> USE DEF Linked
<1>1. CASE \E opened \in OpenResults : Initialize(opened)
    <2>1. Initialize(TRUE) /\ OpenResults = {TRUE}
        BY <1>1 DEF OpenResults
    <2> QED BY <2>1 DEF Initialize, Link, Reset, main
<1>2. CASE Deconfigure
    BY <1>2 DEF Deconfigure, Unlink, Reset, main, chain
<1>3. CASE SwitchOn
    BY <1>3 DEF SwitchOn, Link, Reset
<1>4. CASE SwitchOff
    BY <1>4 DEF SwitchOff, Unlink, Reset, chain
<1>5. CASE \E enable \in BOOLEAN : UseInterrupts(enable)
    BY <1>5 DEF UseInterrupts, Ready, chain, uart
<1>6. CASE ApplicationResets
    BY <1>6 DEF ApplicationResets, Ready, Reset, chain, main
<1>7. CASE ApplicationReleases
    BY <1>7 DEF ApplicationReleases, chain, main
<1>8. CASE UNCHANGED <<open, uartTransmit, chain, pc, ucswrst>>
    BY <1>8 DEF chain
<1>9. CASE \/ UNCHANGED <<open, uartTransmit, chain, ucswrst>>
           /\ (pc = "idle" => Ready) /\ pc # "switch" /\ pc' # "switch"
    BY <1>9 DEF chain, Ready
<1>10. CASE TxISR \/ OtherISR \/ Load \/ ShiftOut \/ PutCharDirect \/ UNCHANGED vars
    BY <1>8, <1>10 DEF TxISR, OtherISR, Load, ShiftOut, PutCharDirect, vars, uart, main
<1>11. CASE QueueByte \/ QueueFull \/ Resume \/ WaitDone \/ WaitSleeps \/ Flushed
    BY <1>9, <1>11 DEF QueueByte, QueueFull, Resume, WaitDone, WaitSleeps, Flushed, uart
<1>12. CASE (\E c \in Bytes : PutChar(c))
            \/ (\E want \in {-1} \cup 1..(Size - 1) : WaitForTxSpace(want))
    <2>1. Ready /\ UNCHANGED <<open, uartTransmit, chain, ucswrst>> /\ pc' \in {"queue", "wait"}
        BY <1>12 DEF PutChar, WaitForTxSpace, uart
    <2> QED BY <2>1, <1>9 DEF Ready
<1> QED BY <1>1, <1>2, <1>3, <1>4, <1>5, <1>6, <1>7, <1>10, <1>11, <1>12
        DEF Next, UserCalls, Running

\* The handler disables the interrupt with the last byte only, and the first
\* byte that is queued enables it again.
LEMMA StepKeepsArmed ==
    ASSUME Careless = {}, AInv, [Next]_vars
    PROVE  AInv'
<1> SUFFICES Fed' /\ TransmitterArmed'
    BY StepKeepsTypes, StepKeepsLinked DEF AInv
<1> USE ConsoleAssumption DEF AInv, Fed
<1>1. CASE TxISR
    <2>1. root /\ head # tail => buffer[tail] # None
        BY DEF Types
    <2>2. head = tail => tail' = tail
        BY <1>1 DEF TxISR
    <2>3. Fed'
        BY <1>1, <2>1, <2>2 DEF TxISR, chain
    <2>4. TransmitterArmed'
        BY <1>1, <2>3 DEF TxISR, TransmitterArmed, chain
    <2> QED BY <2>3, <2>4
<1>2. CASE QueueByte
    BY <1>2 DEF QueueByte, TransmitterArmed, Linked, chain
<1>3. CASE \E opened \in OpenResults : Initialize(opened)
    BY <1>3 DEF Initialize, ResetRing, Reset, TransmitterArmed
<1>4. CASE Deconfigure
    BY <1>4 DEF Deconfigure, Reset, TransmitterArmed
<1>5. CASE SwitchOn
    BY <1>5 DEF SwitchOn, Reset, TransmitterArmed, ring
<1>6. CASE SwitchOff
    BY <1>6 DEF SwitchOff, Unlink, Reset, TransmitterArmed, Linked, chain, ring
<1>7. CASE ApplicationResets
    BY <1>7 DEF ApplicationResets, Reset, TransmitterArmed, ring
<1>8. CASE ApplicationReleases
    BY <1>8 DEF ApplicationReleases, TransmitterArmed, ring
<1>9. CASE Load
    BY <1>9 DEF Load, TransmitterArmed, chain, ring, main
<1>10. CASE PutCharDirect
    BY <1>10 DEF PutCharDirect, TransmitterArmed, chain, ring, main
<1>11. CASE \E enable \in BOOLEAN : UseInterrupts(enable)
    BY <1>11 DEF UseInterrupts, TransmitterArmed, ring, uart
<1>12. CASE UNCHANGED <<open, chain, head, tail, ucswrst, uctxie, uctxifg, txbuf>>
            /\ (pc' # "switch" => pc # "switch")
    BY <1>12 DEF TransmitterArmed, chain
<1>13. CASE QueueFull \/ Resume \/ WaitDone \/ WaitSleeps \/ Flushed
            \/ (\E c \in Bytes : PutChar(c))
            \/ (\E want \in {-1} \cup 1..(Size - 1) : WaitForTxSpace(want))
    BY <1>12, <1>13 DEF QueueFull, Resume, WaitDone, WaitSleeps, Flushed,
                        PutChar, WaitForTxSpace, Ready, ring, uart
<1>14. CASE OtherISR \/ ShiftOut \/ UNCHANGED vars
    BY <1>12, <1>14 DEF OtherISR, ShiftOut, vars, ring, uart, main
<1> QED BY <1>1, <1>2, <1>3, <1>4, <1>5, <1>6, <1>7, <1>8, <1>9, <1>10, <1>11, <1>13, <1>14
        DEF Next, UserCalls, Running

\* If the console can be opened and nobody resets the UART while bytes are
\* queued, the invariant holds throughout.
LEMMA ArmedInvariant == ASSUME Careless = {} PROVE Spec => []AInv
<1>1. Init => AInv
    <2>1. 0 \in Indices /\ (CHOOSE c \in Bytes : TRUE) \in Bytes
        BY ConsoleAssumption DEF Indices
    <2> QED BY <2>1 DEF Init, AInv, Types, Linked, Fed, TransmitterArmed, Indices
<1> QED BY <1>1, StepKeepsArmed, PTL DEF Spec

\* Then a buffer that is not empty always has its interrupt on the way.
THEOREM TransmitterIsArmed == Careless = {} /\ Spec => []TransmitterArmed
<1> SUFFICES ASSUME Careless = {} PROVE Spec => []TransmitterArmed
    OBVIOUS
<1>1. AInv => TransmitterArmed
    BY DEF AInv
<1> QED BY <1>1, ArmedInvariant, PTL

\* Then whoever sleeps in the console has asked to be woken for what the buffer
\* does not offer yet, and while the console drives the interrupt it is enabled
\* and on its way.
THEOREM SleepersAwaited == Careless = {} /\ Spec => []SleeperIsAwaited
<1> SUFFICES ASSUME Careless = {} PROVE Spec => []SleeperIsAwaited
    OBVIOUS
<1>1. RInv /\ AInv => SleeperIsAwaited
    <2> SUFFICES ASSUME RInv, AInv PROVE SleeperIsAwaited
        OBVIOUS
    <2>1. /\ asleep => /\ wake_available # 0 /\ head # tail
                       /\ 0 < wake_available => Available(head, tail) < wake_available
          /\ wake_available # 0 => pc \notin {"idle", "switch"}
        BY DEF RInv, Request
    <2>2. asleep => open /\ ~ucswrst /\ pc # "switch" /\ head # tail
        BY <2>1 DEF AInv, Linked
    <2>3. asleep /\ root => uctxie /\ (uctxifg \/ txbuf # None)
        BY <2>2 DEF AInv, TransmitterArmed
    <2> QED BY <2>1, <2>3 DEF SleeperIsAwaited
<1> QED BY <1>1, RequestInvariant, ArmedInvariant, PTL

\* Then a closed console has nothing on the UART's callback chain.
THEOREM ClosedDetached == Careless = {} /\ Spec => []ConsoleDetached
<1> SUFFICES ASSUME Careless = {} PROVE Spec => []ConsoleDetached
    OBVIOUS
<1>1. AInv => ConsoleDetached
    BY DEF AInv, Linked, ConsoleDetached
<1> QED BY <1>1, ArmedInvariant, PTL

-----------------------------------------------------------------------------
(* The refinement of the channel of bytes.                                 *)

\* What the bytes on their way rest on: the handler finds txbuf empty when
\* the flag asks for a byte, and a closed console has nothing on its way.
CInv ==
    /\ Types
    /\ open \in BOOLEAN
    /\ {txbuf, shift} \subseteq Bytes \cup {Direct, None}
    /\ uctxifg => txbuf = None
    /\ pc # "idle" => open
    /\ ~open => txbuf = None /\ shift = None /\ ~uctxie

Held == IF open THEN Queued ELSE <<>>

\* A reset empties the UART, and only a running call or interrupt fills it.
LEMMA StepKeepsCInv == CInv /\ [Next]_vars => CInv'
<1> SUFFICES ASSUME CInv, [Next]_vars PROVE CInv'
    OBVIOUS
<1> USE ConsoleAssumption DEF CInv
<1>0. Types'
    BY StepKeepsTypes
<1>1. CASE TxISR
    <2>1. head # tail => buffer[tail] \in Bytes
        BY DEF Types
    <2>2. open
        BY <1>1 DEF TxISR
    <2> QED BY <1>0, <1>1, <2>1, <2>2 DEF TxISR
<1>2. CASE QueueByte \/ QueueFull \/ Resume \/ WaitDone \/ WaitSleeps \/ Flushed
    BY <1>0, <1>2 DEF QueueByte, QueueFull, Resume, WaitDone, WaitSleeps, Flushed, uart
<1>3. CASE SwitchOn \/ SwitchOff
    BY <1>0, <1>3 DEF SwitchOn, SwitchOff, Reset
<1>4. CASE OtherISR \/ Load \/ ShiftOut \/ UNCHANGED vars
    BY <1>0, <1>4 DEF OtherISR, Load, ShiftOut, vars, uart, main
<1>5. CASE UserCalls
    <2>1. CASE \E opened \in OpenResults : Initialize(opened)
        <3>1. open' \in BOOLEAN
            BY <2>1 DEF Initialize, OpenResults
        <3> QED BY <1>0, <2>1, <3>1 DEF Initialize, Reset, main
    <2>2. CASE Deconfigure \/ ApplicationResets \/ ApplicationReleases
        <3>1. open' \in BOOLEAN
            BY <2>2, ZenonT(30) DEF Deconfigure, ApplicationResets, ApplicationReleases
        <3> QED BY <1>0, <2>2, <3>1 DEF Deconfigure, ApplicationResets, ApplicationReleases,
                                        Reset, main
    <2>3. CASE PutCharDirect \/ \E c \in Bytes : PutChar(c)
        BY <1>0, <2>3 DEF PutCharDirect, PutChar, Ready, uart, main
    <2>4. CASE \/ \E want \in {-1} \cup 1..(Size - 1) : WaitForTxSpace(want)
               \/ \E enable \in BOOLEAN : UseInterrupts(enable)
        BY <1>0, <2>4 DEF WaitForTxSpace, UseInterrupts, Ready, uart
    <2> QED BY <1>5, <2>1, <2>2, <2>3, <2>4 DEF UserCalls
<1> QED BY <1>1, <1>2, <1>3, <1>4, <1>5 DEF Next, Running

\* Remainders by the size of a buffer, as far as its indexes reach.
LEMMA ModFacts ==
    ASSUME NEW n \in Nat, n > 0
    PROVE  \A x \in Int : -n <= x /\ x < 2 * n =>
               x % n = IF x < 0 THEN x + n ELSE IF x < n THEN x ELSE x - n
BY SMT

\* The place after i in a buffer of n, how many elements it holds, and where
\* its i-th oldest is.
After(n, i) == (i + 1) % n
Count(n, h, t) == (h - t) % n
Place(n, t, i) == (t + i - 1) % n

\* Each of them in terms of the indexes.
LEMMA RingPlaces ==
    ASSUME NEW n \in Nat, n > 1, NEW h \in 0..(n - 1), NEW t \in 0..(n - 1)
    PROVE  /\ After(n, h) = IF h = n - 1 THEN 0 ELSE h + 1
           /\ Count(n, h, t) = IF h < t THEN h - t + n ELSE h - t
           /\ \A i \in 1..n :
                  Place(n, t, i) = IF t + i - 1 < n THEN t + i - 1 ELSE t + i - 1 - n
BY ModFacts, SMT DEF After, Count, Place

\* The element put into a buffer that is not full is its last.
LEMMA PutPlaces ==
    ASSUME NEW n \in Nat, n > 1, NEW h \in 0..(n - 1), NEW t \in 0..(n - 1),
           After(n, h) # t
    PROVE  /\ Count(n, h, t) \in 0..(n - 2)
           /\ Count(n, After(n, h), t) = Count(n, h, t) + 1
           /\ Place(n, t, Count(n, h, t) + 1) = h
           /\ \A i \in 1..Count(n, h, t) : Place(n, t, i) \in 0..(n - 1) \ {h}
<1>1. After(n, h) = IF h = n - 1 THEN 0 ELSE h + 1
    BY RingPlaces
<1>2. After(n, h) \in 0..(n - 1)
    BY <1>1
<1>3. /\ Count(n, h, t) = IF h < t THEN h - t + n ELSE h - t
      /\ Count(n, After(n, h), t) =
             IF After(n, h) < t THEN After(n, h) - t + n ELSE After(n, h) - t
      /\ \A i \in 1..n :
             Place(n, t, i) = IF t + i - 1 < n THEN t + i - 1 ELSE t + i - 1 - n
    BY <1>2, RingPlaces
<1> QED BY <1>1, <1>3

\* The element taken from a buffer that is not empty is its first.
LEMMA PopPlaces ==
    ASSUME NEW n \in Nat, n > 1, NEW h \in 0..(n - 1), NEW t \in 0..(n - 1), h # t
    PROVE  /\ Count(n, h, t) \in 1..(n - 1)
           /\ Count(n, h, After(n, t)) = Count(n, h, t) - 1
           /\ Place(n, t, 1) = t
           /\ \A i \in 1..(Count(n, h, t) - 1) :
                  Place(n, After(n, t), i) = Place(n, t, i + 1)
           /\ \A i \in 1..Count(n, h, t) : Place(n, t, i) \in 0..(n - 1)
<1>1. After(n, t) = IF t = n - 1 THEN 0 ELSE t + 1
    BY RingPlaces
<1>2. After(n, t) \in 0..(n - 1)
    BY <1>1
<1>3. /\ Count(n, h, t) = IF h < t THEN h - t + n ELSE h - t
      /\ Count(n, h, After(n, t)) =
             IF h < After(n, t) THEN h - After(n, t) + n ELSE h - After(n, t)
      /\ \A i \in 1..n :
             Place(n, t, i) = IF t + i - 1 < n THEN t + i - 1 ELSE t + i - 1 - n
      /\ \A i \in 1..n :
             Place(n, After(n, t), i) = IF After(n, t) + i - 1 < n THEN After(n, t) + i - 1
                                        ELSE After(n, t) + i - 1 - n
    BY <1>2, RingPlaces
<1> QED BY <1>1, <1>3

\* What a buffer holds, oldest first.
Content(n, b, h, t) == [i \in 1..Count(n, h, t) |-> b[Place(n, t, i)]]

\* A buffer holds a sequence of its values, that is empty if its indexes agree.
LEMMA ContentType ==
    ASSUME NEW n \in Nat, n > 1, NEW h \in 0..(n - 1), NEW t \in 0..(n - 1),
           NEW V, NEW b \in [0..(n - 1) -> V]
    PROVE  /\ Content(n, b, h, t) \in Seq(V)
           /\ Len(Content(n, b, h, t)) = Count(n, h, t)
           /\ Count(n, h, t) \in 0..(n - 1)
           /\ Count(n, h, t) = 0 <=> h = t
<1>1. /\ Count(n, h, t) \in 0..(n - 1)
      /\ Count(n, h, t) = 0 <=> h = t
    <2>1. Count(n, h, t) = IF h < t THEN h - t + n ELSE h - t
        BY RingPlaces
    <2> QED BY <2>1
<1>2. \A i \in 1..Count(n, h, t) : b[Place(n, t, i)] \in V
    <2>1. CASE h = t
        BY <1>1, <2>1
    <2>2. CASE h # t
        BY <2>2, PopPlaces
    <2> QED BY <2>1, <2>2
<1> QED BY <1>1, <1>2 DEF Content

\* A buffer with an element written to it.
Written(b, h, c) == [b EXCEPT ![h] = c]

\* Putting an element appends it.
LEMMA PutContent ==
    ASSUME NEW n \in Nat, n > 1, NEW h \in 0..(n - 1), NEW t \in 0..(n - 1),
           NEW V, NEW b \in [0..(n - 1) -> V], NEW c \in V, After(n, h) # t
    PROVE  Content(n, Written(b, h, c), After(n, h), t) = Append(Content(n, b, h, t), c)
<1> DEFINE m == Count(n, h, t)
           q == Content(n, b, h, t)
           z == Content(n, Written(b, h, c), After(n, h), t)
<1>1. m \in Nat /\ m <= n - 2
    BY PutPlaces
<1>2. /\ Count(n, After(n, h), t) = m + 1
      /\ Place(n, t, m + 1) = h
      /\ \A i \in 1..m : Place(n, t, i) \in 0..(n - 1) \ {h}
    BY PutPlaces
<1>3. q = [i \in 1..m |-> b[Place(n, t, i)]]
    BY DEF Content
<1>4. z = [i \in 1..(m + 1) |-> Written(b, h, c)[Place(n, t, i)]]
    BY <1>2 DEF Content
<1> HIDE DEF m, q, z
<1>5. q \in Seq(V) /\ Len(q) = m
    BY <1>1, <1>2, <1>3
<1>6. \A i \in 1..(m + 1) : z[i] = IF i = m + 1 THEN c ELSE q[i]
    BY <1>1, <1>2, <1>3, <1>4 DEF Written
<1>7. z \in Seq(V) /\ Len(z) = m + 1
    <2>1. \A i \in 1..(m + 1) : z[i] \in V
        BY <1>1, <1>5, <1>6
    <2> QED BY <1>1, <1>4, <2>1
<1>8. z = Append(q, c)
    BY <1>1, <1>5, <1>6, <1>7
<1> QED BY <1>8 DEF q, z

\* A buffer that is not full has room for one more.
LEMMA RoomInContent ==
    ASSUME NEW n \in Nat, n > 1, NEW h \in 0..(n - 1), NEW t \in 0..(n - 1),
           NEW V, NEW b \in [0..(n - 1) -> V], After(n, h) # t
    PROVE  Content(n, b, h, t) \in Seq(V) /\ Len(Content(n, b, h, t)) <= n - 2
<1>1. Content(n, b, h, t) \in Seq(V) /\ Len(Content(n, b, h, t)) = Count(n, h, t)
    BY ContentType
<1>2. Count(n, h, t) \in 0..(n - 2)
    BY PutPlaces
<1> QED BY <1>1, <1>2

\* Taking an element takes the first.
LEMMA PopContent ==
    ASSUME NEW n \in Nat, n > 1, NEW h \in 0..(n - 1), NEW t \in 0..(n - 1),
           NEW V, NEW b \in [0..(n - 1) -> V], h # t
    PROVE  /\ Content(n, b, h, After(n, t)) \in Seq(V)
           /\ b[t] \in V
           /\ Content(n, b, h, t) = <<b[t]>> \o Content(n, b, h, After(n, t))
<1> DEFINE m == Count(n, h, t)
           q == Content(n, b, h, t)
           z == Content(n, b, h, After(n, t))
<1>1. m \in Nat /\ m > 0
    BY PopPlaces
<1>2. /\ Count(n, h, After(n, t)) = m - 1
      /\ Place(n, t, 1) = t
      /\ \A i \in 1..(m - 1) : Place(n, After(n, t), i) = Place(n, t, i + 1)
      /\ \A i \in 1..m : Place(n, t, i) \in 0..(n - 1)
    BY PopPlaces
<1>3. q = [i \in 1..m |-> b[Place(n, t, i)]]
    BY DEF Content
<1>4. z = [i \in 1..(m - 1) |-> b[Place(n, After(n, t), i)]]
    BY <1>2 DEF Content
<1> HIDE DEF m, q, z
<1>5. /\ q \in Seq(V) /\ Len(q) = m
      /\ q[1] = b[t] /\ b[t] \in V
    BY <1>1, <1>2, <1>3
<1>6. \A i \in 1..(m - 1) : z[i] = q[i + 1] /\ z[i] \in V
    BY <1>1, <1>2, <1>3, <1>4
<1>7. z \in Seq(V) /\ Len(z) = m - 1
    BY <1>1, <1>4, <1>6
<1>8. q = <<b[t]>> \o z
    <2>1. <<b[t]>> \o z \in Seq(V) /\ Len(<<b[t]>> \o z) = m
        BY <1>1, <1>5, <1>7
    <2>2. \A i \in 1..m : (<<b[t]>> \o z)[i] = q[i]
        BY <1>1, <1>5, <1>6, <1>7
    <2> QED BY <1>5, <2>1, <2>2
<1> QED BY <1>5, <1>7, <1>8 DEF q, z

\* The transmit buffer's indexes and content in these terms.
LEMMA StoredIsContent ==
    /\ Stored = Content(Size, buffer, head, tail)
    /\ \A i : Succ(i) = After(Size, i)
BY DEF Stored, Succ, Content, Count, Place, After

\* The buffer holds bytes.
LEMMA StoredType == CInv => Stored \in Seq(Bytes)
BY StoredIsContent, ContentType, ConsoleAssumption DEF CInv, Types, Indices

\* What is in the UART comes first; it takes a byte in and gives one out.
LEMMA UartFacts ==
    ASSUME NEW b \in Bytes \cup {Direct, None}
    PROVE  /\ Optional(b) \in Seq(Bytes) /\ Len(Optional(b)) <= 1
           /\ b \notin {None, Direct} => b \in Bytes /\ Optional(b) = <<b>>
           /\ b \in {None, Direct} => Optional(b) = <<>>
BY DEF Optional

\* Appending after what comes first, and taking the first of it.
LEMMA SeqFacts ==
    ASSUME NEW p \in Seq(Bytes), NEW q \in Seq(Bytes), NEW c \in Bytes
    PROVE  /\ p \o q \in Seq(Bytes) /\ Len(p \o q) = Len(p) + Len(q)
           /\ p \o Append(q, c) = Append(p \o q, c)
           /\ <<c>> \o q # <<>> /\ Tail(<<c>> \o q) = q
           /\ <<>> \o q = q /\ q \o <<>> = q
<1>1. Append(q, c) \in Seq(Bytes) /\ <<c>> \in Seq(Bytes) /\ p \o q \in Seq(Bytes)
    OBVIOUS
<1>2. p \o Append(q, c) = Append(p \o q, c)
    <2>1. Append(q, c) = q \o <<c>> /\ Append(p \o q, c) = (p \o q) \o <<c>>
        BY <1>1, AppendIsConcat
    <2> QED BY <1>1, <2>1, ConcatAssociative
<1>3. <<c>> \o q # <<>> /\ Tail(<<c>> \o q) = q
    OBVIOUS
<1>4. <<>> \o q = q /\ q \o <<>> = q
    OBVIOUS
<1> QED BY <1>1, <1>2, <1>3, <1>4

\* Every step is one of the channel's: a byte accepted, a byte sent, the
\* console opened or closed, or nothing the channel tells apart.
LEMMA StepRefines == CInv /\ [Next]_vars => [Channel!Next]_(Channel!channelVars)
<1> SUFFICES ASSUME CInv, [Next]_vars
             PROVE  Channel!Next \/ UNCHANGED <<open, Held, sent>>
    BY DEF Channel!channelVars, Held
<1> USE ConsoleAssumption
<1>0. /\ head \in Indices /\ tail \in Indices /\ buffer \in [Indices -> Bytes]
      /\ txbuf \in Bytes \cup {Direct, None} /\ shift \in Bytes \cup {Direct, None}
    BY DEF CInv, Types
<1>1. CASE QueueByte
    <2>1. open /\ arg \in Bytes /\ Succ(head) # tail
        BY <1>1 DEF QueueByte, CInv, Types
    <2>2. /\ Stored \in Seq(Bytes) /\ Len(Stored) <= Size - 2
          /\ Stored' = Append(Stored, arg)
        <3>1. /\ Stored' = Content(Size, buffer', Succ(head), tail)
              /\ buffer' = Written(buffer, head, arg) /\ Succ(head) = After(Size, head)
            BY <1>1, StoredIsContent DEF QueueByte, Stored, Content, Count, Place, Written
        <3> QED BY <1>0, <2>1, <3>1, PutContent, RoomInContent, StoredIsContent DEF Indices
    <2>3. UNCHANGED <<Optional(shift), Optional(txbuf), open, sent>>
        BY <1>1 DEF QueueByte
    <2>4. /\ Optional(shift) \o Optional(txbuf) \in Seq(Bytes)
          /\ Len(Optional(shift) \o Optional(txbuf)) <= 2
        BY <1>0, UartFacts
    <2>5. Held' = Append(Held, arg) /\ Len(Held) < Size + 1
        BY <2>1, <2>2, <2>3, <2>4, SeqFacts DEF Held, Queued
    <2> QED BY <2>1, <2>3, <2>5 DEF Channel!Next, Channel!Put, Held
<1>2. CASE TxISR
    <2>1. open /\ Optional(txbuf) = <<>> /\ UNCHANGED <<open, shift, sent, head, buffer>>
        BY <1>0, <1>2, UartFacts DEF TxISR, CInv
    <2>2. CASE root /\ head # tail
        <3>1. txbuf' = buffer[tail] /\ tail' = Succ(tail)
            BY <1>2, <2>2 DEF TxISR
        <3>2. /\ Content(Size, buffer, head, Succ(tail)) \in Seq(Bytes)
              /\ buffer[tail] \in Bytes
              /\ Stored = <<buffer[tail]>> \o Content(Size, buffer, head, Succ(tail))
            BY <1>0, <2>2, PopContent, StoredIsContent DEF Indices
        <3>3. Stored' = Content(Size, buffer, head, Succ(tail))
            BY <2>1, <3>1 DEF Stored, Content, Count, Place
        <3>4. Optional(txbuf)' = <<buffer[tail]>>
            BY <3>1, <3>2, UartFacts DEF Optional
        <3>5. Queued' = Queued
            <4>1. Queued = Optional(shift) \o Stored
                BY <1>0, <2>1, UartFacts, SeqFacts DEF Queued
            <4>2. Queued' = (Optional(shift) \o <<buffer[tail]>>) \o Stored'
                BY <2>1, <3>4 DEF Queued, Optional
            <4>3. Optional(shift) \in Seq(Bytes) /\ <<buffer[tail]>> \in Seq(Bytes)
                BY <1>0, <3>2, UartFacts
            <4> QED BY <3>2, <3>3, <4>1, <4>2, <4>3, ConcatAssociative
        <3>6. UNCHANGED <<open, sent, Queued>>
            BY <2>1, <3>5
        <3> QED BY <3>6 DEF Held
    <2>3. CASE ~(root /\ head # tail)
        <3>1. txbuf' = txbuf /\ tail' = tail
            BY <1>2, <2>3 DEF TxISR
        <3>2. UNCHANGED <<open, sent, Queued>>
            BY <2>1, <3>1 DEF Queued, Stored, Optional
        <3> QED BY <3>2 DEF Held
    <2> QED BY <2>2, <2>3
<1>3. CASE Load
    <2>1. /\ Optional(shift) = <<>> /\ Optional(txbuf)' = <<>>
          /\ Optional(shift)' = Optional(txbuf)
          /\ UNCHANGED <<Stored, open, sent>>
        BY <1>3 DEF Load, ring, Stored, Optional
    <2>2. Optional(txbuf) \in Seq(Bytes)
        BY <1>0, UartFacts
    <2>3. <<>> \o Optional(txbuf) = Optional(txbuf) \o <<>>
        BY <2>2
    <2> QED BY <2>1, <2>3 DEF Held, Queued
<1>4. CASE ShiftOut
    <2>1. open /\ Optional(shift)' = <<>> /\ UNCHANGED <<Optional(txbuf), Stored, open>>
        BY <1>4 DEF ShiftOut, CInv, ring, Stored, Optional
    <2>2. CASE shift = Direct
        <3>1. Optional(shift) = <<>> /\ UNCHANGED sent
            BY <1>4, <2>2 DEF ShiftOut, Optional
        <3> QED BY <2>1, <3>1 DEF Held, Queued
    <2>3. CASE shift # Direct
        <3>1. shift \in Bytes /\ Optional(shift) = <<shift>> /\ sent' = 1 - sent
            BY <1>0, <1>4, <2>3, UartFacts DEF ShiftOut
        <3>2. Optional(txbuf) \in Seq(Bytes) /\ Stored \in Seq(Bytes)
            BY <1>0, UartFacts, StoredType
        <3> DEFINE rest == Optional(txbuf) \o Stored
        <3>3. Queued = <<shift>> \o rest
            BY <3>1, <3>2, ConcatAssociative DEF Queued
        <3>4. Queued' = rest
            BY <2>1, <3>2, SeqFacts DEF Queued
        <3>5. rest \in Seq(Bytes)
            BY <3>2
        <3>6. Held # <<>> /\ Held' = Tail(Held)
            <4> HIDE DEF rest
            <4> QED BY <2>1, <3>1, <3>3, <3>4, <3>5, SeqFacts DEF Held
        <3> QED BY <2>1, <3>1, <3>6 DEF Channel!Next, Channel!Send, Held
    <2> QED BY <2>2, <2>3
<1>5. CASE SwitchOn \/ SwitchOff \/ ApplicationResets
    <2>1. /\ UNCHANGED <<open, sent, ring>>
          /\ shift = None /\ shift' = None /\ txbuf = None /\ txbuf' = None
        BY <1>5 DEF SwitchOn, SwitchOff, ApplicationResets, Busy, Reset
    <2> QED BY <2>1 DEF Held, Queued, Stored, Optional, ring
<1>6. CASE \E opened \in OpenResults : Initialize(opened)
    <2>1. /\ ~open /\ open' \in BOOLEAN /\ UNCHANGED sent
          /\ Optional(shift)' = <<>> /\ Optional(txbuf)' = <<>>
        BY <1>6 DEF Initialize, Reset, OpenResults, Optional
    <2>2. Stored' = <<>>
        <3>1. Stored' = Content(Size, buffer', 0, 0)
            BY <1>6 DEF Initialize, ResetRing, Stored, Content, Count, Place
        <3>2. Count(Size, 0, 0) = 0
            BY ModFacts DEF Count
        <3> QED BY <3>1, <3>2 DEF Content
    <2>3. Held = <<>> /\ Held' = <<>>
        BY <2>1, <2>2 DEF Held, Queued
    <2>4. CASE open'
        BY <2>1, <2>3, <2>4 DEF Channel!Next, Channel!OpenOrClose, Held
    <2>5. CASE ~open'
        <3>1. open' = open
            BY <2>1, <2>5 DEF CInv
        <3> QED BY <2>1, <2>3, <3>1
    <2> QED BY <2>4, <2>5
<1>7. CASE Deconfigure
    <2>1. open' = ~open /\ Held' = <<>> /\ UNCHANGED sent
        BY <1>7 DEF Deconfigure, Reset, Held
    <2> QED BY <2>1 DEF Channel!Next, Channel!OpenOrClose, Held
<1>8. CASE PutCharDirect
    <2>1. Optional(txbuf) = <<>> /\ Optional(txbuf)' = <<>>
        BY <1>8 DEF PutCharDirect, CInv, Optional
    <2>2. UNCHANGED <<open, ring, shift, sent>>
        BY <1>8 DEF PutCharDirect
    <2> QED BY <2>1, <2>2 DEF Held, Queued, Stored, Optional, ring
<1>9. CASE UNCHANGED <<open, buffer, head, tail, txbuf, shift, sent>>
    BY <1>9 DEF Held, Queued, Stored, Optional
<1>10. CASE QueueFull \/ Resume \/ WaitDone \/ WaitSleeps \/ Flushed
    BY <1>9, <1>10 DEF QueueFull, Resume, WaitDone, WaitSleeps, Flushed, ring, uart
<1>11. CASE OtherISR \/ ApplicationReleases \/ (\E c \in Bytes : PutChar(c)) \/ UNCHANGED vars
    BY <1>9, <1>11 DEF OtherISR, ApplicationReleases, PutChar, vars, ring, uart
<1>12. CASE \/ \E want \in {-1} \cup 1..(Size - 1) : WaitForTxSpace(want)
            \/ \E enable \in BOOLEAN : UseInterrupts(enable)
    BY <1>9, <1>12 DEF WaitForTxSpace, UseInterrupts, ring, uart
<1> QED BY <1>1, <1>2, <1>3, <1>4, <1>5, <1>6, <1>7, <1>8, <1>10, <1>11, <1>12
        DEF Next, UserCalls, Running

\* The bytes the console accepts go out in order, none lost and none twice, for
\* every size of the buffer, also when opening fails and when the UART is reset.
THEOREM RefinesChannel == Spec => ImplementsChannel
<1>1. Init => CInv
    <2>1. 0 \in Indices /\ (CHOOSE c \in Bytes : TRUE) \in Bytes
        BY ConsoleAssumption DEF Indices
    <2>2. Init => open \in BOOLEAN /\ ~open
        BY DEF Init
    <2>3. Init => txbuf = None /\ shift = None /\ ~uctxie /\ pc = "idle"
        BY DEF Init
    <2>4. Init => Types
        BY <2>1 DEF Init, Types, Indices
    <2> QED BY <2>2, <2>3, <2>4 DEF CInv
<1>2. Init => Channel!Init
    BY DEF Init, Channel!Init
<1> QED BY <1>1, <1>2, StepKeepsCInv, StepRefines, PTL
        DEF Spec, ImplementsChannel, Channel!Spec

-----------------------------------------------------------------------------
(* The receive buffer.                                                     *)

\* Nothing but an open console has its callback on the UART's chain.
RxInv == RxTypeOK /\ Listens /\ (linked => rx_open)

\* A full buffer gives up its oldest element for the one put.
LEMMA ReplaceContent ==
    ASSUME NEW n \in Nat, n > 1, NEW h \in 0..(n - 1),
           NEW V, NEW b \in [0..(n - 1) -> V], NEW c \in V
    PROVE  /\ Content(n, b, h, After(n, h)) \in Seq(V)
           /\ Len(Content(n, b, h, After(n, h))) = n - 1
           /\ Content(n, Written(b, h, c), After(n, h), After(n, After(n, h))) =
                  Tail(Append(Content(n, b, h, After(n, h)), c))
<1>1. \A i \in 0..(n - 1) : After(n, h) # i =>
          Content(n, Written(b, h, c), After(n, h), i) = Append(Content(n, b, h, i), c)
    BY PutContent
<1> DEFINE t == After(n, h)
           q == Content(n, b, h, t)
           z == Content(n, b, h, After(n, t))
           s == After(n, t)
<1>2. t \in 0..(n - 1) /\ h # t /\ s \in 0..(n - 1) /\ s # t /\ Count(n, h, t) = n - 1
    <2>1. t \in 0..(n - 1) /\ t = IF h = n - 1 THEN 0 ELSE h + 1
        BY RingPlaces
    <2>2. /\ s = IF t = n - 1 THEN 0 ELSE t + 1
          /\ Count(n, h, t) = IF h < t THEN h - t + n ELSE h - t
        BY <2>1, RingPlaces
    <2> QED BY <2>1, <2>2
<1>3. q \in Seq(V) /\ Len(q) = n - 1
    <2>1. Content(n, b, h, t) \in Seq(V) /\ Len(Content(n, b, h, t)) = Count(n, h, t)
        BY <1>2, ContentType
    <2> QED BY <1>2, <2>1
<1>4. z \in Seq(V) /\ b[t] \in V /\ q = <<b[t]>> \o z
    BY <1>2, PopContent
<1>5. Content(n, Written(b, h, c), t, s) = Append(z, c)
    BY <1>1, <1>2
<1> HIDE DEF q, z
<1>6. Tail(Append(<<b[t]>> \o z, c)) = Append(z, c)
    <2>1. <<b[t]>> \o z \in Seq(V) /\ <<b[t]>> \in Seq(V) /\ <<c>> \in Seq(V)
        BY <1>4
    <2>2. Append(<<b[t]>> \o z, c) = (<<b[t]>> \o z) \o <<c>> /\ Append(z, c) = z \o <<c>>
        BY <1>4, <2>1, AppendIsConcat
    <2>3. (<<b[t]>> \o z) \o <<c>> = <<b[t]>> \o (z \o <<c>>)
        BY <1>4, <2>1, ConcatAssociative
    <2>4. z \o <<c>> \in Seq(V)
        BY <1>4, <2>1
    <2>5. Tail(<<b[t]>> \o (z \o <<c>>)) = z \o <<c>>
        BY <1>4, <2>4
    <2> QED BY <2>2, <2>3, <2>5
<1> QED BY <1>3, <1>4, <1>5, <1>6 DEF q

\* A masked octet is not above the mask.
LEMMA AndBelow ==
    ASSUME NEW x \in 0..255, NEW y \in 0..255
    PROVE  And(x, y) \in 0..y
<1> DEFINE b(i) == (y \div i) % 2
<1>1. y = b(1) + 2 * b(2) + 4 * b(4) + 8 * b(8) + 16 * b(16) + 32 * b(32) + 64 * b(64)
          + 128 * b(128)
    BY SMT
<1>2. \A i \in {1, 2, 4, 8, 16, 32, 64, 128} : b(i) \in {0, 1}
    BY SMT
<1> DEFINE d(i) == IF (x \div i) % 2 = 1 /\ b(i) = 1 THEN i ELSE 0
<1>3. And(x, y) = d(1) + d(2) + d(4) + d(8) + d(16) + d(32) + d(64) + d(128)
    BY DEF And
<1> HIDE DEF b
<1>4. \A i \in {1, 2, 4, 8, 16, 32, 64, 128} : d(i) \in 0..(i * b(i))
    BY <1>2
<1> HIDE DEF d
<1> QED BY <1>1, <1>2, <1>3, <1>4

PowersOfTwo == {2, 4, 8, 16, 32, 64, 128}

\* Masking with the size less one is the remainder by it, for powers of two.
LEMMA MaskIsRemainder ==
    ASSUME RxSize \in PowersOfTwo, NEW t \in 0..(RxSize - 1)
    PROVE  Popped(t) = After(RxSize, t)
<1>1. After(RxSize, t) = IF t = RxSize - 1 THEN 0 ELSE t + 1
    BY RingPlaces, ConsoleRxAssumption
<1> DEFINE x == t + 1
<1>2. x \in 1..RxSize
    BY ConsoleRxAssumption
<1> HIDE DEF x
<1>3. And(x, RxSize - 1) = IF x = RxSize THEN 0 ELSE x
    <2>1. CASE RxSize = 2
        BY <1>2, <2>1 DEF And
    <2>2. CASE RxSize = 4
        BY <1>2, <2>2 DEF And
    <2>3. CASE RxSize = 8
        BY <1>2, <2>3 DEF And
    <2>4. CASE RxSize = 16
        BY <1>2, <2>4 DEF And
    <2>5. CASE RxSize = 32
        BY <1>2, <2>5 DEF And
    <2>6. CASE RxSize = 64
        BY <1>2, <2>6 DEF And
    <2>7. CASE RxSize = 128
        BY <1>2, <2>7 DEF And
    <2> QED BY <2>1, <2>2, <2>3, <2>4, <2>5, <2>6, <2>7 DEF PowersOfTwo
<1> QED BY <1>1, <1>3, ConsoleRxAssumption DEF x, Popped

\* Whatever opens, holds or closes the UART keeps the callback linked and the
\* interrupt enabled for an open console, and the indexes stay in the buffer.
LEMMA StepKeepsRxInv == RxInv /\ [RxNext]_rxVars => RxInv'
<1> SUFFICES ASSUME RxInv, [RxNext]_rxVars PROVE RxInv'
    OBVIOUS
<1> USE ConsoleRxAssumption DEF RxInv, RxTypeOK
<1>0. \A i \in 0..(RxSize - 1) : (i + 1) % RxSize \in 0..(RxSize - 1)
    BY SMT
<1>1. CASE \E c \in Chars : Receive(c)
    BY <1>1 DEF Receive, Listens, rxRing
<1>2. CASE RxISR
    <2>1. rxbuf \in Chars /\ UNCHANGED <<rx_open, linked, in_reset, ucrxie, result>>
          /\ rxbuf' = NoChar
        BY <1>2 DEF RxISR
    <2>2. /\ rx_buffer' \in [0..(RxSize - 1) -> Chars]
          /\ rx_head' \in 0..(RxSize - 1) /\ rx_tail' \in 0..(RxSize - 1)
        <3>1. CASE linked
            BY <1>0, <1>2, <2>1, <3>1 DEF RxISR, Store
        <3>2. CASE ~linked
            BY <1>2, <3>2 DEF RxISR, rxRing
        <3> QED BY <3>1, <3>2
    <2> QED BY <2>1, <2>2 DEF Listens
<1>3. CASE \E do_pop \in BOOLEAN : GetChar(do_pop)
    <2>1. PICK do_pop \in BOOLEAN : GetChar(do_pop)
        BY <1>3
    <2>2. result' \in BOOLEAN \X (Chars \cup {NoChar})
        BY <2>1 DEF GetChar
    <2>3. rx_tail' \in 0..(RxSize - 1)
        <3>1. rx_tail + 1 \in 0..255 /\ RxSize - 1 \in 0..255
            OBVIOUS
        <3>2. Popped(rx_tail) \in 0..(RxSize - 1)
            BY <3>1, AndBelow DEF Popped
        <3> QED BY <2>1, <3>2 DEF GetChar
    <2> QED BY <2>1, <2>2, <2>3 DEF GetChar, Listens, rxUart
<1>4. CASE \E opened, held \in BOOLEAN : InitializeRx(opened, held)
    BY <1>4 DEF InitializeRx, Listens
<1>5. CASE DeconfigureRx
    BY <1>5 DEF DeconfigureRx, ResetUart, Listens, rxRing
<1>6. CASE Hold
    BY <1>6 DEF Hold, ResetUart, Listens, rxRing
<1>7. CASE UNCHANGED rxVars
    BY <1>7 DEF rxVars, rxUart, rxRing, Listens
<1> QED BY <1>1, <1>2, <1>3, <1>4, <1>5, <1>6, <1>7 DEF RxNext

\* The indexes stay in the buffer, also when its size is not a power of two.
THEOREM RxInvariant == RxSpec => []RxInv
<1>1. RxInit => RxInv
    <2>1. (CHOOSE c \in Chars : TRUE) \in Chars /\ 0 \in 0..(RxSize - 1)
        BY ConsoleRxAssumption
    <2>2. RxInit => RxTypeOK
        <3> SUFFICES ASSUME RxInit PROVE RxTypeOK
            OBVIOUS
        <3>1. /\ {rx_open, linked, in_reset, ucrxie} \subseteq BOOLEAN
              /\ result \in BOOLEAN \X (Chars \cup {NoChar})
            BY DEF RxInit
        <3>2. rx_buffer \in [0..(RxSize - 1) -> Chars]
            BY <2>1 DEF RxInit
        <3> QED BY <2>1, <3>1, <3>2 DEF RxInit, RxTypeOK
    <2> QED BY <2>2 DEF RxInit, RxInv, Listens
<1> QED BY <1>1, StepKeepsRxInv, PTL DEF RxSpec

\* A console that is open listens, whatever was held, closed or failed to open.
THEOREM OpenListens == RxSpec => []Listens
<1>1. RxInv => Listens
    BY DEF RxInv
<1> QED BY <1>1, RxInvariant, PTL

\* The buffer's content in the terms of the lemmas about rings.
LEMMA ReceivedIsContent ==
    RxTypeOK => /\ Received = Content(RxSize, rx_buffer, rx_head, rx_tail)
                /\ Received \in Seq(Chars) /\ (Received = <<>> <=> rx_head = rx_tail)
                /\ rx_head \in 0..(RxSize - 1) /\ rx_tail \in 0..(RxSize - 1)
                /\ RxSize \in Nat /\ RxSize > 1
<1> SUFFICES ASSUME RxTypeOK
             PROVE  /\ Received = Content(RxSize, rx_buffer, rx_head, rx_tail)
                    /\ Received \in Seq(Chars) /\ (Received = <<>> <=> rx_head = rx_tail)
                    /\ rx_head \in 0..(RxSize - 1) /\ rx_tail \in 0..(RxSize - 1)
                    /\ RxSize \in Nat /\ RxSize > 1
    OBVIOUS
<1>1. /\ rx_head \in 0..(RxSize - 1) /\ rx_tail \in 0..(RxSize - 1)
      /\ RxSize \in Nat /\ RxSize > 1 /\ rx_buffer \in [0..(RxSize - 1) -> Chars]
    BY ConsoleRxAssumption DEF RxTypeOK
<1>2. Received = Content(RxSize, rx_buffer, rx_head, rx_tail)
    BY DEF Received, Content, Count, Place
<1>3. /\ Received \in Seq(Chars) /\ Len(Received) = Count(RxSize, rx_head, rx_tail)
      /\ Count(RxSize, rx_head, rx_tail) = 0 <=> rx_head = rx_tail
    BY <1>1, <1>2, ContentType
<1>4. Received = <<>> <=> Len(Received) = 0
    BY <1>3
<1> QED BY <1>1, <1>2, <1>3, <1>4

\* Every step is one of the queue's: a character in, the oldest read or looked
\* at, the console opened or closed, or nothing the queue tells apart.
LEMMA RxStepRefines ==
    ASSUME RxSize \in PowersOfTwo, RxInv, [RxNext]_rxVars
    PROVE  [Input!Next]_(Input!queueVars)
<1> SUFFICES Input!Next \/ UNCHANGED <<rx_open, Received, result>>
    BY DEF Input!queueVars
<1> USE ConsoleRxAssumption DEF RxInv
<1>0. /\ Received = Content(RxSize, rx_buffer, rx_head, rx_tail)
      /\ Received \in Seq(Chars) /\ (Received = <<>> <=> rx_head = rx_tail)
      /\ rx_head \in 0..(RxSize - 1) /\ rx_tail \in 0..(RxSize - 1)
      /\ RxSize \in Nat /\ RxSize > 1 /\ rx_buffer \in [0..(RxSize - 1) -> Chars]
    BY ReceivedIsContent DEF RxTypeOK
<1>1. CASE RxISR /\ linked
    <2>1. rx_open /\ rxbuf \in Chars /\ UNCHANGED <<rx_open, result>> /\ Store(rxbuf)
        BY <1>1 DEF RxISR, RxTypeOK
    <2>2. /\ rx_buffer' = Written(rx_buffer, rx_head, rxbuf)
          /\ rx_head' = After(RxSize, rx_head)
          /\ rx_tail' = IF After(RxSize, rx_head) = rx_tail THEN After(RxSize, rx_tail) ELSE rx_tail
        BY <2>1 DEF Store, After, Written
    <2>3. Received' = Content(RxSize, rx_buffer', rx_head', rx_tail')
        BY DEF Received, Content, Count, Place
    <2>4. Received' = Input!Newest(Append(Received, rxbuf))
        <3>1. CASE After(RxSize, rx_head) # rx_tail
            <4>1. Len(Received) <= RxSize - 2
                BY <1>0, <3>1, RoomInContent
            <4>2. Content(RxSize, Written(rx_buffer, rx_head, rxbuf), After(RxSize, rx_head), rx_tail)
                      = Append(Content(RxSize, rx_buffer, rx_head, rx_tail), rxbuf)
                <5>1. /\ rx_head \in 0..(RxSize - 1) /\ rx_tail \in 0..(RxSize - 1)
                      /\ RxSize \in Nat /\ RxSize > 1 /\ rxbuf \in Chars
                      /\ rx_buffer \in [0..(RxSize - 1) -> Chars]
                    BY <1>0, <2>1
                <5> HIDE ConsoleRxAssumption DEF RxInv
                <5> QED BY <3>1, <5>1, PutContent
            <4>3. Received' = Append(Received, rxbuf)
                BY <1>0, <2>2, <2>3, <3>1, <4>2
            <4>4. ~(Len(Append(Received, rxbuf)) > RxSize - 1)
                BY <1>0, <2>1, <4>1
            <4> QED BY <4>3, <4>4 DEF Input!Newest
        <3>2. CASE After(RxSize, rx_head) = rx_tail
            <4>1. /\ Len(Received) = RxSize - 1
                  /\ Content(RxSize, rx_buffer', rx_tail, After(RxSize, rx_tail))
                         = Tail(Append(Received, rxbuf))
                BY <1>0, <2>1, <2>2, <3>2, ReplaceContent
            <4>2. Len(Append(Received, rxbuf)) > RxSize - 1
                BY <1>0, <2>1, <4>1
            <4> QED BY <2>2, <2>3, <3>2, <4>1, <4>2 DEF Input!Newest
        <3> QED BY <3>1, <3>2
    <2>5. Input!Put
        BY <2>1, <2>4 DEF Input!Put
    <2> QED BY <2>5 DEF Input!Next
<1>2. CASE \E do_pop \in BOOLEAN : GetChar(do_pop)
    <2>1. PICK do_pop \in BOOLEAN : GetChar(do_pop)
        BY <1>2
    <2>2. /\ result' = <<do_pop, IF rx_head = rx_tail THEN NoChar ELSE rx_buffer[rx_tail]>>
          /\ UNCHANGED <<rx_open, rx_head, rx_buffer>>
          /\ rx_tail' = IF rx_head # rx_tail /\ do_pop THEN After(RxSize, rx_tail) ELSE rx_tail
        BY <1>0, <2>1, MaskIsRemainder DEF GetChar
    <2>3. CASE rx_head = rx_tail
        <3>1. Received = <<>> /\ result' = <<do_pop, NoChar>> /\ UNCHANGED <<rx_open, Received>>
            BY <1>0, <2>2, <2>3 DEF Received
        <3>2. CASE do_pop = TRUE
            BY <3>1, <3>2 DEF Input!Next, Input!Get, Input!First
        <3>3. CASE do_pop = FALSE
            BY <3>1, <3>3 DEF Input!Next, Input!Peek, Input!First
        <3> QED BY <3>2, <3>3
    <2>4. CASE rx_head # rx_tail
        <3> DEFINE z == Content(RxSize, rx_buffer, rx_head, After(RxSize, rx_tail))
                   c == rx_buffer[rx_tail]
        <3>1. z \in Seq(Chars) /\ c \in Chars /\ Received = <<c>> \o z
            BY <1>0, <2>4, PopContent
        <3> HIDE DEF z, c
        <3>2. Received # <<>> /\ Head(Received) = c /\ Tail(Received) = z
            BY <3>1
        <3>3. result' = <<do_pop, c>>
            BY <2>2, <2>4 DEF c
        <3>4. CASE do_pop = TRUE
            <4>1. Received' = z
                BY <2>2, <2>4, <3>4 DEF z, Received, Content, Count, Place
            <4> QED BY <2>2, <3>2, <3>3, <3>4, <4>1 DEF Input!Next, Input!Get, Input!First
        <3>5. CASE do_pop = FALSE
            <4>1. Received' = Received
                BY <2>2, <3>5 DEF Received
            <4> QED BY <2>2, <3>2, <3>3, <3>5, <4>1 DEF Input!Next, Input!Peek, Input!First
        <3> QED BY <3>4, <3>5
    <2> QED BY <2>3, <2>4
<1>3. CASE \E opened, held \in BOOLEAN : InitializeRx(opened, held)
    <2>1. ~rx_open /\ rx_open' \in BOOLEAN /\ UNCHANGED result /\ rx_head' = 0 /\ rx_tail' = 0
        BY <1>3 DEF InitializeRx
    <2>2. Received' = <<>>
        <3>1. Received' = Content(RxSize, rx_buffer', 0, 0)
            BY <2>1 DEF Received, Content, Count, Place
        <3>2. Count(RxSize, 0, 0) = 0
            BY ModFacts DEF Count
        <3> QED BY <3>1, <3>2 DEF Content
    <2> QED BY <2>1, <2>2 DEF Input!Next, Input!Open
<1>4. CASE DeconfigureRx
    <2>1. rx_open /\ rx_open' = FALSE /\ UNCHANGED <<Received, result>>
        BY <1>4 DEF DeconfigureRx, rxRing, Received
    <2> QED BY <2>1 DEF Input!Next, Input!Close
<1>5. CASE (RxISR /\ ~linked) \/ Hold \/ UNCHANGED rxVars \/ \E c \in Chars : Receive(c)
    <2>1. UNCHANGED <<rx_open, rxRing, result>>
        BY <1>5 DEF RxISR, Hold, rxVars, Receive
    <2> QED BY <2>1 DEF rxRing, Received
<1> QED BY <1>1, <1>2, <1>3, <1>4, <1>5 DEF RxNext

\* The application reads the newest characters in the order they came, none
\* twice: for any size that is a power of two, as the mask requires.
THEOREM RefinesQueue == RxSize \in PowersOfTwo /\ RxSpec => ImplementsQueue
<1> SUFFICES ASSUME RxSize \in PowersOfTwo PROVE RxSpec => ImplementsQueue
    OBVIOUS
<1>1. RxInit => Input!Init
    <2> SUFFICES ASSUME RxInit PROVE Input!Init
        OBVIOUS
    <2>1. Count(RxSize, 0, 0) = 0
        BY ModFacts, ConsoleRxAssumption DEF Count
    <2>2. Received = <<>>
        BY <2>1 DEF RxInit, Received, Count
    <2> QED BY <2>2 DEF RxInit, Input!Init
<1>2. RxInv /\ [RxNext]_rxVars => [Input!Next]_(Input!queueVars)
    BY RxStepRefines
<1> QED BY <1>1, <1>2, RxInvariant, PTL DEF RxSpec, ImplementsQueue, Input!Spec

-----------------------------------------------------------------------------
(* Numbers and recursion.                                                  *)

\* A set of naturals that is not empty has a least element.
LEMMA LeastOne ==
    ASSUME NEW T, T \subseteq Nat, T # {}
    PROVE  \E x \in T : \A y \in T : x <= y
<1> DEFINE R == {p \in Nat \X Nat : p[1] < p[2]}
<1>1. IsWellFoundedOn(R, Nat)
    BY NatLessThanWellFounded DEF OpToRel
<1> HIDE DEF R
<1>2. PICK x \in T : \A y \in T : ~(<<y, x>> \in R)
    BY <1>1, WFMin
<1>3. \A y, z \in Nat : y < z => <<y, z>> \in R
    BY DEF R
<1>4. ASSUME NEW y \in T PROVE x <= y
    <2>1. x \in Nat /\ y \in Nat /\ ~(y < x)
        BY <1>2, <1>3
    <2> QED BY <2>1
<1> QED BY <1>4

\* The minimum of naturals, and the maximum of naturals up to a bound.
LEMMA MinFacts ==
    ASSUME NEW T, T \subseteq Nat, T # {}
    PROVE  Min(T) \in T /\ \A y \in T : Min(T) <= y
<1>1. \E x \in T : \A y \in T : x <= y
    BY LeastOne
<1> QED BY <1>1 DEF Min

LEMMA MaxFacts ==
    ASSUME NEW n \in Nat, NEW T, T \subseteq 0..n, T # {}
    PROVE  Max(T) \in T /\ \A y \in T : y <= Max(T)
<1> DEFINE U == {m \in 0..n : n - m \in T}
<1>1. U \subseteq Nat /\ U # {}
    <2>1. PICK x \in T : TRUE
        OBVIOUS
    <2>2. x \in 0..n
        OBVIOUS
    <2>3. n - x \in 0..n /\ n - (n - x) = x
        BY <2>2
    <2>4. n - x \in U
        BY <2>1, <2>3
    <2>5. U \subseteq Nat
        OBVIOUS
    <2> HIDE DEF U
    <2> QED BY <2>4, <2>5
<1>2. PICK m \in U : \A k \in U : m <= k
    <2> HIDE DEF U
    <2> QED BY <1>1, LeastOne
<1>3. ASSUME NEW y \in T PROVE y <= n - m
    <2>1. y \in 0..n /\ m \in 0..n
        OBVIOUS
    <2>2. n - y \in 0..n /\ n - (n - y) = y
        BY <2>1
    <2>3. n - y \in U
        BY <2>2
    <2>4. m <= n - y
        BY <1>2, <2>3
    <2> QED BY <2>1, <2>4
<1>4. n - m \in T /\ \A y \in T : n - m >= y
    <2>1. \A y \in T : y \in Int
        OBVIOUS
    <2>2. n - m \in Int /\ n - m \in T
        OBVIOUS
    <2> QED BY <1>3, <2>1, <2>2
<1>5. Max(T) \in T /\ \A y \in T : Max(T) >= y
    BY <1>4 DEF Max
<1>6. \A y \in T : y \in Int
    OBVIOUS
<1> QED BY <1>5, <1>6

\* The largest of some numbers, or zero.
LEMMA LastOf ==
    ASSUME NEW n \in Nat, NEW C, C \subseteq 1..n
    PROVE  /\ Max({0} \union C) \in 0..n
           /\ Max({0} \union C) # 0 => Max({0} \union C) \in C
           /\ \A i \in C : i <= Max({0} \union C)
<1> DEFINE T == {0} \union C
<1>1. 0 \in 0..n /\ \A i \in 1..n : i \in 0..n
    OBVIOUS
<1>2. T \subseteq 0..n /\ 0 \in T
    BY <1>1, Zenon
<1>3. \A i \in C : i \in T
    OBVIOUS
<1>4. \A i \in T : i # 0 => i \in C
    OBVIOUS
<1> HIDE DEF T
<1>5. Max(T) \in T /\ \A y \in T : y <= Max(T)
    BY <1>2, MaxFacts
<1>6. Max(T) \in 0..n /\ (Max(T) # 0 => Max(T) \in C) /\ \A i \in C : i <= Max(T)
    BY <1>2, <1>3, <1>4, <1>5, Zenon
<1> QED BY <1>6 DEF T

\* What each step keeps holds at the end, if it holds at the start.
LEMMA Climb ==
    ASSUME NEW S, NEW N \in Nat, NEW f, f[0] \in S,
           \A n \in 1..N : f[n - 1] \in S => f[n] \in S
    PROVE  f[N] \in S
<1> DEFINE T == {m \in 0..N : f[m] \notin S}
<1>1. T = {}
    <2> SUFFICES ASSUME T # {} PROVE FALSE
        OBVIOUS
    <2>1. PICK m \in T : \A k \in T : m <= k
        BY LeastOne, T \subseteq Nat
    <2>2. m \in 1..N
        OBVIOUS
    <2>3. m - 1 \in 0..N /\ m - 1 \notin T
        BY <2>1, <2>2
    <2> QED BY <2>1, <2>2, <2>3
<1> QED BY <1>1

\* Each value of f is made from the one before.
Steps(f, N, a, g) == f = [n \in 0..N |-> IF n = 0 THEN a ELSE g[<<n, f[n - 1]>>]]

\* What is defined from its predecessor exists, and has the type that each
\* step keeps.
LEMMA Recursion ==
    ASSUME NEW S, NEW a \in S, NEW N \in Nat, NEW g \in [(1..N) \X S -> S]
    PROVE  \E f \in [0..N -> S] : Steps(f, N, a, g)
<1> DEFINE Defined(m) == \E f \in [0..m -> S] :
                            f = [n \in 0..m |-> IF n = 0 THEN a ELSE g[<<n, f[n - 1]>>]]
           T == {m \in 0..N : ~Defined(m)}
<1>1. Defined(0)
    <2> DEFINE f == [n \in 0..0 |-> a]
    <2>1. f \in [0..0 -> S]
        OBVIOUS
    <2>2. f = [n \in 0..0 |-> IF n = 0 THEN a ELSE g[<<n, f[n - 1]>>]]
        OBVIOUS
    <2> QED BY <2>1, <2>2
<1>2. ASSUME NEW m \in 1..N, Defined(m - 1) PROVE Defined(m)
    <2>1. PICK f \in [0..(m - 1) -> S] :
              f = [n \in 0..(m - 1) |-> IF n = 0 THEN a ELSE g[<<n, f[n - 1]>>]]
        BY <1>2
    <2> DEFINE h == [n \in 0..m |-> IF n = m THEN g[<<m, f[m - 1]>>] ELSE f[n]]
    <2>2. f[m - 1] \in S /\ g[<<m, f[m - 1]>>] \in S
        BY <2>1
    <2>3. h \in [0..m -> S]
        BY <2>2
    <2>4. ASSUME NEW n \in 0..m
          PROVE  h[n] = IF n = 0 THEN a ELSE g[<<n, h[n - 1]>>]
        <3>1. CASE n = m
            <4>1. m - 1 \in 0..m /\ m - 1 # m /\ m # 0
                OBVIOUS
            <4>2. h[m - 1] = f[m - 1]
                BY <4>1
            <4> QED BY <3>1, <4>1, <4>2
        <3>2. CASE n # m
            <4>1. n \in 0..(m - 1) /\ h[n] = f[n]
                BY <3>2
            <4>2. n # 0 => n - 1 \in 0..m /\ n - 1 # m
                BY <4>1
            <4>3. n # 0 => h[n - 1] = f[n - 1]
                BY <4>2
            <4>4. f[n] = IF n = 0 THEN a ELSE g[<<n, f[n - 1]>>]
                BY <2>1, <4>1
            <4> QED BY <4>1, <4>3, <4>4
        <3> QED BY <3>1, <3>2
    <2>5. h = [n \in 0..m |-> IF n = 0 THEN a ELSE g[<<n, h[n - 1]>>]]
        <3> HIDE DEF h
        <3> QED BY <2>3, <2>4
    <2> HIDE DEF h
    <2> QED BY <2>3, <2>5
<1> HIDE DEF Defined
<1>3. T = {}
    <2> SUFFICES ASSUME T # {} PROVE FALSE
        OBVIOUS
    <2>1. PICK m \in T : \A k \in T : m <= k
        BY LeastOne, T \subseteq Nat
    <2>2. m \in 1..N
        BY <1>1, <2>1
    <2>3. m - 1 \in 0..N /\ m - 1 \notin T
        BY <2>1, <2>2
    <2> QED BY <1>2, <2>1, <2>2, <2>3
<1>4. Defined(N)
    BY <1>3
<1> QED BY <1>4 DEF Defined, Steps

-----------------------------------------------------------------------------
(* What the command search and completion work with.                       *)

Texts == Seq(LineChars)

\* The results of the search, and the candidates for completion: of those the
\* first reaches as far as what all have in common.
Links == [set : Seq(Nodes), cmd : Nodes \union {Null}, args : Texts, text : Texts]

CompletionData ==
    {cdp \in [candidates : Seq(Seq(Letters)), append_len : Nat] :
        cdp.append_len = 0 \/ /\ Len(cdp.candidates) > 0
                              /\ cdp.append_len <= Len(cdp.candidates[1])}

\* A part of a text.
LEMMA PartOfText ==
    ASSUME NEW S, NEW q \in Seq(S), NEW m \in Nat \ {0}, NEW n \in 0..Len(q)
    PROVE  /\ SubSeq(q, m, n) \in Seq(S)
           /\ m <= n + 1 => Len(SubSeq(q, m, n)) = n - m + 1
           /\ \A i \in 1..(n - m + 1) : SubSeq(q, m, n)[i] = q[m + i - 1]
<1>1. Len(q) \in Nat /\ m \in Int /\ n \in Int
    OBVIOUS
<1>2. \A i \in m..n : q[i] \in S
    BY <1>1
<1>3. /\ SubSeq(q, m, n) \in Seq(S)
      /\ Len(SubSeq(q, m, n)) = IF m <= n THEN n - m + 1 ELSE 0
      /\ \A i \in 1..(n - m + 1) : SubSeq(q, m, n)[i] = q[m + i - 1]
    BY <1>1, <1>2, SubSeqProperties
<1> QED BY <1>1, <1>3

LEMMA OneElement ==
    ASSUME NEW S, NEW a \in S
    PROVE  <<a>> \in Seq(S) /\ Len(<<a>>) = 1 /\ <<a>>[1] = a
OBVIOUS

\* A token and what is behind it are parts of the text.
LEMMA NextTokenType ==
    ASSUME NEW t \in Texts
    PROVE  NextToken(t) \in [key : Texts, rest : Texts]
<1> DEFINE A == {i \in 1..Len(t) : t[i] # Blank} \union {Len(t) + 1}
           first == Min(A)
           B == {i \in first..Len(t) : t[i] = Blank} \union {Len(t) + 1}
           end == Min(B)
<1>1. Len(t) \in Nat
    BY DEF Texts
<1>2. A \subseteq 1..(Len(t) + 1) /\ Len(t) + 1 \in A
    <2>1. \A i \in 1..Len(t) : i \in 1..(Len(t) + 1)
        BY <1>1
    <2>2. Len(t) + 1 \in 1..(Len(t) + 1)
        BY <1>1
    <2> QED BY <2>1, <2>2, Zenon
<1>3. first \in 1..(Len(t) + 1)
    <2> HIDE DEF A
    <2>1. A \subseteq Nat
        BY <1>1, <1>2
    <2> QED BY <1>2, <2>1, MinFacts
<1> HIDE DEF A, first
<1>4. B \subseteq 1..(Len(t) + 1) /\ Len(t) + 1 \in B
    <2>1. \A i \in first..Len(t) : i \in 1..(Len(t) + 1)
        BY <1>1, <1>3
    <2>2. Len(t) + 1 \in 1..(Len(t) + 1)
        BY <1>1
    <2> QED BY <2>1, <2>2, Zenon
<1>5. end \in 1..(Len(t) + 1)
    <2> HIDE DEF B
    <2>1. B \subseteq Nat
        BY <1>1, <1>4
    <2> QED BY <1>4, <2>1, MinFacts
<1> HIDE DEF B, end
<1>6. SubSeq(t, first, end - 1) \in Texts
    <2>1. first \in Nat \ {0} /\ end - 1 \in 0..Len(t)
        BY <1>1, <1>3, <1>5
    <2> QED BY <2>1, PartOfText DEF Texts
<1>7. SubSeq(t, end, Len(t)) \in Texts
    <2>1. end \in Nat \ {0} /\ Len(t) \in 0..Len(t)
        BY <1>1, <1>5
    <2> QED BY <2>1, PartOfText DEF Texts
<1>8. NextToken(t) = [key |-> SubSeq(t, first, end - 1), rest |-> SubSeq(t, end, Len(t))]
    BY DEF NextToken, first, end, A, B
<1> QED BY <1>6, <1>7, <1>8

\* One call of the search.
LEMMA CommandLinkType ==
    ASSUME NEW cmds \in Seq(Nodes), NEW t \in Texts
    PROVE  CommandLink(cmds, t) \in Links
<1> DEFINE token == NextToken(t)
           matches == MatchCommand(cmds, token.key)
           found == token.key # << >> /\ Cardinality(matches) = 1
           cmd == IF found THEN cmds[CHOOSE i \in matches : TRUE] ELSE Null
           args == IF found THEN token.rest ELSE t
<1>1. token.rest \in Texts
    BY NextTokenType
<1>2. matches \subseteq 1..Len(cmds)
    BY DEF MatchCommand
<1>3. CommandLink(cmds, t) = [set |-> cmds, cmd |-> cmd, args |-> args, text |-> t]
    BY DEF CommandLink
<1> HIDE DEF token, matches
<1>4. cmd \in Nodes \union {Null}
    <2>1. CASE found
        <3>1. matches # {}
            <4>1. Cardinality({}) = 0
                BY FS_EmptySet
            <4>2. Cardinality(matches) = 1
                BY <2>1, Zenon
            <4>3. matches = {} => 0 = 1
                BY <4>1, <4>2, Zenon
            <4> QED BY <4>3
        <3>2. (CHOOSE i \in matches : TRUE) \in matches
            BY <3>1
        <3>3. (CHOOSE i \in matches : TRUE) \in 1..Len(cmds)
            BY <1>2, <3>2
        <3>4. \A i \in 1..Len(cmds) : cmds[i] \in Nodes
            OBVIOUS
        <3> QED BY <2>1, <3>3, <3>4
    <2> QED BY <2>1
<1>5. args \in Texts
    BY <1>1
<1> HIDE DEF found, cmd, args
<1> QED BY <1>3, <1>4, <1>5 DEF Links

LEMMA NextLinkType ==
    ASSUME NEW link \in Links
    PROVE  NextLink(link) \in Links
<1>1. link.cmd \in Nodes \union {Null} /\ link.args \in Texts
    BY DEF Links
<1>2. link.cmd # Null => Commands[link.cmd] \in Seq(Nodes)
    BY <1>1, CliAssumption
<1> QED BY <1>1, <1>2, CommandLinkType DEF NextLink

\* However many calls the search takes, it ends with a command and texts.
LEMMA ProcessSubcommandType ==
    ASSUME NEW t \in Texts
    PROVE  ProcessSubcommand(t) \in Links
<1> DEFINE a == CommandLink(Commands[Root], t)
           Step(f) == [n \in 0..Len(t) |-> IF n = 0 THEN a ELSE NextLink(f[n - 1])]
           calls == CHOOSE f : f = Step(f)
           g == [x \in (1..Len(t)) \X Links |-> NextLink(x[2])]
<1>1. Len(t) \in Nat
    BY DEF Texts
<1>2. a \in Links
    BY CommandLinkType, CliAssumption
<1>3. g \in [(1..Len(t)) \X Links -> Links]
    BY NextLinkType
<1>4. \A n \in 1..Len(t) : \A x \in Links : g[<<n, x>>] = NextLink(x)
    OBVIOUS
<1> HIDE DEF a, g
<1>5. PICK f \in [0..Len(t) -> Links] : Steps(f, Len(t), a, g)
    BY <1>1, <1>2, <1>3, Recursion, Zenon
<1>6. f = Step(f)
    <2>1. ASSUME NEW n \in 0..Len(t), n # 0 PROVE g[<<n, f[n - 1]>>] = NextLink(f[n - 1])
        <3>1. n \in 1..Len(t) /\ n - 1 \in 0..Len(t)
            BY <1>1, <2>1
        <3> QED BY <1>4, <3>1
    <2> QED BY <1>5, <2>1 DEF Steps
<1>7. calls = Step(calls)
    BY <1>6
<1> HIDE DEF calls
<1>8. calls[0] \in Links
    BY <1>1, <1>2, <1>7
<1>9. \A n \in 1..Len(t) : calls[n - 1] \in Links => calls[n] \in Links
    <2> TAKE n \in 1..Len(t)
    <2>1. n \in 0..Len(t) /\ n # 0
        BY <1>1
    <2>2. calls[n] = NextLink(calls[n - 1])
        BY <1>7, <2>1
    <2> QED BY <2>2, NextLinkType
<1>10. calls[Len(t)] \in Links
    BY <1>1, <1>8, <1>9, Climb
<1> QED BY <1>10 DEF ProcessSubcommand, calls, a

LEMMA CompletionDataMember ==
    ASSUME NEW c \in Seq(Seq(Letters)), NEW n \in Nat,
           n = 0 \/ (Len(c) > 0 /\ n <= Len(c[1]))
    PROVE  [candidates |-> c, append_len |-> n] \in CompletionData
<1> DEFINE r == [candidates |-> c, append_len |-> n]
<1>1. r \in [candidates : Seq(Seq(Letters)), append_len : Nat]
    OBVIOUS
<1>2. r.candidates = c /\ r.append_len = n
    OBVIOUS
<1> HIDE DEF r
<1>3. r.append_len = 0 \/ (Len(r.candidates) > 0 /\ r.append_len <= Len(r.candidates[1]))
    BY <1>2
<1>4. r \in CompletionData
    BY <1>1, <1>3, Zenon DEF CompletionData
<1> QED BY <1>4 DEF r

\* A further candidate: the part in common cannot grow.
LEMMA CallbackType ==
    ASSUME NEW cdp \in CompletionData, NEW key \in Seq(Letters)
    PROVE  CompletionHelperCallback(cdp, key) \in CompletionData
<1>1. /\ cdp.candidates \in Seq(Seq(Letters)) /\ cdp.append_len \in Nat
      /\ cdp.append_len = 0 \/ /\ Len(cdp.candidates) > 0
                               /\ cdp.append_len <= Len(cdp.candidates[1])
    BY DEF CompletionData
<1>2. Len(key) \in Nat
    OBVIOUS
<1>3. CASE cdp.candidates = << >>
    <2>1. <<key>> \in Seq(Seq(Letters)) /\ Len(<<key>>) = 1 /\ <<key>>[1] = key
        OBVIOUS
    <2>2. CompletionHelperCallback(cdp, key) = [candidates |-> <<key>>, append_len |-> Len(key)]
        BY <1>3 DEF CompletionHelperCallback
    <2>3. Len(<<key>>) > 0 /\ Len(key) <= Len(<<key>>[1])
        BY <1>2, <2>1
    <2> QED BY <1>2, <2>1, <2>2, <2>3, CompletionDataMember
<1>4. CASE cdp.candidates # << >>
    <2> DEFINE limit == Min({cdp.append_len, Len(key)})
               M == {n \in 0..limit : SubSeq(key, 1, n) = SubSeq(cdp.candidates[1], 1, n)}
               more == Append(cdp.candidates, key)
    <2>1. limit \in Nat /\ limit <= cdp.append_len
        <3>1. {cdp.append_len, Len(key)} \subseteq Nat
            BY <1>1, <1>2
        <3>2. /\ limit \in {cdp.append_len, Len(key)}
              /\ \A y \in {cdp.append_len, Len(key)} : limit <= y
            BY <3>1, MinFacts
        <3> HIDE DEF limit
        <3> QED BY <3>1, <3>2
    <2> HIDE DEF limit
    <2>2. Len(cdp.candidates) > 0 /\ cdp.candidates[1] \in Seq(Letters)
        BY <1>1, <1>4
    <2>3. Max(M) \in 0..limit
        <3>1. 0 \in M
            <4>1. SubSeq(key, 1, 0) = << >> /\ SubSeq(cdp.candidates[1], 1, 0) = << >>
                BY <2>2
            <4> QED BY <2>1, <4>1
        <3>2. M \subseteq 0..limit
            OBVIOUS
        <3> HIDE DEF M
        <3>3. Max(M) \in M
            BY <2>1, <3>1, <3>2, MaxFacts
        <3> QED BY <3>2, <3>3
    <2>4. more \in Seq(Seq(Letters)) /\ Len(more) > 0 /\ more[1] = cdp.candidates[1]
        BY <1>1, <2>2
    <2>5. CompletionHelperCallback(cdp, key) = [candidates |-> more, append_len |-> Max(M)]
        BY <1>4 DEF CompletionHelperCallback, limit
    <2> HIDE DEF M, more
    <2>6. Max(M) = 0 \/ Max(M) <= Len(more[1])
        <3>1. Len(cdp.candidates[1]) \in Nat
            BY <2>2
        <3> QED BY <1>1, <2>1, <2>3, <2>4, <3>1
    <2>7. Max(M) \in Nat
        BY <2>1, <2>3
    <2> QED BY <2>4, <2>5, <2>6, <2>7, CompletionDataMember
<1> QED BY <1>3, <1>4

\* However many commands are walked over.
LEMMA CandidatesType ==
    ASSUME NEW cmds \in Seq(Nodes), NEW key
    PROVE  Candidates(cmds, key) \in CompletionData
<1> DEFINE a == [candidates |-> << >>, append_len |-> 0]
           One(n, x) == IF n \in MatchCommand(cmds, key)
                        THEN CompletionHelperCallback(x, Key[cmds[n]]) ELSE x
           Step(f) == [n \in 0..Len(cmds) |-> IF n = 0 THEN a
                                              ELSE IF n \in MatchCommand(cmds, key)
                                              THEN CompletionHelperCallback(f[n - 1], Key[cmds[n]])
                                              ELSE f[n - 1]]
           cdp == CHOOSE f : f = Step(f)
           g == [x \in (1..Len(cmds)) \X CompletionData |-> One(x[1], x[2])]
<1>1. Len(cmds) \in Nat
    OBVIOUS
<1>2. a \in CompletionData
    BY DEF CompletionData
<1>3. \A n \in 1..Len(cmds) : \A x \in CompletionData : One(n, x) \in CompletionData
    <2> TAKE n \in 1..Len(cmds)
    <2> TAKE x \in CompletionData
    <2>1. cmds[n] \in Nodes
        OBVIOUS
    <2>2. Key[cmds[n]] \in Seq(Letters)
        BY <2>1, CliAssumption
    <2> QED BY <2>2, CallbackType
<1>5. \A f : Step(f) = [n \in 0..Len(cmds) |-> IF n = 0 THEN a ELSE One(n, f[n - 1])]
    OBVIOUS
<1> HIDE DEF One
<1>6. g \in [(1..Len(cmds)) \X CompletionData -> CompletionData]
    BY <1>3
<1>7. \A n \in 1..Len(cmds) : \A x \in CompletionData : g[<<n, x>>] = One(n, x)
    OBVIOUS
<1> HIDE DEF a, g, Step
<1>8. PICK f \in [0..Len(cmds) -> CompletionData] : Steps(f, Len(cmds), a, g)
    BY <1>1, <1>2, <1>6, Recursion, Zenon
<1>9. f = Step(f)
    <2>1. ASSUME NEW n \in 0..Len(cmds), n # 0 PROVE g[<<n, f[n - 1]>>] = One(n, f[n - 1])
        <3>1. n \in 1..Len(cmds) /\ n - 1 \in 0..Len(cmds)
            BY <1>1, <2>1
        <3> QED BY <1>7, <3>1
    <2> QED BY <1>5, <1>8, <2>1 DEF Steps
<1>10. cdp = Step(cdp)
    BY <1>9
<1> HIDE DEF cdp
<1>11. cdp[0] \in CompletionData
    BY <1>1, <1>2, <1>5, <1>10
<1>12. \A n \in 1..Len(cmds) : cdp[n - 1] \in CompletionData => cdp[n] \in CompletionData
    <2> TAKE n \in 1..Len(cmds)
    <2>1. n \in 0..Len(cmds) /\ n # 0
        BY <1>1
    <2>2. cdp[n] = One(n, cdp[n - 1])
        BY <1>5, <1>10, <2>1
    <2> QED BY <1>3, <2>2
<1>13. cdp[Len(cmds)] \in CompletionData
    BY <1>1, <1>11, <1>12, Climb
<1> QED BY <1>13 DEF Candidates, cdp, Step, a

\* Completion appends a text.
LEMMA CompletionType ==
    ASSUME NEW t \in Texts
    PROVE  Completion(t).append \in Texts
<1> DEFINE link == ProcessSubcommand(t)
           cmds == IF link.cmd = Null THEN link.set ELSE Commands[link.cmd]
           key == NextToken(link.args).key
           cdp == Candidates(cmds, key)
           typed == NextToken(link.text).key
           rest == SubSeq(Key[link.cmd], Len(typed) + 1, Len(Key[link.cmd])) \o <<Blank>>
           common == SubSeq(cdp.candidates[1], Len(key) + 1, cdp.append_len)
           space == IF Len(cdp.candidates) = 1 THEN <<Blank>> ELSE << >>
<1>1. link \in Links
    BY ProcessSubcommandType
<1>2. Completion(t).append =
          IF link.cmd # Null /\ link.args = << >> THEN rest
          ELSE IF Len(key) < cdp.append_len THEN common \o space ELSE << >>
    BY DEF Completion
<1> HIDE DEF link
<1>3. /\ link.cmd \in Nodes \union {Null} /\ link.set \in Seq(Nodes)
      /\ link.args \in Texts /\ link.text \in Texts
    BY <1>1 DEF Links
<1>4. cmds \in Seq(Nodes)
    BY <1>3, CliAssumption
<1>5. key \in Texts /\ typed \in Texts
    BY <1>3, NextTokenType
<1> HIDE DEF cmds, key, typed
<1>6. cdp \in CompletionData
    BY <1>4, CandidatesType
<1>7. Len(key) \in Nat /\ Len(typed) \in Nat
    BY <1>5 DEF Texts
<1>8. /\ Seq(Letters) \subseteq Texts /\ <<Blank>> \in Texts /\ << >> \in Texts
      /\ \A u, v \in Texts : u \o v \in Texts
    <2>1. Letters \subseteq LineChars /\ Blank \in LineChars
        BY DEF LineChars
    <2>2. Seq(Letters) \subseteq Texts
        BY <2>1, SeqMonotonic, Zenon DEF Texts
    <2>3. <<Blank>> \in Texts /\ << >> \in Texts
        BY <2>1, OneElement, EmptySeq, Zenon DEF Texts
    <2>4. ASSUME NEW u \in Texts, NEW v \in Texts PROVE u \o v \in Texts
        BY ConcatProperties DEF Texts
    <2> QED BY <2>2, <2>3, <2>4
<1>9. ASSUME link.cmd # Null PROVE rest \in Texts
    <2>1. Key[link.cmd] \in Seq(Letters)
        BY <1>3, <1>9, CliAssumption
    <2>2. SubSeq(Key[link.cmd], Len(typed) + 1, Len(Key[link.cmd])) \in Seq(Letters)
        <3>1. Len(typed) + 1 \in Nat \ {0}
            BY <1>7
        <3>2. Len(Key[link.cmd]) \in 0..Len(Key[link.cmd])
            BY <2>1
        <3> QED BY <2>1, <3>1, <3>2, PartOfText
    <2> QED BY <1>8, <2>2
<1> HIDE DEF cdp
<1>10. ASSUME Len(key) < cdp.append_len PROVE common \o space \in Texts
    <2>1. /\ cdp.candidates \in Seq(Seq(Letters)) /\ cdp.append_len \in Nat
          /\ cdp.append_len # 0 => /\ Len(cdp.candidates) > 0
                                   /\ cdp.append_len <= Len(cdp.candidates[1])
        BY <1>6 DEF CompletionData
    <2>2. cdp.candidates[1] \in Seq(Letters) /\ cdp.append_len \in 0..Len(cdp.candidates[1])
        BY <1>7, <1>10, <2>1
    <2>3. common \in Seq(Letters)
        <3>1. Len(key) + 1 \in Nat \ {0}
            BY <1>7
        <3> QED BY <2>2, <3>1, PartOfText
    <2>4. space \in Texts
        BY <1>8
    <2> QED BY <1>8, <2>3, <2>4
<1> QED BY <1>2, <1>8, <1>9, <1>10

-----------------------------------------------------------------------------
(* The line and the terminal.                                              *)

\* The terminal shows the line; it has room for what completion is to append.
CliInv ==
    /\ line \in Texts /\ Len(line) < LineSize
    /\ loop \in {"input", "escape", "csi", "complete", "repaint", "ready"}
    /\ ScreenShowsLine
    /\ loop = "complete" => ~Overfills

\* What a terminal shows.
Shown == LineChars \union {">"}

LEMMA PromptFacts ==
    /\ Prompt \in Seq(Shown) /\ Len(Prompt) = 2
    /\ Texts \subseteq Seq(Shown)
<1>1. ">" \in Shown /\ Blank \in Shown /\ LineChars \subseteq Shown
    BY DEF Shown, LineChars
<1>2. \A t \in Texts : t \in Seq(Shown)
    BY <1>1, SeqMonotonic, Zenon DEF Texts
<1>3. Prompt \in Seq(Shown) /\ Len(Prompt) = 2
    <2> DEFINE S == Shown
    <2> HIDE DEF S
    <2>1. \A a, b \in S : <<a, b>> \in Seq(S) /\ Len(<<a, b>>) = 2
        OBVIOUS
    <2> QED BY <1>1, <2>1, Zenon DEF Prompt, S
<1> QED BY <1>2, <1>3, Zenon

\* Text put behind the line is shown behind it.
LEMMA ShowsMore ==
    ASSUME NEW s \in Texts, NEW t \in Texts
    PROVE  (Prompt \o s) \o t = Prompt \o (s \o t)
<1>1. Prompt \in Seq(Shown) /\ s \in Seq(Shown) /\ t \in Seq(Shown)
    BY PromptFacts, Zenon
<1> DEFINE p == Prompt
           S == Shown
<1> HIDE DEF p, S
<1>2. \A x, y, z \in Seq(S) : (x \o y) \o z = x \o (y \o z)
    BY ConcatAssociative
<1>3. (p \o s) \o t = p \o (s \o t)
    BY <1>1, <1>2, Zenon DEF p, S
<1> QED BY <1>3 DEF p

LEMMA ShowsText ==
    ASSUME NEW s \in Texts
    PROVE  /\ Prompt \o s \in Seq(Shown) /\ Len(Prompt \o s) = 2 + Len(s)
           /\ \A i \in 1..(2 + Len(s)) :
                  (Prompt \o s)[i] = IF i <= 2 THEN Prompt[i] ELSE s[i - 2]
<1>1. Prompt \in Seq(Shown) /\ Len(Prompt) = 2 /\ s \in Seq(Shown)
    BY PromptFacts, Zenon
<1>2. /\ Prompt \o s \in Seq(Shown) /\ Len(Prompt \o s) = Len(Prompt) + Len(s)
      /\ \A i \in 1..(Len(Prompt) + Len(s)) :
             (Prompt \o s)[i] = IF i <= Len(Prompt) THEN Prompt[i] ELSE s[i - Len(Prompt)]
    BY <1>1, ConcatProperties, Zenon
<1> QED BY <1>1, <1>2, Zenon

\* What stays of the line is shown when the rest of it is erased.
LEMMA ShowsLess ==
    ASSUME NEW s \in Texts, NEW k \in 0..Len(s)
    PROVE  /\ SubSeq(s, 1, k) \in Texts /\ Len(SubSeq(s, 1, k)) = k
           /\ SubSeq(Prompt \o s, 1, 2 + k) = Prompt \o SubSeq(s, 1, k)
<1> DEFINE p == Prompt
           kept == SubSeq(s, 1, k)
           all == p \o s
<1>1. p \in Seq(Shown) /\ Len(p) = 2 /\ s \in Seq(Shown) /\ Len(s) \in Nat
    <2>1. Len(s) \in Nat
        BY LenProperties, Zenon DEF Texts
    <2> QED BY <2>1, PromptFacts, Zenon
<1>2. /\ kept \in Texts /\ Len(kept) = k
      /\ \A i \in 1..k : kept[i] = s[i]
    <2>1. k + 1 >= 1 /\ 1 \in Nat \ {0} /\ k - 1 + 1 = k
        BY <1>1
    <2>2. /\ kept \in Seq(LineChars)
          /\ 1 <= k + 1 => Len(kept) = k - 1 + 1
          /\ \A i \in 1..(k - 1 + 1) : kept[i] = s[1 + i - 1]
        BY <2>1, PartOfText, Zenon DEF Texts
    <2>3. \A i \in 1..k : 1 + i - 1 = i
        BY <1>1
    <2> QED BY <1>1, <2>1, <2>2, <2>3 DEF Texts
<1> HIDE DEF p, kept
<1>3. kept \in Seq(Shown)
    BY <1>2, PromptFacts, Zenon
<1>4. /\ all \in Seq(Shown) /\ Len(all) = 2 + Len(s)
      /\ \A i \in 1..(2 + Len(s)) : all[i] = IF i <= 2 THEN p[i] ELSE s[i - 2]
    BY ShowsText, Zenon DEF p
<1>5. /\ p \o kept \in Seq(Shown) /\ Len(p \o kept) = 2 + k
      /\ \A i \in 1..(2 + k) : (p \o kept)[i] = IF i <= 2 THEN p[i] ELSE kept[i - 2]
    <2>1. /\ p \o kept \in Seq(Shown) /\ Len(p \o kept) = 2 + Len(kept)
          /\ \A i \in 1..(2 + Len(kept)) :
                 (p \o kept)[i] = IF i <= 2 THEN p[i] ELSE kept[i - 2]
        BY <1>2, ShowsText, Zenon DEF p
    <2> QED BY <1>2, <2>1, Zenon
<1> HIDE DEF all
<1>6. /\ SubSeq(all, 1, 2 + k) \in Seq(Shown) /\ Len(SubSeq(all, 1, 2 + k)) = 2 + k
      /\ \A i \in 1..(2 + k) : SubSeq(all, 1, 2 + k)[i] = all[i]
    BY <1>1, <1>4, PartOfText
<1>7. \A i \in 1..(2 + k) : SubSeq(all, 1, 2 + k)[i] = (p \o kept)[i]
    BY <1>1, <1>2, <1>4, <1>5, <1>6
<1>8. SubSeq(all, 1, 2 + k) = p \o kept
    BY <1>5, <1>6, <1>7, SeqEqual
<1> QED BY <1>2, <1>8 DEF all, p, kept

\* Erasing as much as the line loses.
LEMMA ErasesRest ==
    ASSUME line \in Texts, screen = Prompt \o line, NEW k \in 0..(Len(line) - 1)
    PROVE  EraseLeft(Len(line) - k) = Prompt \o SubSeq(line, 1, k)
<1>1. Len(line) \in Nat /\ k \in 0..Len(line)
    BY LenProperties DEF Texts
<1>2. Len(screen) = 2 + Len(line)
    BY ShowsText, Zenon
<1>3. Max({Len(line) - k, 1}) = Len(line) - k
    <2> DEFINE n == Len(line) - k
    <2>1. n \in Nat /\ n >= 1 /\ {n, 1} \subseteq 0..n
        BY <1>1
    <2> HIDE DEF n
    <2>2. Max({n, 1}) \in {n, 1} /\ \A y \in {n, 1} : y <= Max({n, 1})
        BY <2>1, MaxFacts
    <2>3. Max({n, 1}) = n
        BY <2>1, <2>2
    <2> QED BY <2>3 DEF n
<1>4. Max({0, Len(screen) - (Len(line) - k)}) = 2 + k
    <2>1. Len(screen) - (Len(line) - k) = 2 + k
        BY <1>1, <1>2
    <2>2. 2 + k \in Nat /\ {0, 2 + k} \subseteq 0..(2 + k)
        BY <1>1
    <2>3. Max({0, 2 + k}) \in {0, 2 + k} /\ \A y \in {0, 2 + k} : y <= Max({0, 2 + k})
        BY <2>2, MaxFacts
    <2>4. Max({0, 2 + k}) = 2 + k
        BY <2>2, <2>3
    <2> QED BY <2>1, <2>4
<1>5. EraseLeft(Len(line) - k) = SubSeq(Prompt \o line, 1, 2 + k)
    BY <1>3, <1>4 DEF EraseLeft
<1> QED BY <1>1, <1>5, ShowsLess

\* Killing a word leaves a part of the line.
LEMMA KeptIsShorter ==
    ASSUME line \in Texts, line # << >>
    PROVE  KeptLength \in 0..(Len(line) - 1)
<1> DEFINE C == {k \in 1..(Len(line) - 1) : line[k + 1] # Blank}
           last == Max({0} \union C)
           D == {k \in 1..(last - 1) : line[k + 1] = Blank}
           from == Max({0} \union D)
<1>1. Len(line) \in Nat \ {0}
    BY EmptySeq, LenProperties DEF Texts
<1>2. last \in 0..(Len(line) - 1)
    <2>1. Len(line) - 1 \in Nat /\ C \subseteq 1..(Len(line) - 1)
        BY <1>1
    <2> HIDE DEF C
    <2> QED BY <2>1, LastOf
<1> HIDE DEF C, last
<1>3. last # 0 => from \in 0..(last - 1)
    <2> HAVE last # 0
    <2>1. last - 1 \in Nat /\ D \subseteq 1..(last - 1)
        BY <1>2
    <2> HIDE DEF D
    <2> QED BY <2>1, LastOf
<1>4. KeptLength = IF last = 0 THEN 0 ELSE from + 1
    BY DEF KeptLength, last, C
<1> HIDE DEF D, from
<1> QED BY <1>1, <1>2, <1>3, <1>4

\* Every key leaves on the terminal what it leaves of the line.
LEMMA EditStep ==
    ASSUME CliInv, Edit, "empty" \notin Unusual
    PROVE  CliInv'
<1>1. /\ loop = "input" /\ loop' = "input" /\ line \in Texts /\ Len(line) < LineSize
      /\ screen = Prompt \o line /\ Len(line) \in Nat /\ LineSize \in Nat
    <2>1. /\ loop = "input" /\ loop' = "input" /\ line \in Texts /\ Len(line) < LineSize
          /\ screen = Prompt \o line
        BY DEF CliInv, Edit, ScreenShowsLine
    <2> QED BY <2>1, LenProperties, CliAssumption DEF Texts
<1> SUFFICES line' \in Texts /\ Len(line') < LineSize /\ screen' = Prompt \o line'
    BY <1>1 DEF CliInv, ScreenShowsLine
<1>2. CASE Backspace
    <2>1. CASE line = << >>
        BY <1>1, <1>2, <2>1 DEF Backspace
    <2>2. CASE line # << >>
        <3> DEFINE k == Len(line) - 1
        <3>1. k \in 0..Len(line) /\ k < LineSize
            BY <1>1, <2>2, EmptySeq DEF Texts
        <3>2. Len(screen) - 1 = 2 + k
            BY <1>1, ShowsText
        <3>3. line' = SubSeq(line, 1, k) /\ screen' = SubSeq(screen, 1, 2 + k)
            BY <1>2, <2>2, <3>2 DEF Backspace, Front
        <3> HIDE DEF k
        <3> QED BY <1>1, <3>1, <3>3, ShowsLess
    <2> QED BY <2>1, <2>2
<1>3. CASE KillLine
    <2>1. /\ line # << >> /\ line' = << >> /\ screen' = EraseLeft(Len(line))
        BY <1>3 DEF KillLine
    <2>2. 0 \in 0..(Len(line) - 1) /\ 0 \in 0..Len(line) /\ Len(line) - 0 = Len(line)
        BY <1>1, <2>1, EmptySeq DEF Texts
    <2>3. SubSeq(line, 1, 0) = << >>
        BY SubSeqEmpty
    <2>4. screen' = Prompt \o SubSeq(line, 1, 0)
        BY <1>1, <2>1, <2>2, ErasesRest
    <2>5. << >> \in Texts /\ Len(<< >>) = 0
        BY EmptySeq DEF Texts
    <2>6. Len(line') = 0 /\ 0 < LineSize
        BY <1>1, <2>1, <2>5
    <2>7. Len(line') < LineSize
        BY <2>6, Zenon
    <2>8. line' \in Texts /\ screen' = Prompt \o line'
        BY <2>1, <2>3, <2>4, <2>5, Zenon
    <2> QED BY <2>7, <2>8
<1>4. CASE KillWord
    <2>1. /\ line # << >> /\ line' = SubSeq(line, 1, KeptLength)
          /\ screen' = EraseLeft(Len(line) - KeptLength)
        BY <1>4 DEF KillWord
    <2>2. KeptLength \in 0..(Len(line) - 1)
        BY <1>1, <2>1, KeptIsShorter
    <2> DEFINE k == KeptLength
    <2> HIDE DEF k
    <2>3. k \in 0..(Len(line) - 1) /\ k \in 0..Len(line) /\ k < LineSize
        BY <1>1, <2>2 DEF k
    <2>4. line' = SubSeq(line, 1, k) /\ screen' = EraseLeft(Len(line) - k)
        BY <2>1 DEF k
    <2>5. EraseLeft(Len(line) - k) = Prompt \o SubSeq(line, 1, k)
        BY <1>1, <2>3, ErasesRest
    <2>6. SubSeq(line, 1, k) \in Texts /\ Len(SubSeq(line, 1, k)) = k
        BY <1>1, <2>3, ShowsLess
    <2> QED BY <2>3, <2>4, <2>5, <2>6
<1>5. ASSUME NEW c \in LineChars, Insert(c)
      PROVE  line' \in Texts /\ Len(line') < LineSize /\ screen' = Prompt \o line'
    <2>1. CASE Len(line) + 1 >= LineSize
        BY <1>1, <1>5, <2>1 DEF Insert
    <2>2. CASE ~(Len(line) + 1 >= LineSize)
        <3>1. line' = Append(line, c) /\ screen' = Append(screen, c)
            BY <1>5, <2>2 DEF Insert
        <3>2. /\ Append(line, c) \in Texts /\ Len(Append(line, c)) = Len(line) + 1
              /\ Append(line, c) = line \o <<c>>
            BY <1>1, AppendProperties, AppendIsConcat DEF Texts
        <3>3. Append(screen, c) = screen \o <<c>>
            <4>1. screen \in Seq(Shown) /\ c \in Shown
                BY <1>1, ShowsText DEF Shown
            <4> QED BY <4>1, AppendIsConcat
        <3>4. <<c>> \in Texts
            BY OneElement DEF Texts
        <3>5. (Prompt \o line) \o <<c>> = Prompt \o (line \o <<c>>)
            BY <1>1, <3>4, ShowsMore
        <3> QED BY <1>1, <2>2, <3>1, <3>2, <3>3, <3>5
    <2> QED BY <2>1, <2>2
<1>6. Backspace \/ KillLine \/ KillWord \/ \E c \in LineChars : Insert(c)
    BY DEF Edit
<1> QED BY <1>2, <1>3, <1>4, <1>5, <1>6

LEMMA EmptyLine == << >> \in Texts /\ Len(<< >>) = 0 /\ 0 < LineSize
<1>1. LineSize \in Nat \ {0}
    BY CliAssumption
<1>2. << >> \in Texts /\ Len(<< >>) = 0
    BY EmptySeq, Zenon DEF Texts
<1> QED BY <1>1, <1>2

\* Completion writes what it appends to the line.
LEMMA CompleteStep ==
    ASSUME CliInv, Complete
    PROVE  CliInv'
<1> DEFINE app == Completion(line).append
<1>1. /\ line \in Texts /\ Len(line) < LineSize /\ loop = "complete"
      /\ screen = Prompt \o line /\ ~Overfills
    BY DEF CliInv, Complete, ScreenShowsLine
<1>2. app \in Texts
    BY <1>1, CompletionType
<1>3. Len(line) + Len(app) < LineSize
    <2>1. Len(line) \in Nat /\ Len(app) \in Nat
        BY <1>1, <1>2, LenProperties, Zenon DEF Texts
    <2>2. LineSize \in Nat
        BY CliAssumption
    <2>3. ~(Len(line) + Len(app) >= LineSize)
        BY <1>1, Zenon DEF Overfills
    <2> HIDE DEF app
    <2> QED BY <2>1, <2>2, <2>3
<1>4. /\ line' = Extended(app)
      /\ \/ screen' = << >> /\ loop' = "repaint"
         \/ /\ screen' = screen \o SubSeq(line', Max({0, Len(line') - Len(app)}) + 1, Len(line'))
            /\ loop' = "input"
    BY DEF Complete
<1> HIDE DEF app
<1>5. Len(line) \in Nat /\ Len(app) \in Nat /\ LineSize \in Nat
    BY <1>1, <1>2, LenProperties, CliAssumption DEF Texts
<1>6. Extended(app) = line \o app
    <2> DEFINE room == LineSize - 1 - Len(line)
    <2>1. room \in Nat /\ Len(app) <= room
        BY <1>1, <1>3, <1>5
    <2>2. {Len(app), room} \subseteq Nat
        BY <1>5, <2>1
    <2>3. Extended(app) = line \o SubSeq(app, 1, Min({Len(app), room}))
        BY DEF Extended
    <2> HIDE DEF room
    <2>4. Min({Len(app), room}) = Len(app)
        <3>1. /\ Min({Len(app), room}) \in {Len(app), room}
              /\ \A y \in {Len(app), room} : Min({Len(app), room}) <= y
            BY <2>2, MinFacts
        <3> QED BY <1>5, <2>1, <3>1
    <2>5. SubSeq(app, 1, Len(app)) = app
        BY <1>2, SubSeqFull DEF Texts
    <2> QED BY <2>3, <2>4, <2>5
<1>7. /\ line \o app \in Texts /\ Len(line \o app) = Len(line) + Len(app)
      /\ \A i \in 1..(Len(line) + Len(app)) :
             (line \o app)[i] = IF i <= Len(line) THEN line[i] ELSE app[i - Len(line)]
    BY <1>1, <1>2, ConcatProperties DEF Texts
<1>8. SubSeq(line', Max({0, Len(line') - Len(app)}) + 1, Len(line')) = app
    <2> DEFINE n == Len(line)
               all == line \o app
    <2>1. Max({0, n}) = n
        <3>1. n \in Nat /\ {0, n} \subseteq 0..n
            BY <1>5
        <3>2. Max({0, n}) \in {0, n} /\ \A y \in {0, n} : y <= Max({0, n})
            BY <3>1, MaxFacts
        <3> QED BY <3>1, <3>2
    <2>2. /\ all \in Seq(LineChars) /\ Len(all) = n + Len(app)
          /\ \A i \in 1..(n + Len(app)) : all[i] = IF i <= n THEN line[i] ELSE app[i - n]
        BY <1>7 DEF Texts
    <2>3. Len(line') - Len(app) = n /\ line' = all
        BY <1>4, <1>5, <1>6, <1>7
    <2> HIDE DEF n, all
    <2>4. n \in Nat
        BY <1>5 DEF n
    <2>5. n + 1 \in Nat \ {0} /\ Len(all) \in 0..Len(all) /\ n + 1 <= Len(all) + 1
        BY <1>5, <2>2, <2>4
    <2>6. /\ SubSeq(all, n + 1, Len(all)) \in Seq(LineChars)
          /\ Len(SubSeq(all, n + 1, Len(all))) = Len(all) - (n + 1) + 1
          /\ \A i \in 1..(Len(all) - (n + 1) + 1) :
                 SubSeq(all, n + 1, Len(all))[i] = all[n + 1 + i - 1]
        BY <2>2, <2>5, PartOfText
    <2>7. Len(all) - (n + 1) + 1 = Len(app)
        BY <1>5, <2>2, <2>4
    <2>8. \A i \in 1..Len(app) : all[n + 1 + i - 1] = app[i]
        <3> TAKE i \in 1..Len(app)
        <3>1. n + 1 + i - 1 = n + i /\ n + i \in 1..(n + Len(app)) /\ ~(n + i <= n) /\ n + i - n = i
            BY <1>5, <2>4
        <3> QED BY <1>5, <2>2, <2>4, <3>1
    <2>9. \A i \in 1..Len(app) : SubSeq(all, n + 1, Len(all))[i] = app[i]
        BY <2>6, <2>7, <2>8
    <2>10. SubSeq(all, n + 1, Len(all)) = app
        BY <1>2, <2>6, <2>7, <2>9, SeqEqual DEF Texts
    <2> QED BY <2>1, <2>3, <2>10
<1>9. line' \in Texts /\ Len(line') < LineSize
    BY <1>3, <1>4, <1>6, <1>7
<1>10. loop' = "input" => screen' = Prompt \o line'
    <2>1. screen \o app = Prompt \o (line \o app)
        BY <1>1, <1>2, ShowsMore
    <2> QED BY <1>4, <1>6, <1>8, <2>1
<1> QED BY <1>4, <1>9, <1>10 DEF CliInv, ScreenShowsLine

\* The other steps leave the line alone or write the prompt anew.
LEMMA CliStep ==
    ASSUME CliInv, [CliNext]_cliVars, Unusual \intersect {"empty", "full"} = {}
    PROVE  CliInv'
<1>1. CASE Edit
    BY <1>1, EditStep
<1>2. CASE ProcessInputReturns
    <2>1. PICK key \in DOMAIN Return :
              /\ key = "HT" /\ Overfills => "full" \in Unusual
              /\ loop' = Return[key]
              /\ screen' = IF key \in {"FF", "CR"} THEN << >> ELSE screen
        BY <1>2 DEF ProcessInputReturns
    <2>2. loop = "input" /\ line' = line
        BY <1>2 DEF ProcessInputReturns
    <2>3. \/ key = "HT" /\ loop' = "complete" /\ screen' = screen
          \/ key = "ESC" /\ loop' = "escape" /\ screen' = screen
          \/ key = "FF" /\ loop' = "repaint"
          \/ key = "CR" /\ loop' = "ready"
        BY <2>1 DEF Return
    <2>4. loop' = "complete" => ~Overfills'
        BY <2>1, <2>2, <2>3 DEF Overfills
    <2> QED BY <2>2, <2>3, <2>4 DEF CliInv, ScreenShowsLine
<1>3. CASE ConsumeEscape
    BY <1>3 DEF ConsumeEscape, CliInv, ScreenShowsLine
<1>4. CASE Complete
    BY <1>4, CompleteStep
<1>5. CASE Repaint
    BY <1>5 DEF Repaint, CliInv, ScreenShowsLine
<1>6. CASE CommandReady
    <2>1. /\ loop' = "input" /\ line' = << >> /\ screen' = Prompt
        BY <1>6 DEF CommandReady
    <2>2. << >> \in Texts /\ Len(<< >>) = 0 /\ 0 < LineSize
        BY EmptyLine
    <2>3. Prompt \o << >> = Prompt
        BY PromptFacts, ConcatEmptySeq
    <2> QED BY <2>1, <2>2, <2>3 DEF CliInv, ScreenShowsLine
<1>7. CASE UNCHANGED cliVars
    <2>1. line' = line /\ screen' = screen /\ loop' = loop
        BY <1>7 DEF cliVars
    <2> QED BY <2>1 DEF CliInv, ScreenShowsLine, Overfills
<1> QED BY <1>1, <1>2, <1>3, <1>4, <1>5, <1>6, <1>7 DEF CliNext

LEMMA CliInvariant ==
    ASSUME Unusual \intersect {"empty", "full"} = {}
    PROVE  CliSpec => []CliInv
<1>1. CliInit => CliInv
    <2> HAVE CliInit
    <2>1. << >> \in Texts /\ Len(<< >>) = 0 /\ 0 < LineSize
        BY EmptyLine
    <2> QED BY <2>1 DEF CliInit, CliInv, ScreenShowsLine
<1>2. CliInv /\ [CliNext]_cliVars => CliInv'
    BY CliStep
<1> QED BY <1>1, <1>2, PTL DEF CliSpec

\* What the user sees behind the prompt is what is in the buffer, for every
\* command table and size of the buffer (iBSP430cliConsoleBufferProcessInput
\* and iBSP430cliConsoleBufferCompletion), if an empty line is not killed and
\* no completion overfills the buffer.
THEOREM ScreenIsLine ==
    Unusual \intersect {"empty", "full"} = {} /\ CliSpec => []ScreenShowsLine
<1> SUFFICES ASSUME Unusual \intersect {"empty", "full"} = {}
             PROVE  CliSpec => []ScreenShowsLine
    OBVIOUS
<1>1. CliSpec => []CliInv
    BY CliInvariant
<1>2. CliInv => ScreenShowsLine
    BY DEF CliInv
<1> QED BY <1>1, <1>2, PTL

-----------------------------------------------------------------------------
(* Killing a word.                                                         *)

\* The two searches agree, except for the first letter of a first word.
LEMMA KeptIsWordStart ==
    ASSUME line \in Texts, line # << >>, ~LongFirstWord
    PROVE  KeptLength = WordStart
<1> DEFINE N == Len(line)
           C == {k \in 1..(N - 1) : line[k + 1] # Blank}
           last == Max({0} \union C)
           D == {k \in 1..(last - 1) : line[k + 1] = Blank}
           from == Max({0} \union D)
           E == {i \in 1..N : line[i] # Blank}
           end == Max({0} \union E)
           W == {i \in 1..end : line[i] = Blank}
           start == Max({0} \union W)
<1>1. N \in Nat \ {0}
    BY EmptySeq, LenProperties DEF Texts
<1>2. /\ KeptLength = IF last = 0 THEN 0 ELSE from + 1
      /\ WordStart = start
    BY DEF KeptLength, WordStart
<1>3. ~(start = 0 /\ \E i \in 2..N : line[i] # Blank)
    BY DEF LongFirstWord, WordStart
<1> HIDE DEF N, last, end, from, start
\* The last letter and the last space before it, as the key is described.
<1>4. end \in 0..N /\ (end # 0 => end \in E) /\ \A i \in E : i <= end
    <2>1. N \in Nat /\ E \subseteq 1..N
        BY <1>1
    <2> HIDE DEF E
    <2> QED BY <2>1, LastOf DEF end
<1>5. start \in 0..end /\ (start # 0 => start \in W) /\ \A i \in W : i <= start
    <2>1. end \in Nat /\ W \subseteq 1..end
        BY <1>4
    <2> HIDE DEF W
    <2> QED BY <2>1, LastOf DEF start
\* The places at which the two loops stop.
<1>6. last \in 0..(N - 1) /\ (last # 0 => last \in C) /\ \A k \in C : k <= last
    <2>1. N - 1 \in Nat /\ C \subseteq 1..(N - 1)
        BY <1>1
    <2> HIDE DEF C
    <2> QED BY <2>1, LastOf DEF last
<1>7. last # 0 => from \in 0..(last - 1) /\ (from # 0 => from \in D) /\ \A k \in D : k <= from
    <2> HAVE last # 0
    <2>1. last - 1 \in Nat /\ D \subseteq 1..(last - 1)
        BY <1>6
    <2> HIDE DEF D
    <2> QED BY <2>1, LastOf DEF from
<1>8. /\ end \in Int /\ start \in Int /\ last \in Int
      /\ last # 0 => from \in Int
    BY <1>1, <1>4, <1>5, <1>6, <1>7
<1>9. last = IF end = 0 THEN 0 ELSE end - 1
    <2>1. last # 0 => last + 1 \in E
        BY <1>1, <1>6
    <2>2. end > 1 => end - 1 \in C
        <3> HAVE end > 1
        <3>1. end \in 1..N /\ line[end] # Blank
            BY <1>1, <1>4
        <3>2. end - 1 \in 1..(N - 1) /\ (end - 1) + 1 = end
            BY <1>1, <1>4
        <3> QED BY <3>1, <3>2
    <2> HIDE DEF C, E
    <2>3. last # 0 => last + 1 <= end
        BY <1>4, <2>1
    <2>4. end > 1 => end - 1 <= last
        BY <1>6, <2>2
    <2>5. end >= 0 /\ last >= 0
        BY <1>1, <1>4, <1>6
    <2> QED BY <1>8, <2>3, <2>4, <2>5
<1>10. CASE last = 0
    <2>1. end \in {0, 1}
        BY <1>1, <1>4, <1>8, <1>9, <1>10
    <2>2. start # 1
        <3>1. start = 1 => line[1] = Blank /\ end = 1
            BY <1>5, <2>1
        <3>2. end = 1 => line[1] # Blank
            BY <1>4
        <3> QED BY <3>1, <3>2
    <2>3. start = 0
        BY <1>5, <2>1, <2>2
    <2> QED BY <1>2, <1>10, <2>3
<1>11. CASE last # 0
    <2>1. end \in 2..N /\ last = end - 1
        BY <1>1, <1>4, <1>6, <1>8, <1>9, <1>11
    <2>2. line[end] # Blank
        BY <1>4, <2>1
    <2>3. start # 0
        BY <1>3, <2>1, <2>2
    <2>4. start \in 1..(end - 1) /\ line[start] = Blank
        <3>1. start \in 1..end /\ line[start] = Blank
            BY <1>5, <2>3
        <3>2. start # end
            BY <2>2, <3>1
        <3> QED BY <1>8, <3>1, <3>2
    <2>5. from # 0 => from + 1 \in W
        <3> HAVE from # 0
        <3>1. from \in 1..(last - 1) /\ line[from + 1] = Blank
            BY <1>7, <1>11
        <3>2. from + 1 \in 1..end
            BY <1>8, <1>11, <2>1, <3>1
        <3> QED BY <3>1, <3>2
    <2>6. start # 1 => start - 1 \in D
        <3> HAVE start # 1
        <3>1. start - 1 \in 1..(last - 1) /\ (start - 1) + 1 = start
            BY <1>8, <2>1, <2>4
        <3> QED BY <2>4, <3>1
    <2> HIDE DEF D, W
    <2>7. from + 1 <= start
        <3>1. from # 0 => from + 1 <= start
            BY <1>5, <2>5
        <3>2. from = 0 => from + 1 <= start
            BY <2>4, <1>8
        <3> QED BY <3>1, <3>2
    <2>8. start <= from + 1
        <3>1. from >= 0
            BY <1>7, <1>8, <1>11
        <3>2. start # 1 => start - 1 <= from
            BY <1>7, <1>11, <2>6
        <3> QED BY <1>8, <1>11, <3>1, <3>2
    <2>9. start = from + 1
        BY <1>8, <1>11, <2>7, <2>8
    <2> QED BY <1>2, <1>11, <2>9
<1> QED BY <1>10, <1>11

\* Killing a word erases the spaces at the end and the last word, no less
\* (the key that iBSP430cliConsoleBufferProcessInput takes for it), unless it is
\* a first word of several letters.
THEOREM WordIsKilled ==
    Unusual \intersect {"empty", "full"} = {} /\ CliSpec => WordsKilled
<1> SUFFICES ASSUME Unusual \intersect {"empty", "full"} = {}
             PROVE  CliSpec => WordsKilled
    OBVIOUS
<1>1. CliSpec => []CliInv
    BY CliInvariant
<1>2. CliInv /\ [CliNext]_cliVars =>
          [Edit /\ KillWord /\ ~LongFirstWord => line' = SubSeq(line, 1, WordStart)]_cliVars
    <2> SUFFICES ASSUME CliInv, Edit, KillWord, ~LongFirstWord
                 PROVE  line' = SubSeq(line, 1, WordStart)
        BY Zenon
    <2>1. line \in Texts /\ line # << >> /\ line' = SubSeq(line, 1, KeptLength)
        BY DEF CliInv, KillWord
    <2> QED BY <2>1, KeptIsWordStart
<1> QED BY <1>1, <1>2, PTL DEF CliSpec, WordsKilled
=============================================================================
