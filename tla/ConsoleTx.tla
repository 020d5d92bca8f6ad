----------------------------- MODULE ConsoleTx -----------------------------
(***************************************************************************)
(* Console output of src/utility/console.c with a transmit buffer: the     *)
(* main program that queues bytes and sleeps when the buffer is full, the  *)
(* transmit interrupt (euscia_isr of src/periph/eusci.c with the callback  *)
(* console_tx_isr_ni on its chain), and the UART between them.             *)
(*                                                                         *)
(* Output is allowed from the main program only, so there is one caller.   *)
(* It runs with interrupts disabled except between calls and while it is   *)
(* in low power mode; only there can the interrupt handler run.  The UART  *)
(* (external hardware) works at all times: a byte moves from txbuf to the  *)
(* shift register and from there to the wire.  A reset discards what it    *)
(* holds, sets UCTXIFG and clears UCTXIE.                                  *)
(***************************************************************************)
EXTENDS Integers, Sequences

CONSTANTS Bytes,      \* what is written to the console
          Direct,     \* a byte written in direct mode, told apart from those
          None,       \* no byte
          Size,       \* BSP430_CONSOLE_TX_BUFFER_SIZE
          Careless    \* what may also happen: the "open" fails, a "reset"
                      \* of the UART while bytes are queued

ASSUME ConsoleAssumption ==
    /\ Size \in Nat /\ Size > 1 /\ Size <= 254
    /\ Bytes # {} /\ Direct \notin Bytes /\ None \notin Bytes /\ Direct # None
    /\ Careless \subseteq {"open", "reset"}

VARIABLES open,            \* console_hal_ is not null
          uartTransmit,    \* console_tx_queue or iBSP430uartTxByte_rh
          root, next,      \* the node is first in tx_cbchain_ni; is its own next
          buffer, head, tail, wake_available,   \* tx_buffer_
          pc, arg,         \* where the main program is, with which argument
          asleep,          \* it is in LPM0
          ucswrst, uctxie, uctxifg,             \* bits of the UART's registers
          txbuf, shift,    \* what the UART holds
          sent             \* how many queued bytes were sent, modulo 2

chain == <<root, next>>
ring == <<buffer, head, tail, wake_available>>
main == <<pc, arg, asleep>>
uart == <<ucswrst, uctxie, uctxifg, txbuf, shift, sent>>
vars == <<open, uartTransmit, chain, ring, main, uart>>

\* Interrupts are enabled.
GIE == pc \in {"idle", "queue_lpm", "wait_lpm"}

Busy == txbuf # None \/ shift # None

-----------------------------------------------------------------------------
(* The UART.                                                               *)

Load ==
    /\ ~ucswrst /\ shift = None /\ txbuf # None
    /\ shift' = txbuf
    /\ txbuf' = None
    /\ uctxifg' = TRUE
    /\ UNCHANGED <<open, uartTransmit, chain, ring, main, ucswrst, uctxie, sent>>

ShiftOut ==
    /\ ~ucswrst /\ shift # None
    /\ shift' = None
    /\ sent' = IF shift = Direct THEN sent ELSE 1 - sent
    /\ UNCHANGED <<open, uartTransmit, chain, ring, main, ucswrst, uctxie,
                   uctxifg, txbuf>>

\* iBSP430eusciSetReset_rh: what setting UCSWRST does to the UART, whether it
\* stays set, and whether the transmit interrupt is then enabled.
Reset(held, enabled) ==
    /\ ucswrst' = held
    /\ uctxie' = enabled
    /\ uctxifg' = TRUE
    /\ txbuf' = None
    /\ shift' = None
    /\ UNCHANGED sent

-----------------------------------------------------------------------------
(* The transmit buffer.                                                    *)

Succ(i) == (i + 1) % Size

\* TX_BUFFER_AVAILABLE_
Available(h, t) == IF h >= t THEN Size + t - h - 1 ELSE t - h - 1

\* Mutant: the last byte does not tell who waits for an empty buffer.
WakesIfSpace(h, t) == 0 < wake_available /\ Available(h, t) >= wake_available

\* console_tx_isr_ni: whoever sleeps asked for no more than there is now.
Wakes(h, t) ==
    \/ h = t /\ wake_available # 0
    \/ 0 < wake_available /\ Available(h, t) >= wake_available

\* euscia_isr on UCTXIFG.  Reading the vector clears the flag, so it is set
\* again if the chain had no byte to send; without more to come the interrupt
\* is disabled.  A node that is its own successor would be called for ever.
TxISR ==
    LET sends == root /\ head # tail
        t == IF sends THEN Succ(tail) ELSE tail
        wakes == root /\ Wakes(head, t)
    IN
    /\ GIE /\ uctxie /\ uctxifg
    /\ sends \/ ~next
    /\ tail' = t
    /\ txbuf' = IF sends THEN buffer[tail] ELSE txbuf
    /\ uctxifg' = ~sends
    /\ uctxie' = (sends /\ head # t)
    /\ wake_available' = IF wakes THEN 0 ELSE wake_available
    /\ asleep' = (asleep /\ ~wakes)
    /\ UNCHANGED <<open, uartTransmit, chain, buffer, head, pc, arg>>
    /\ UNCHANGED <<ucswrst, shift, sent>>

\* Any other interrupt may wake the main program.
OtherISR ==
    /\ GIE /\ asleep
    /\ asleep' = FALSE
    /\ UNCHANGED <<open, uartTransmit, chain, ring, pc, arg, uart>>

-----------------------------------------------------------------------------
(* cputchar and the functions built on it, one byte.                       *)

Ready == pc = "idle" /\ open /\ ~ucswrst

PutChar(c) ==
    /\ Ready
    /\ uartTransmit = "console_tx_queue"
    /\ pc' = "queue"
    /\ arg' = c
    /\ UNCHANGED <<open, uartTransmit, chain, ring, asleep, uart>>

\* iBSP430eusciUARTtxByte_rh: spin for UCTXIFG, unless there is a chain.
PutCharDirect ==
    /\ Ready
    /\ uartTransmit = "iBSP430uartTxByte_rh"
    /\ ~root
    /\ uctxifg
    /\ txbuf' = Direct
    /\ uctxifg' = FALSE
    /\ UNCHANGED <<open, uartTransmit, chain, ring, main, ucswrst, uctxie, shift, sent>>

\* Mutant: a wakeup only when the queue has just become full.
QueueByteWakesLate ==
    /\ pc = "queue"
    /\ Succ(head) # tail
    /\ buffer' = [buffer EXCEPT ![head] = arg]
    /\ head' = Succ(head)
    /\ uctxie' = (uctxie \/ Succ(head') = tail)
    /\ pc' = "idle" /\ arg' = None
    /\ UNCHANGED <<open, uartTransmit, chain, tail, wake_available, asleep,
                   ucswrst, uctxifg, txbuf, shift, sent>>

\* console_tx_queue, with room: the first byte wakes the transmitter.
QueueByte ==
    /\ pc = "queue"
    /\ Succ(head) # tail
    /\ buffer' = [buffer EXCEPT ![head] = arg]
    /\ head' = Succ(head)
    /\ uctxie' = (uctxie \/ head = tail)
    /\ pc' = "idle" /\ arg' = None
    /\ UNCHANGED <<open, uartTransmit, chain, tail, wake_available, asleep,
                   ucswrst, uctxifg, txbuf, shift, sent>>

\* Mutant: it sleeps without asking to be woken.
QueueFullSilently ==
    /\ pc = "queue"
    /\ Succ(head) = tail
    /\ asleep' = TRUE
    /\ pc' = "queue_lpm"
    /\ UNCHANGED <<open, uartTransmit, chain, ring, arg, uart>>

\* console_tx_queue, without: sleep until there is.
QueueFull ==
    /\ pc = "queue"
    /\ Succ(head) = tail
    /\ wake_available' = IF wake_available = 0 THEN 1 ELSE wake_available
    /\ asleep' = TRUE
    /\ pc' = "queue_lpm"
    /\ UNCHANGED <<open, uartTransmit, chain, buffer, head, tail, arg, uart>>

\* Out of LPM0, interrupts disabled again.
Resume ==
    /\ ~asleep
    /\ \/ pc = "queue_lpm" /\ pc' = "queue"
       \/ pc = "wait_lpm" /\ pc' = "wait"
    /\ UNCHANGED <<open, uartTransmit, chain, ring, arg, asleep, uart>>

-----------------------------------------------------------------------------
(* iBSP430consoleWaitForTxSpace_ni and iBSP430consoleFlush, which waits    *)
(* for an empty buffer (want -1) and then for the UART.                    *)

WaitForTxSpace(want) ==
    /\ Ready
    /\ pc' = "wait"
    /\ arg' = want
    /\ UNCHANGED <<open, uartTransmit, chain, ring, asleep, uart>>

Satisfied(want) ==
    IF want < 0 THEN head = tail ELSE Available(head, tail) >= want

WaitDone ==
    /\ pc = "wait"
    /\ Satisfied(arg)
    /\ pc' = IF arg < 0 THEN "flush" ELSE "idle"
    /\ arg' = None
    /\ UNCHANGED <<open, uartTransmit, chain, ring, asleep, uart>>

WaitSleeps ==
    /\ pc = "wait"
    /\ ~Satisfied(arg)
    /\ wake_available' = IF wake_available = 0 THEN arg ELSE wake_available
    /\ asleep' = TRUE
    /\ pc' = "wait_lpm"
    /\ UNCHANGED <<open, uartTransmit, chain, buffer, head, tail, arg, uart>>

\* vBSP430eusciFlush_ni: spin while UCBUSY.
Flushed ==
    /\ pc = "flush"
    /\ ~Busy
    /\ pc' = "idle"
    /\ UNCHANGED <<open, uartTransmit, chain, ring, arg, asleep, uart>>

-----------------------------------------------------------------------------
(* iBSP430consoleTransmitUseInterrupts_ni.                                 *)

UseInterrupts(enable) ==
    /\ Ready
    /\ uartTransmit # IF enable THEN "console_tx_queue" ELSE "iBSP430uartTxByte_rh"
    /\ uartTransmit' = IF enable THEN "console_tx_queue" ELSE "iBSP430uartTxByte_rh"
    /\ pc' = "switch"
    /\ UNCHANGED <<open, chain, ring, arg, asleep, uart>>

\* BSP430_HAL_ISR_CALLBACK_LINK_NI and UNLINK_NI, for a chain of one node.
Link == root' = TRUE /\ next' = root
Unlink == IF root THEN root' = next /\ next' = FALSE ELSE UNCHANGED chain

\* The UART is idle: hold, link, release, and send what the buffer holds.
SwitchOn ==
    /\ pc = "switch" /\ uartTransmit = "console_tx_queue"
    /\ ~Busy
    /\ Reset(FALSE, head # tail)
    /\ Link
    /\ pc' = "idle"
    /\ UNCHANGED <<open, uartTransmit, ring, arg, asleep>>

\* Mutant: the UART is held whatever it is doing.
SwitchOffUnflushed ==
    /\ pc = "switch" /\ uartTransmit = "iBSP430uartTxByte_rh"
    /\ Unlink
    /\ Reset(FALSE, FALSE)
    /\ pc' = "idle"
    /\ UNCHANGED <<open, uartTransmit, ring, arg, asleep>>

SwitchOff ==
    /\ pc = "switch" /\ uartTransmit = "iBSP430uartTxByte_rh"
    /\ ~Busy
    /\ Unlink
    /\ Reset(FALSE, FALSE)
    /\ pc' = "idle"
    /\ UNCHANGED <<open, uartTransmit, ring, arg, asleep>>

-----------------------------------------------------------------------------
(* iBSP430consoleInitialize and iBSP430consoleDeconfigure.                 *)

ResetRing ==
    /\ head' = 0 /\ tail' = 0 /\ wake_available' = 0
    /\ UNCHANGED buffer

\* Opening fails when the pins cannot be configured, which leaves the UART
\* in reset, or when somebody else has claimed it.
OpenResults == IF "open" \in Careless THEN BOOLEAN ELSE {TRUE}

Initialize(opened) ==
    /\ pc = "idle" /\ ~open
    /\ uartTransmit' = "console_tx_queue"
    /\ ResetRing
    /\ Link
    /\ \E held \in (IF opened THEN {FALSE} ELSE BOOLEAN) : Reset(held, FALSE)
    /\ open' = opened
    /\ UNCHANGED main

Deconfigure ==
    /\ pc = "idle" /\ open
    /\ Reset(TRUE, FALSE)
    /\ Unlink
    /\ open' = FALSE
    /\ UNCHANGED <<uartTransmit, ring, main>>

\* The application resets the UART, having waited for UCBUSY, and releases
\* it again, to save power or to clear errors.
ApplicationResets ==
    /\ Ready
    /\ ~Busy
    /\ "reset" \in Careless \/ head = tail
    /\ Reset(TRUE, FALSE)
    /\ UNCHANGED <<open, uartTransmit, chain, ring, main>>

ApplicationReleases ==
    /\ pc = "idle" /\ open /\ ucswrst
    /\ ucswrst' = FALSE
    /\ UNCHANGED <<open, uartTransmit, chain, ring, main>>
    /\ UNCHANGED <<uctxie, uctxifg, txbuf, shift, sent>>

-----------------------------------------------------------------------------
Init ==
    /\ open = FALSE /\ uartTransmit = "NULL"
    /\ root = FALSE /\ next = FALSE
    /\ buffer \in [0..(Size - 1) -> {CHOOSE c \in Bytes : TRUE}]
    /\ head = 0 /\ tail = 0 /\ wake_available = 0
    /\ pc = "idle" /\ arg = None /\ asleep = FALSE
    /\ ucswrst = TRUE /\ uctxie = FALSE /\ uctxifg = TRUE
    /\ txbuf = None /\ shift = None /\ sent = 0

UserCalls ==
    \/ \E c \in Bytes : PutChar(c)
    \/ PutCharDirect
    \/ \E want \in {-1} \cup 1..(Size - 1) : WaitForTxSpace(want)
    \/ \E enable \in BOOLEAN : UseInterrupts(enable)
    \/ \E opened \in OpenResults : Initialize(opened)
    \/ Deconfigure
    \/ ApplicationResets \/ ApplicationReleases

Running ==
    \/ QueueByte \/ QueueFull \/ Resume
    \/ WaitDone \/ WaitSleeps \/ Flushed \/ SwitchOn \/ SwitchOff

Next == UserCalls \/ Running \/ TxISR \/ OtherISR \/ Load \/ ShiftOut

\* The UART works, a function goes on unless it sleeps, and an interrupt that
\* is requested is taken although the caller may disable interrupts again.
Fairness ==
    /\ WF_vars(Load) /\ WF_vars(ShiftOut)
    /\ WF_vars(Running) /\ SF_vars(TxISR)

Spec == Init /\ [][Next]_vars /\ Fairness

-----------------------------------------------------------------------------
\* What the buffer holds, oldest first.
Stored == [i \in 1..((head - tail) % Size) |-> buffer[(tail + i - 1) % Size]]

\* A place in the UART, unless it is empty or holds what was not queued.
Optional(b) == IF b \in {None, Direct} THEN <<>> ELSE <<b>>

\* Every queued byte in the UART and in the buffer, oldest first.
Queued == Optional(shift) \o Optional(txbuf) \o Stored

\* Every variable has its type.
TypeOK ==
    /\ {open, root, next, asleep, ucswrst, uctxie, uctxifg} \subseteq BOOLEAN
    /\ uartTransmit \in {"NULL", "console_tx_queue", "iBSP430uartTxByte_rh"}
    /\ buffer \in [0..(Size - 1) -> Bytes]
    /\ head \in 0..(Size - 1) /\ tail \in 0..(Size - 1)
    /\ wake_available \in -1..(Size - 1)
    /\ pc \in {"idle", "queue", "queue_lpm", "wait", "wait_lpm", "flush", "switch"}
    /\ arg \in Bytes \cup {None} \cup -1..(Size - 1)
    /\ {txbuf, shift} \subseteq Bytes \cup {Direct, None}
    /\ sent \in {0, 1}

\* What is queued will be sent: while the console drives the interrupt and
\* the UART runs, a buffer that is not empty has the interrupt enabled, and
\* the flag is set or will be when the UART takes the byte it was given.
TransmitterArmed ==
    open /\ root /\ ~ucswrst /\ pc # "switch" /\ head # tail
        => uctxie /\ (uctxifg \/ txbuf # None)

\* Who sleeps in the console has asked to be woken, for something the buffer
\* does not offer yet; while the console drives the transmit interrupt it is
\* enabled then and requested or about to be, so that it will drain the
\* buffer and wake the sleeper.  No request outlives its call.
SleeperIsAwaited ==
    /\ asleep => /\ wake_available # 0 /\ head # tail
                 /\ 0 < wake_available => Available(head, tail) < wake_available
    /\ asleep /\ root => uctxie /\ (uctxifg \/ txbuf # None)
    /\ wake_available # 0 => pc # "idle"

\* A closed console has nothing on the UART's callback chain: the UART may
\* be another subsystem's, and linking the node twice closes the chain.
ConsoleDetached == ~open => ~root

\* In direct mode nothing drains the buffer: a call that waits for what it
\* does not offer is never told.
WaitsForNobody ==
    pc \in {"wait", "wait_lpm"} /\ ~root /\ head # tail /\ ~Satisfied(arg)

\* Every call returns, those to wait or flush in direct mode excepted that
\* find too many bytes left from before the interrupts were switched off.
CallsReturn == pc # "idle" /\ ~WaitsForNobody ~> pc = "idle"

\* console.h on waiting for space: "If the console does not use
\* interrupt-driven transmission, this function immediately returns zero."
\* It does sleep there, when bytes were left in the buffer.
DirectModeNeverSleeps == uartTransmit = "iBSP430uartTxByte_rh" => ~asleep

\* The accepted bytes go out in order, none lost and none twice, across full
\* buffers, wrapped indexes and changes of the transmit mode.
Channel == INSTANCE ByteChannel
    WITH held <- IF open THEN Queued ELSE <<>>, Capacity <- Size + 1

ImplementsChannel == Channel!Spec

=============================================================================
