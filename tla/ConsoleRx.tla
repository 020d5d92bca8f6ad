----------------------------- MODULE ConsoleRx -----------------------------
(***************************************************************************)
(* Console input of src/utility/console.c with a receive buffer: the       *)
(* receive interrupt (euscia_isr of src/periph/eusci.c with the callback   *)
(* console_rx_isr_ni on its chain), cgetchar and cpeekchar, and what       *)
(* opening, closing and holding the UART do to reception.  Each runs with  *)
(* interrupts disabled, so each is one step; characters arrive at any time.*)
(***************************************************************************)
EXTENDS Integers, Sequences

CONSTANTS Chars,   \* what is received
          NoChar,  \* no character
          RxSize   \* BSP430_CONSOLE_RX_BUFFER_SIZE

ASSUME ConsoleRxAssumption ==
    /\ Chars # {} /\ NoChar \notin Chars
    /\ RxSize \in Nat /\ RxSize > 1 /\ RxSize <= 254

VARIABLES rx_open,                       \* console_hal_ is not null
          linked,                        \* the node is on the UART's rx_cbchain_ni
          in_reset, ucrxie,              \* bits of the UART's registers
          rxbuf,                         \* the character UCRXIFG stands for, or NoChar
          rx_buffer, rx_head, rx_tail,   \* rx_buffer_
          result                         \* the last call, TRUE for cgetchar and FALSE
                                         \* for cpeekchar, and what it returned

rxUart == <<in_reset, ucrxie, rxbuf>>
rxRing == <<rx_buffer, rx_head, rx_tail>>
rxVars == <<rx_open, linked, rxUart, rxRing, result>>

\* A character arrives; one the handler has not fetched is lost (hardware).
Receive(c) ==
    /\ ~in_reset
    /\ rxbuf' = c
    /\ UNCHANGED <<rx_open, linked, in_reset, ucrxie, rxRing, result>>

\* What becomes of reception when the UART is put in reset and released:
\* iBSP430eusciSetReset_rh enables the interrupt if there is a callback.
ResetUart(held) ==
    /\ in_reset' = held
    /\ ucrxie' = (~held /\ linked')
    /\ rxbuf' = NoChar

\* Mutant: the tail stays where it is when the buffer is full.
StoreKeepsTail(c) ==
    /\ rx_buffer' = [rx_buffer EXCEPT ![rx_head] = c]
    /\ rx_head' = (rx_head + 1) % RxSize
    /\ UNCHANGED rx_tail

\* console_rx_isr_ni: a full buffer gives up its oldest character.
Store(c) ==
    /\ rx_buffer' = [rx_buffer EXCEPT ![rx_head] = c]
    /\ rx_head' = (rx_head + 1) % RxSize
    /\ rx_tail' = IF rx_head' = rx_tail THEN (rx_tail + 1) % RxSize ELSE rx_tail

\* euscia_isr on UCRXIFG.  With no callback the character is dropped.
RxISR ==
    /\ ucrxie /\ rxbuf # NoChar
    /\ rxbuf' = NoChar
    /\ IF linked THEN Store(rxbuf) ELSE UNCHANGED rxRing
    /\ UNCHANGED <<rx_open, linked, in_reset, ucrxie, result>>

\* x & y of octets.
And(x, y) ==
    LET Bit(i) == IF (x \div i) % 2 = 1 /\ (y \div i) % 2 = 1 THEN i ELSE 0
    IN Bit(1) + Bit(2) + Bit(4) + Bit(8) + Bit(16) + Bit(32) + Bit(64) + Bit(128)

\* The tail after a character was taken, which is reduced with a mask.
Popped(t) == And(t + 1, RxSize - 1)

\* console_getchar_
GetChar(do_pop) ==
    /\ result' = <<do_pop, IF rx_head = rx_tail THEN NoChar ELSE rx_buffer[rx_tail]>>
    /\ rx_tail' = IF rx_head # rx_tail /\ do_pop THEN Popped(rx_tail) ELSE rx_tail
    /\ UNCHANGED <<rx_open, linked, rxUart, rx_buffer, rx_head>>

\* Mutant: the callback is linked once the UART is open.
InitializeLinksLate(opened, held) ==
    /\ ~rx_open
    /\ held => ~opened
    /\ rx_head' = 0 /\ rx_tail' = 0
    /\ in_reset' = held /\ ucrxie' = FALSE /\ rxbuf' = NoChar
    /\ linked' = opened
    /\ rx_open' = opened
    /\ UNCHANGED <<rx_buffer, result>>

\* iBSP430consoleInitialize.  The callback is linked before the UART is
\* opened, and unlinked again if that fails: held in reset when its pins
\* cannot be configured, running when somebody else has claimed it.
InitializeRx(opened, held) ==
    /\ ~rx_open
    /\ held => ~opened
    /\ rx_head' = 0 /\ rx_tail' = 0
    /\ in_reset' = held /\ ucrxie' = ~held /\ rxbuf' = NoChar
    /\ linked' = opened
    /\ rx_open' = opened
    /\ UNCHANGED <<rx_buffer, result>>

\* iBSP430consoleDeconfigure
DeconfigureRx ==
    /\ rx_open
    /\ linked' = FALSE
    /\ ResetUart(TRUE)
    /\ rx_open' = FALSE
    /\ UNCHANGED <<rxRing, result>>

\* iBSP430consoleTransmitUseInterrupts_ni holds the UART and releases it.
Hold ==
    /\ rx_open
    /\ UNCHANGED <<rx_open, linked, rxRing, result>>
    /\ ResetUart(FALSE)

RxInit ==
    /\ rx_open = FALSE /\ linked = FALSE
    /\ in_reset = TRUE /\ ucrxie = FALSE /\ rxbuf = NoChar
    /\ rx_buffer \in [0..(RxSize - 1) -> {CHOOSE c \in Chars : TRUE}]
    /\ rx_head = 0 /\ rx_tail = 0
    /\ result = <<FALSE, NoChar>>

RxNext ==
    \/ \E c \in Chars : Receive(c)
    \/ RxISR
    \/ \E do_pop \in BOOLEAN : GetChar(do_pop)
    \/ \E opened, held \in BOOLEAN : InitializeRx(opened, held)
    \/ DeconfigureRx \/ Hold

\* A requested interrupt is taken, between calls if need be.
RxSpec == RxInit /\ [][RxNext]_rxVars /\ SF_rxVars(RxISR)

-----------------------------------------------------------------------------
\* Every variable has its type.
RxTypeOK ==
    /\ {rx_open, linked, in_reset, ucrxie} \subseteq BOOLEAN
    /\ rxbuf \in Chars \cup {NoChar}
    /\ result \in BOOLEAN \X (Chars \cup {NoChar})
    /\ rx_buffer \in [0..(RxSize - 1) -> Chars]
    /\ rx_head \in 0..(RxSize - 1) /\ rx_tail \in 0..(RxSize - 1)

Received ==
    [i \in 1..((rx_head - rx_tail) % RxSize) |-> rx_buffer[(rx_tail + i - 1) % RxSize]]

\* A console that is open listens: no hold, close, failed or successful open
\* leaves the interrupt disabled or the callback off the chain.
Listens == rx_open => ucrxie /\ linked /\ ~in_reset

\* The application reads the newest Size - 1 characters in the order they
\* came, none twice, whatever the indexes have wrapped around.
\* console.h allows any size up to 254 and calls a power of two efficient.
Input == INSTANCE LossyQueue
    WITH open <- rx_open, held <- Received, Values <- Chars,
         Capacity <- RxSize - 1, Nothing <- NoChar

ImplementsQueue == Input!Spec

=============================================================================
