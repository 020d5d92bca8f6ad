----------------------------- MODULE Cc3000Spi -----------------------------
(***************************************************************************)
(* The SPI transport of src/rf/cc3000spi.c between the CC3000 radio and    *)
(* the vendor's host driver.  One line, nIRQ, means three things: after    *)
(* power-up that the radio is alive, with chip select released that it has *)
(* a message, with chip select asserted that it accepts one.  The radio    *)
(* and the host driver are outside this repository; they are modelled as   *)
(* the comments and the calls of cc3000spi.c describe them.                *)
(*                                                                         *)
(* SpiWrite disables interrupts but the radio goes on, so it is split where*)
(* it touches chip select or looks at nIRQ.  The handler runs to its end.  *)
(***************************************************************************)
EXTENDS Naturals, Sequences

CONSTANT MaxOutgoing   \* bound: messages the radio has waiting

ASSUME Cc3000Assumption == MaxOutgoing \in Nat \ {0}

VARIABLES open,         \* spi_ is not null, and spi_irq_cb is linked
          initialized,  \* SPIFLAG_INITIALIZED
          wrote,        \* SPIFLAG_DID_FIRST_WRITE
          ie, ifg,      \* the interrupt pin's enable and request bits
          cs,           \* chip select is asserted
          pc,           \* where SpiWrite is; "idle", or "stop" inside wlan_stop
          power,        \* the PWR_EN line
          chip,         \* what the radio is doing
          outgoing,     \* messages the radio has for the host
          rx,           \* what wlan_rx_buffer holds
          held,         \* the host driver is not done with it
          awaiting      \* the host driver has sent a command

flags == <<initialized, wrote>>
radio == <<power, chip, outgoing>>
host == <<rx, held, awaiting>>
vars == <<open, flags, ie, ifg, cs, pc, radio, host>>

Messages == {"event", "answer"}

\* nIRQ is low.
Asserted == chip \in {"up", "request", "accept"}

\* Interrupts are enabled: SpiWrite is not running.
GIE == pc \in {"idle", "stop"}

\* The main program goes on only when no interrupt is to be taken first.
MainRuns == ~(ie /\ ifg)

-----------------------------------------------------------------------------
(* The radio.  Each falling edge of nIRQ sets ifg.                         *)

PowerUp ==
    /\ power /\ chip = "off"
    /\ chip' = "up" /\ ifg' = TRUE
    /\ UNCHANGED <<power, outgoing>>

NewEvent ==
    /\ chip \in {"idle", "request", "accept"}
    /\ Len(outgoing) < MaxOutgoing
    /\ outgoing' = Append(outgoing, "event")
    /\ UNCHANGED <<power, chip, ifg>>

\* A request that collided with a write is made again after it.
Request ==
    /\ chip = "idle" /\ ~cs /\ outgoing # << >>
    /\ chip' = "request" /\ ifg' = TRUE
    /\ UNCHANGED <<power, outgoing>>

Accept ==
    /\ chip = "idle" /\ cs
    /\ chip' = "accept" /\ ifg' = TRUE
    /\ UNCHANGED <<power, outgoing>>

RadioSteps ==
    /\ PowerUp \/ NewEvent \/ Request \/ Accept
    /\ UNCHANGED <<open, flags, ie, cs, pc, host>>

-----------------------------------------------------------------------------
(* SpiOpen, writeWlanPin_, SpiClose.                                       *)

\* Mutant: the flags of the last session stay.
SpiOpenKeepsFlags ==
    /\ pc = "idle" /\ ~open
    /\ open' = TRUE
    /\ ie' = TRUE /\ ifg' = FALSE /\ cs' = FALSE /\ power' = FALSE
    /\ UNCHANGED <<flags, pc, chip, outgoing, host>>

\* Opening the SPI device may fail, which changes nothing.
SpiOpen ==
    /\ pc = "idle" /\ ~open
    /\ open' = TRUE
    /\ initialized' = FALSE /\ wrote' = FALSE
    /\ ie' = TRUE /\ ifg' = FALSE /\ cs' = FALSE /\ power' = FALSE
    /\ UNCHANGED <<pc, chip, outgoing, host>>

\* wlan_start
PowerOn ==
    /\ pc = "idle" /\ open /\ ~power
    /\ power' = TRUE /\ initialized' = FALSE
    /\ UNCHANGED <<open, wrote, ie, ifg, cs, pc, chip, outgoing, host>>

\* wlan_stop, between commands.
PowerOff ==
    /\ pc = "idle" /\ MainRuns /\ power /\ wrote /\ ~awaiting
    /\ power' = FALSE /\ initialized' = FALSE
    /\ chip' = "off" /\ outgoing' = << >>
    /\ pc' = "stop"
    /\ UNCHANGED <<open, wrote, ie, ifg, cs, host>>

\* The pin becomes an output that is low, which may look like an edge.
SpiClose ==
    /\ pc = "stop" /\ MainRuns
    /\ ie' = FALSE /\ ifg' \in BOOLEAN /\ cs' = FALSE
    /\ open' = FALSE
    /\ pc' = "idle"
    /\ UNCHANGED <<flags, radio, host>>

-----------------------------------------------------------------------------
(* SpiWrite.                                                               *)

\* The host driver sends a command when the last one has been answered, the
\* first one when nIRQ has told it that the radio is up.  Interrupts are
\* disabled here.
Command ==
    /\ pc = "idle" /\ MainRuns /\ power /\ ~awaiting
    /\ wrote \/ Asserted
    /\ pc' = "assert"
    /\ UNCHANGED <<open, flags, ie, ifg, cs, radio, host>>

AssertCS ==
    /\ pc = "assert"
    /\ cs' = TRUE
    /\ pc' = "spin"
    /\ UNCHANGED <<open, flags, ie, ifg, radio, host>>

\* Mutant: the acknowledgement stays pending as if it were a request.
AcknowledgedKeepsFlag ==
    /\ pc = "spin" /\ Asserted
    /\ pc' = "send"
    /\ UNCHANGED <<open, flags, ie, ifg, cs, radio, host>>

Acknowledged ==
    /\ pc = "spin" /\ Asserted
    /\ ifg' = FALSE
    /\ pc' = "send"
    /\ UNCHANGED <<open, flags, ie, cs, radio, host>>

\* The transfer, with the pauses of a first one, and release of chip select,
\* on which the radio releases nIRQ.
Send ==
    /\ pc = "send"
    /\ wrote' = TRUE
    /\ cs' = FALSE
    /\ chip' = "idle" /\ outgoing' = Append(outgoing, "answer")
    /\ awaiting' = TRUE
    /\ pc' = "return"
    /\ UNCHANGED <<open, initialized, ie, ifg, power, rx, held>>

\* Interrupts are restored.
WriteReturns ==
    /\ pc = "return"
    /\ pc' = "idle"
    /\ UNCHANGED <<open, flags, ie, ifg, cs, radio, host>>

-----------------------------------------------------------------------------
(* processSpiIRQ_, with the callback of the host driver: it handles events *)
(* at once and calls SpiResumeSpi, an answer waits for the main program.   *)

PowerUpNoticed ==
    /\ ~initialized
    /\ initialized' = TRUE
    /\ UNCHANGED <<ie, chip, outgoing, rx, held>>

\* Without a message the radio sends anything.
Incoming == IF chip = "request" /\ outgoing # << >> THEN Head(outgoing) ELSE "nothing"

ReadMessage ==
    /\ initialized
    /\ rx' = Incoming
    /\ outgoing' = IF rx' = "nothing" THEN outgoing ELSE Tail(outgoing)
    /\ chip' = "idle"
    /\ held' = (held \/ rx' = "answer")
    /\ ie' = (rx' = "event")
    /\ UNCHANGED initialized

ProcessSpiIRQ ==
    /\ GIE /\ ie /\ ifg
    /\ ifg' = FALSE
    /\ PowerUpNoticed \/ ReadMessage
    /\ UNCHANGED <<open, wrote, cs, pc, power, awaiting>>

\* Mutant: the host driver's release does not reach the pin.
SpiResumeSpiSilently ==
    /\ pc = "idle" /\ MainRuns /\ held
    /\ held' = FALSE /\ awaiting' = FALSE
    /\ UNCHANGED <<open, flags, ie, ifg, cs, pc, radio, rx>>

\* The host driver has handled the answer.
SpiResumeSpi ==
    /\ pc = "idle" /\ MainRuns /\ held
    /\ held' = FALSE /\ awaiting' = FALSE
    /\ ie' = TRUE
    /\ UNCHANGED <<open, flags, ifg, cs, pc, radio, rx>>

-----------------------------------------------------------------------------
Init ==
    /\ open = FALSE /\ initialized = FALSE /\ wrote = FALSE
    /\ ie = FALSE /\ ifg \in BOOLEAN /\ cs = FALSE /\ pc = "idle"
    /\ power = FALSE /\ chip = "off" /\ outgoing = << >>
    /\ rx = "nothing" /\ held = FALSE /\ awaiting = FALSE

Write == AssertCS \/ Acknowledged \/ Send \/ WriteReturns

Next ==
    \/ RadioSteps
    \/ SpiOpen \/ PowerOn \/ PowerOff \/ SpiClose
    \/ Command \/ Write
    \/ ProcessSpiIRQ \/ SpiResumeSpi

\* The radio does what it has announced, a write that was begun goes on, an
\* interrupt is taken, and the host driver handles what it waits for.
Fairness ==
    /\ WF_vars(PowerUp /\ RadioSteps)
    /\ WF_vars(Request /\ RadioSteps)
    /\ WF_vars(Accept /\ RadioSteps)
    /\ WF_vars(Write) /\ WF_vars(ProcessSpiIRQ) /\ WF_vars(SpiResumeSpi)

Spec == Init /\ [][Next]_vars /\ Fairness

-----------------------------------------------------------------------------
\* Every variable has its type.
TypeOK ==
    /\ open \in BOOLEAN /\ initialized \in BOOLEAN /\ wrote \in BOOLEAN
    /\ ie \in BOOLEAN /\ ifg \in BOOLEAN /\ cs \in BOOLEAN /\ power \in BOOLEAN
    /\ held \in BOOLEAN /\ awaiting \in BOOLEAN
    /\ pc \in {"idle", "stop", "assert", "spin", "send", "return"}
    /\ chip \in {"off", "up", "idle", "request", "accept"}
    /\ outgoing \in Seq(Messages)
    /\ rx \in Messages \union {"nothing"}

\* The three meanings of nIRQ are never mixed up: an interrupt that will be
\* taken is the power-up notice exactly if the handler will take it for that,
\* and otherwise a message is there to be read.
NoticeUnderstood ==
    power /\ ie /\ ifg /\ GIE => IF initialized THEN chip = "request" ELSE chip = "up"

\* A command is sent only to a radio that accepts it, and with the timing of a
\* first write exactly if it is the first one since the radio was powered up.
WriteAccepted == pc = "send" => Asserted /\ cs /\ (wrote <=> chip # "up")

\* What the host driver is working on is not overwritten by the next message.
AnswerKept == held => rx = "answer" /\ ~ie

\* A message that is waiting is announced: the interrupt is requested, or will
\* be when the radio or the write goes on.
RequestPending == chip = "request" /\ GIE => ifg

\* Every command is answered, whatever events and collisions come between.
CommandsAnswered == awaiting ~> ~awaiting

=============================================================================
