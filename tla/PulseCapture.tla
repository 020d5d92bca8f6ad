---------------------------- MODULE PulseCapture ----------------------------
(***************************************************************************)
(* Measuring a pulse with a timer's capture register: pulsecap_isr of      *)
(* src/periph/timer.c and the functions that enable, activate and clear a  *)
(* capture.  The timer counts and the input changes while the handler runs,*)
(* so it is split where it reads the capture register, its control         *)
(* register or the overflow flag, and where it writes the control register.*)
(* Time is the counter extended by overflow_count, modulo TimeRange, which *)
(* stands for 2^32.                                                        *)
(***************************************************************************)
EXTENDS Naturals, FiniteSets

CONSTANTS CounterMod,    \* values of the counter register
          OverflowMod,   \* values of the part of overflow_count used in times
          Latency,       \* ticks an interrupt may stay pending
          MaxDrift,      \* ticks that may pass during the handler
          Callbacks      \* the events a callback was asked for

ASSUME CaptureAssumption ==
    /\ CounterMod \in Nat /\ OverflowMod \in Nat \ {0}
    /\ Latency \in Nat /\ MaxDrift \in Nat
    /\ CounterMod > 1
    \* A capture and an overflow are handled within half a period.
    /\ 2 * (Latency + MaxDrift) <= CounterMod /\ 2 * Latency < CounterMod
    /\ Callbacks \subseteq {"start", "end"}

VARIABLES r, taifg, overflow_count,   \* as in TimerAlarm
          level,                      \* the input, CCI
          ccr, ccie, ccifg, cov,      \* hpl->ccr[idx], and bits of hpl->cctl[idx]
          unread,                     \* ccr holds a capture that was not read
          settled,                    \* no edge yet in this tick
          captureEnabled, active,     \* BSP430_TIMER_PULSECAP_ENABLED, _ACTIVE
          flags,                      \* the bits vBSP430timerPulseCaptureClear_ni clears
          start, end,                 \* start_tt_ni, end_tt_ni
          pc,                         \* where the handler is, or "idle"
          got, cctl,                  \* what it has read
          last, prev,                 \* when the last two edges really were
          seen,                       \* those when the handler read cctl
          edges,                      \* edges since an active capture was cleared
          drift, pending              \* ticks since it started, or was requested

timer == <<r, taifg, overflow_count>>
capture == <<ccr, ccifg, cov, unread>>
input == <<level, settled, last, prev>>
pulse == <<flags, start, end, edges>>
call == <<got, cctl, seen>>
setup == <<captureEnabled, active, ccie>>
captureVars == <<timer, capture, input, pulse, pc, call, setup, drift, pending>>

TimeRange == CounterMod * OverflowMod

TrueNow == ((overflow_count + IF taifg THEN 1 ELSE 0) * CounterMod + r) % TimeRange

Requested == taifg \/ (ccie /\ ccifg)

-----------------------------------------------------------------------------
(* The timer and its input.                                                *)

Count ==
    /\ Requested => pending < Latency
    /\ pc # "idle" => drift < MaxDrift
    /\ r' = (r + 1) % CounterMod
    /\ taifg' = (taifg \/ r' = 0)
    /\ pending' = IF Requested THEN pending + 1 ELSE 0
    /\ drift' = IF pc = "idle" THEN 0 ELSE drift + 1
    /\ settled' = TRUE
    /\ UNCHANGED <<overflow_count, capture, level, last, prev, pulse, pc, call, setup>>

\* Captures are synchronised with the timer's clock: one in a tick.
Edge ==
    /\ settled
    /\ settled' = FALSE
    /\ level' = ~level
    /\ last' = TrueNow /\ prev' = last
    /\ ccr' = r /\ ccifg' = TRUE
    /\ cov' = (cov \/ unread) /\ unread' = TRUE
    /\ edges' = IF ccie /\ edges < 3 THEN edges + 1 ELSE edges
    /\ UNCHANGED <<timer, flags, start, end, pc, call, setup, drift, pending>>

\* The overflow handler; a capture that is requested comes first.
OverflowISR ==
    /\ pc = "idle" /\ taifg /\ ~(ccie /\ ccifg)
    /\ taifg' = FALSE
    /\ overflow_count' = (overflow_count + 1) % OverflowMod
    /\ pending' = 0
    /\ UNCHANGED <<r, capture, input, pulse, pc, call, setup, drift>>

-----------------------------------------------------------------------------
(* pulsecap_isr.                                                           *)

\* Reading the interrupt vector clears CCIFG.
Enter ==
    /\ pc = "idle" /\ ccie /\ ccifg
    /\ ccifg' = FALSE
    /\ pc' = "ccr"
    /\ drift' = 0 /\ pending' = IF taifg THEN pending ELSE 0
    /\ UNCHANGED <<timer, ccr, cov, unread, input, pulse, call, setup>>

ReadCCR ==
    /\ pc = "ccr"
    /\ got' = ccr /\ unread' = FALSE
    /\ pc' = "cctl"
    /\ UNCHANGED <<timer, ccr, ccifg, cov, input, pulse, cctl, seen, setup, drift, pending>>

ReadCCTL ==
    /\ pc = "cctl"
    /\ cctl' = [lost |-> cov \/ ccifg, cci |-> level]
    /\ seen' = <<prev, last>>
    /\ pc' = IF cctl'.lost THEN "lost" ELSE "record"
    /\ UNCHANGED <<timer, capture, input, pulse, got, setup, drift, pending>>

\* Captures were lost, and one more is if it comes before this.
Lost ==
    /\ pc = "lost"
    /\ ccifg' = FALSE /\ cov' = FALSE
    /\ pc' = "record"
    /\ UNCHANGED <<timer, ccr, unread, input, pulse, call, setup, drift, pending>>

\* timerOverflowAdjusted_ni
Extended(ctr) ==
    ((overflow_count + IF 2 * ctr < CounterMod /\ taifg THEN 1 ELSE 0)
        * CounterMod + ctr) % TimeRange

\* Mutant: a capture that was lost is not looked for.
OverflowedNever == "overflow" \in flags

Overflowed == cctl.lost \/ "overflow" \in flags

\* The first edge, the second, and the one too many.
RecordStart ==
    /\ ~Overflowed /\ "start" \notin flags
    /\ start' = Extended(got)
    /\ flags' = (flags \ {"high"}) \union {"start"} \union IF cctl.cci THEN {"high"} ELSE {}
    /\ UNCHANGED end

RecordEnd ==
    /\ ~Overflowed /\ "start" \in flags /\ "end" \notin flags
    /\ end' = Extended(got)
    /\ flags' = flags \union {"end"}
    /\ UNCHANGED start

RecordOverflow ==
    /\ Overflowed \/ {"start", "end"} \subseteq flags
    /\ flags' = flags \union {"overflow"}
    /\ UNCHANGED <<start, end>>

Record ==
    /\ pc = "record"
    /\ RecordStart \/ RecordEnd \/ RecordOverflow
    /\ pc' = "callback"
    /\ UNCHANGED <<timer, capture, input, edges, call, setup, drift, pending>>

-----------------------------------------------------------------------------
(* The functions around it, called by the callback or the main program.    *)

\* Nothing may be requested any more.
Settle == pending' = IF taifg \/ (ccie' /\ ccifg') THEN pending ELSE 0

\* vBSP430timerPulseCaptureClear_ni.  Times that are not valid count as 0.
ClearState == flags' = {} /\ start' = 0 /\ end' = 0

Clear == ClearState /\ edges' = IF ccie /\ ccifg THEN 1 ELSE 0

\* Mutant: the request that is pending stays.
SetActiveKeepsRequest ==
    /\ captureEnabled
    /\ active' = TRUE /\ ccie' = TRUE
    /\ UNCHANGED <<captureEnabled, capture>>

\* iBSP430timerPulseCaptureSetActive_ni
SetActive ==
    /\ captureEnabled
    /\ active' = TRUE /\ ccie' = TRUE
    /\ ccifg' = FALSE /\ cov' = FALSE
    /\ UNCHANGED <<captureEnabled, ccr, unread>>

\* An application that activates a capture clears what is left of the last
\* one, which SetActive does not do.
Activate == SetActive /\ ClearState /\ edges' = 0

Deactivate ==
    /\ captureEnabled
    /\ active' = FALSE /\ ccie' = FALSE
    /\ UNCHANGED <<captureEnabled, capture, pulse>>

\* What was recorded last is an event the callback was asked for.
Called ==
    \/ "overflow" \in flags
    \/ (IF "end" \in flags THEN "end" ELSE "start") \in Callbacks

\* The callback may clear or deactivate.  With no event to call back for the
\* handler never gets past its diagnostic loop.
Return ==
    /\ pc = "callback"
    /\ Callbacks # {}
    /\ \/ UNCHANGED <<setup, capture, pulse>>
       \/ Called /\ Clear /\ UNCHANGED <<setup, capture>>
       \/ Called /\ Deactivate
    /\ pc' = "idle"
    /\ got' = 0 /\ cctl' = [lost |-> FALSE, cci |-> FALSE] /\ seen' = <<0, 0>>
    /\ drift' = 0
    /\ Settle
    /\ UNCHANGED <<timer, input>>

\* iBSP430timerPulseCaptureSetEnabled_ni
Enable ==
    /\ ~captureEnabled
    /\ captureEnabled' = TRUE
    /\ UNCHANGED <<active, ccie, capture, pulse>>

Disable ==
    /\ captureEnabled
    /\ captureEnabled' = FALSE /\ active' = FALSE /\ ccie' = FALSE
    /\ UNCHANGED <<capture, pulse>>

Main ==
    /\ pc = "idle"
    /\ \/ Activate \/ Deactivate \/ Enable \/ Disable
       \/ Clear /\ UNCHANGED <<setup, capture>>
    /\ Settle
    /\ UNCHANGED <<timer, input, pc, call, drift>>

-----------------------------------------------------------------------------
CaptureInit ==
    /\ r = 0 /\ taifg = FALSE /\ overflow_count = 0
    /\ level \in BOOLEAN /\ settled = TRUE /\ last = 0 /\ prev = 0
    /\ ccr = 0 /\ ccie = FALSE /\ ccifg = FALSE /\ cov = FALSE /\ unread = FALSE
    /\ captureEnabled = FALSE /\ active = FALSE
    /\ flags = {} /\ start = 0 /\ end = 0 /\ edges = 0
    /\ pc = "idle" /\ got = 0 /\ cctl = [lost |-> FALSE, cci |-> FALSE]
    /\ seen = <<0, 0>> /\ drift = 0 /\ pending = 0

Handler == Enter \/ ReadCCR \/ ReadCCTL \/ Lost \/ Record \/ Return

CaptureNext == Count \/ Edge \/ OverflowISR \/ Handler \/ Main

\* The handler runs to its end.
CaptureSpec == CaptureInit /\ [][CaptureNext]_captureVars /\ WF_captureVars(Handler)

-----------------------------------------------------------------------------
\* The two times of a pulse are those of two edges that followed each other,
\* whatever came between them and their handlers, and the polarity is that of
\* the first: no edge is missed without the pulse being marked as unreliable.
PulseRight ==
    [][Record /\ "end" \notin flags /\ flags' \intersect {"end", "overflow"} = {"end"}
       => /\ <<start, end'>> = seen
          /\ "high" \in flags <=> ~cctl.cci]_captureVars

\* Between handlers, every edge since an active capture was cleared is one of
\* the times, or the pulse is marked: none before activation is taken for its
\* start, and none after it is missed.
EdgesAccounted ==
    pc = "idle" /\ active /\ ~ccifg /\ "overflow" \notin flags =>
        edges = Cardinality(flags \intersect {"start", "end"})

\* The handler returns.
HandlerReturns == pc # "idle" ~> pc = "idle"

=============================================================================
