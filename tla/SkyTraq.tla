------------------------------ MODULE SkyTraq ------------------------------
(***************************************************************************)
(* The GPS driver of src/sensors/skytraq.c: the receive handler takes NMEA *)
(* and binary sentences apart byte by byte into fragments of a pool that   *)
(* pass to the application, and the transmit handler wraps the             *)
(* application's messages.  A byte is one of the classes the handler tells *)
(* apart; whether a checksum agrees is left open, and so is how much memory*)
(* the pool (a library outside this repository) has for a sentence.  A     *)
(* message may be empty.  SizeMod stands for 2^16, the range of size_t.    *)
(***************************************************************************)
EXTENDS Naturals, Sequences

CONSTANTS Fragments,   \* what the pool can hand out at once
          Sizes,       \* sizes of a fragment
          Lengths,     \* lengths of binary messages, received or sent
          SizeMod,     \* how many values the transmitter's index has
          NoMessage    \* the null pointer

ASSUME SkyTraqAssumption ==
    /\ Sizes \subseteq Nat \ {0}
    /\ SizeMod \in Nat /\ SizeMod > 1 /\ Lengths \subseteq 0..(SizeMod - 1)
    /\ NoMessage \notin Fragments

VARIABLES serial_cb,      \* the application has a receive callback
          state,          \* the receiver's eRxState
          message, size,  \* curmsg.message, and its octets up to message_endp
          message_idx, length_rx,
          allocated,      \* fragments the pool has handed out
          app,            \* fragments the application owns
          seen,           \* the bytes of this sentence so far
          unreported,     \* sentences begun and not yet reported
          tx_state,       \* the transmitter's eTxState
          idx, len,       \* of the message being sent
          UCTXIE,         \* the UART's transmit interrupt is enabled
          wire            \* what has been sent of it

rx == <<state, message, size, message_idx, length_rx, allocated, app, seen, unreported>>
tx == <<tx_state, idx, len, UCTXIE, wire>>
vars == <<serial_cb, rx, tx>>

\* Any octet that is none of the four markers may be a digit.
Bytes == {"$", "*", "A0", "A1", "hex"}

-----------------------------------------------------------------------------
(* nmea_rx_isr_ni, by the state the receiver is in.                        *)

\* Mutant: a sentence that is given up is not released.
AbandonKeepsMemory ==
    IF message = NoMessage
    THEN [allocated |-> allocated, unreported |-> unreported]
    ELSE [allocated |-> allocated,
          unreported |-> IF serial_cb THEN unreported - 1 ELSE 0]

\* What is left of the last sentence is reported with a null pointer, and
\* released: here, and not when it was given up.
Abandon ==
    IF message = NoMessage
    THEN [allocated |-> allocated, unreported |-> unreported]
    ELSE [allocated |-> allocated \ {message},
          unreported |-> IF serial_cb THEN unreported - 1 ELSE 0]

\* Anything but a start of sentence.
Skip(b) ==
    /\ state = "unsync"
    /\ b \notin {"$", "A0"}
    /\ message' = NoMessage
    /\ allocated' = Abandon.allocated
    /\ unreported' = Abandon.unreported
    /\ seen' = << >>
    /\ UNCHANGED <<state, size, message_idx, length_rx, app>>

\* Mutant: the index goes on from the last sentence.
StartKeepsIndex(b) ==
    /\ state = "unsync"
    /\ b \in {"$", "A0"}
    /\ \E m \in Fragments \ Abandon.allocated, s \in Sizes :
           /\ message' = m /\ size' = s
           /\ allocated' = Abandon.allocated \union {m}
    /\ state' = IF b = "$" THEN "store_NMEA" ELSE "start_Binary"
    /\ seen' = <<b>>
    /\ unreported' = Abandon.unreported + IF serial_cb THEN 1 ELSE 0
    /\ UNCHANGED <<message_idx, length_rx, app>>

Start(b) ==
    /\ state = "unsync"
    /\ b \in {"$", "A0"}
    /\ \E m \in Fragments \ Abandon.allocated, s \in Sizes :
           /\ message' = m /\ size' = s
           /\ allocated' = Abandon.allocated \union {m}
    /\ state' = IF b = "$" THEN "store_NMEA" ELSE "start_Binary"
    /\ message_idx' = 0
    /\ seen' = <<b>>
    /\ unreported' = Abandon.unreported + IF serial_cb THEN 1 ELSE 0
    /\ UNCHANGED <<length_rx, app>>

\* fp_request finds no memory, which the application holds: reported at once.
StartWithoutMemory(b) ==
    /\ state = "unsync"
    /\ b \in {"$", "A0"}
    /\ app # {}
    /\ message' = NoMessage
    /\ allocated' = Abandon.allocated
    /\ unreported' = Abandon.unreported
    /\ message_idx' = 0
    /\ seen' = << >>
    /\ UNCHANGED <<state, size, length_rx, app>>

\* The states in which a sentence is being received.
Reading == state # "unsync"

Full == message_idx = size

StoreByte ==
    IF Full THEN state' = "unsync" /\ UNCHANGED message_idx
    ELSE /\ message_idx' = message_idx + 1
         /\ state' = IF state = "store_Binary" /\ message_idx' = length_rx
                     THEN "read_csum_Binary" ELSE state

Collect(b) ==
    /\ \/ state = "store_Binary"
       \/ state = "store_NMEA" /\ b # "*"
    /\ StoreByte
    /\ UNCHANGED length_rx

\* The terminating NUL takes the place of the asterisk.
EndOfText(b) ==
    /\ state = "store_NMEA" /\ b = "*"
    /\ IF Full THEN state' = "unsync" /\ UNCHANGED message_idx
       ELSE state' = "read_csum_NMEA" /\ message_idx' = message_idx + 1
    /\ UNCHANGED length_rx

ReadHeader(b) ==
    \/ /\ state = "start_Binary"
       /\ length_rx' = 0
       /\ state' = IF b = "A1" THEN "read_len_Binary" ELSE "unsync"
    \* The octets of the length are told apart only by what they add up to.
    \/ /\ state = "read_len_Binary" /\ b = "hex"
       /\ state' = "read_len_Binary_2"
       /\ UNCHANGED length_rx
    \/ /\ state = "read_len_Binary_2" /\ b = "hex"
       /\ state' = "store_Binary"
       /\ length_rx' \in Lengths

ReadDigit(b) ==
    /\ \/ state = "read_csum_NMEA"
       \/ state = "read_csum_NMEA_2" /\ b # "hex"
    /\ state' = IF b = "hex" THEN "read_csum_NMEA_2" ELSE "unsync"
    /\ UNCHANGED length_rx

\* The bytes that only move the receiver on.
Read(b) ==
    /\ \/ Collect(b) \/ EndOfText(b)
       \/ (ReadHeader(b) \/ ReadDigit(b)) /\ UNCHANGED message_idx
    /\ seen' = IF state' = "unsync" THEN << >> ELSE Append(seen, b)
    /\ UNCHANGED <<message, size, allocated, app, unreported>>

\* Mutant: the sentence stays the receiver's.
HandOverKeepsMessage ==
    /\ app' = app \union {message}
    /\ unreported' = unreported - 1
    /\ UNCHANGED message

HandOver ==
    /\ app' = app \union {message}
    /\ message' = NoMessage
    /\ unreported' = unreported - 1

\* The checksum is complete.  If it does not agree, or nobody wants the
\* sentence, it is left for the next byte to give up.
Validate(b) ==
    /\ \/ state = "read_csum_Binary"
       \/ state = "read_csum_NMEA_2" /\ b = "hex"
    /\ state' = "unsync"
    /\ \/ seen' = << >> /\ UNCHANGED <<message, app, unreported>>
       \/ seen' = Append(seen, b) /\ serial_cb /\ HandOver
    /\ UNCHANGED <<size, message_idx, length_rx, allocated>>

RxISR ==
    /\ \E b \in Bytes :
           Skip(b) \/ Start(b) \/ StartWithoutMemory(b) \/ Read(b) \/ Validate(b)
    /\ UNCHANGED <<serial_cb, tx>>

\* vBSP430gpsReleaseMessage_ni: in the callback or later, in any order.
ReleaseMessage ==
    /\ \E m \in app : app' = app \ {m} /\ allocated' = allocated \ {m}
    /\ UNCHANGED <<serial_cb, state, message, size, message_idx, length_rx, seen,
                   unreported, tx>>

-----------------------------------------------------------------------------
(* iBSP430gpsTransmit_ni and nmea_tx_isr_ni.                               *)

\* Mutant: the UART is not told that there is something to send.
TransmitUnarmed(n) ==
    /\ tx_state = "idle"
    /\ len' = n /\ idx' = 0
    /\ tx_state' = "sos_1"
    /\ wire' = << >>
    /\ UNCHANGED <<serial_cb, rx, UCTXIE>>

\* Refused unless idle, which it is not yet in the completion callback.
Transmit(n) ==
    /\ tx_state = "idle"
    /\ len' = n /\ idx' = 0
    /\ tx_state' = "sos_1"
    /\ UCTXIE' = TRUE
    /\ wire' = << >>
    /\ UNCHANGED <<serial_cb, rx>>

\* What goes around a message, and the state after it.
Fixed == [sos_1 |-> "A0", sos_2 |-> "A1", len_1 |-> "len_hi", len_2 |-> "len_lo",
          csum |-> "csum", cr |-> "CR"]
After == [sos_1 |-> "sos_2", sos_2 |-> "len_1", len_1 |-> "len_2",
          len_2 |-> "message", csum |-> "cr", cr |-> "lf"]

SendFixed ==
    /\ tx_state \in DOMAIN Fixed
    /\ wire' = Append(wire, Fixed[tx_state])
    /\ tx_state' = After[tx_state]
    /\ idx' = IF tx_state = "len_2" THEN 0 ELSE idx
    /\ UNCHANGED UCTXIE

\* Mutant: the end is tested before the octet is counted.
SendOctetEndsLate ==
    /\ tx_state = "message"
    /\ wire' = Append(wire, idx)
    /\ idx' = (idx + 1) % SizeMod
    /\ tx_state' = IF idx = len THEN "csum" ELSE "message"
    /\ UNCHANGED UCTXIE

\* The index is counted before it is compared: of an empty message, octets
\* are sent until the index has wrapped.
SendOctet ==
    /\ tx_state = "message"
    /\ wire' = Append(wire, idx)
    /\ idx' = (idx + 1) % SizeMod
    /\ tx_state' = IF idx' = len THEN "csum" ELSE "message"
    /\ UNCHANGED UCTXIE

\* The completion callback, and the interrupt is disabled.
SendLast ==
    /\ tx_state = "lf"
    /\ wire' = Append(wire, "LF")
    /\ tx_state' = "idle"
    /\ UCTXIE' = FALSE
    /\ UNCHANGED idx

TxISR ==
    /\ UCTXIE
    /\ SendFixed \/ SendOctet \/ SendLast
    /\ UNCHANGED <<serial_cb, rx, len>>

-----------------------------------------------------------------------------
\* After iBSP430gpsInitialize_ni.
Init ==
    /\ serial_cb \in BOOLEAN
    /\ state = "unsync" /\ message = NoMessage /\ size = 0
    /\ message_idx = 0 /\ length_rx = 0
    /\ allocated = {} /\ app = {} /\ seen = << >> /\ unreported = 0
    /\ tx_state = "idle" /\ idx = 0 /\ len = 0 /\ UCTXIE = FALSE /\ wire = << >>

Next == RxISR \/ ReleaseMessage \/ (\E n \in Lengths : Transmit(n)) \/ TxISR

\* An interrupt the UART requests is taken.
Spec == Init /\ [][Next]_vars /\ WF_vars(TxISR)

-----------------------------------------------------------------------------
\* A sentence is reported exactly once, with its text or with a null pointer:
\* before the next one begins, and whether it was complete, corrupt, too long
\* or without memory.  So gps.h has it of a sentence found to be corrupt, in
\* one paragraph; for the next one see CorruptUnreported.
ReportedOnce ==
    unreported = IF serial_cb /\ message # NoMessage THEN 1 ELSE 0

\* gps.h: "There is no notification related to messages that were dropped
\* because they were corrupted."  There is, when the next octet comes, also for
\* one that is dropped with room in its fragment.
CorruptUnreported ==
    [][state = "unsync" /\ message # NoMessage /\ message_idx < size
        => unreported' >= unreported]_vars

\* Each fragment the pool has handed out has one owner, the receiver or the
\* application: none leaks, none is released twice or while in use.
OneOwner ==
    /\ message \notin app
    /\ allocated = app \union ({message} \ {NoMessage})

\* A sentence that is being received has a fragment, and fits it.
WithinFragment == Reading => message # NoMessage /\ message_idx <= size

\* The octets of a well-formed sentence that are handed over: the text of an
\* NMEA sentence with its NUL, or the payload of a binary one.
Text(s) == IF s[1] = "$" THEN Len(s) - 3 ELSE Len(s) - 5

WellFormed(s) ==
    \/ /\ s[1] = "$"
       /\ s[Len(s) - 2] = "*" /\ s[Len(s) - 1] = "hex" /\ s[Len(s)] = "hex"
       /\ \A i \in 2..(Len(s) - 3) : s[i] # "*"
    \/ s[1] = "A0" /\ s[2] = "A1" /\ Text(s) = length_rx'

\* What the application is given is one whole well-formed sentence, from its
\* start to its checksum, whatever was received before it.
SentencesWhole ==
    [][app' \ app # {} => WellFormed(seen') /\ message_idx' = Text(seen')]_vars

\* What a message of n octets looks like on the line.
Frame(n) == <<"A0", "A1", "len_hi", "len_lo">> \o [i \in 1..n |-> i - 1]
            \o <<"csum", "CR", "LF">>

\* When the completion callback is called the message, unless it was empty,
\* has been given to the UART as one whole frame.
FramesWhole ==
    [][tx_state # "idle" /\ tx_state' = "idle" /\ len # 0 => wire' = Frame(len)]_vars

\* gps.h on the len of a message to send: "number of octets in the message".
\* An empty one is sent with as many octets as the index has values.
FrameLengthRight ==
    [][tx_state # "idle" /\ tx_state' = "idle" => Len(wire') = Len(Frame(len))]_vars

\* A message that is accepted is sent, and the next one can be.
TransmitCompletes == tx_state # "idle" ~> tx_state = "idle"

=============================================================================
