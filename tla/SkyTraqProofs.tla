----------------------------- MODULE SkyTraqProofs -----------------------------
(***************************************************************************)
(* Theorems about SkyTraq, for any pool, any sizes of fragments and any    *)
(* lengths of messages.                                                    *)
(***************************************************************************)
EXTENDS SkyTraq, SequenceTheorems, TLAPS

\* What the receiver's variables may hold.
RxTypes ==
    /\ serial_cb \in BOOLEAN
    /\ message \in Fragments \union {NoMessage}
    /\ app \subseteq Fragments
    /\ size \in Nat /\ message_idx \in Nat /\ length_rx \in Nat

IInv == RxTypes /\ ReportedOnce /\ OneOwner /\ WithinFragment

-----------------------------------------------------------------------------
\* Storing an octet or the NUL stays within the fragment, or ends the sentence.
LEMMA ReadStep == ASSUME IInv, NEW b \in Bytes, Read(b), UNCHANGED serial_cb PROVE IInv'
<1> USE SkyTraqAssumption DEF IInv
<1>0. Collect(b) \/ EndOfText(b) \/ ReadHeader(b) \/ ReadDigit(b)
    BY DEF Read
<1>1. Reading
    BY <1>0 DEF Collect, EndOfText, ReadHeader, ReadDigit, Reading
<1>2. message # NoMessage /\ message_idx \in Nat /\ size \in Nat /\ message_idx <= size
    BY <1>1 DEF WithinFragment, RxTypes
<1>3. /\ state' # "unsync" => message_idx' <= size
      /\ message_idx' \in Nat
    <2>1. CASE Collect(b)
        BY <1>2, <2>1 DEF Collect, StoreByte, Full
    <2>2. CASE EndOfText(b)
        BY <1>2, <2>2 DEF EndOfText, Full
    <2>3. CASE UNCHANGED message_idx
        BY <1>2, <2>3
    <2> QED BY <2>1, <2>2, <2>3 DEF Read
<1>4. length_rx' \in Nat
    <2>1. CASE Collect(b) \/ EndOfText(b) \/ ReadDigit(b)
        BY <2>1 DEF Collect, EndOfText, ReadDigit, RxTypes
    <2>2. CASE ReadHeader(b)
        <3>1. 0 \in Nat /\ \A n \in Lengths : n \in Nat
            BY SkyTraqAssumption
        <3>2. length_rx \in Nat
            BY DEF RxTypes
        <3> QED BY <2>2, <3>1, <3>2 DEF ReadHeader
    <2> QED BY <1>0, <2>1, <2>2
<1>5. UNCHANGED <<serial_cb, message, size, allocated, app, unreported>>
    BY DEF Read
<1>6. RxTypes'
    BY <1>3, <1>4, <1>5 DEF RxTypes
<1>7. ReportedOnce' /\ OneOwner'
    BY <1>5 DEF ReportedOnce, OneOwner
<1>8. WithinFragment'
    BY <1>2, <1>3, <1>5 DEF WithinFragment, Reading
<1> QED BY <1>6, <1>7, <1>8

\* Giving up what is left of a sentence leaves the pool to the application
\* alone and nothing to report.
LEMMA AbandonFacts ==
    ASSUME IInv
    PROVE  Abandon.allocated = app /\ Abandon.unreported = 0
<1>1. CASE message = NoMessage
    BY <1>1 DEF Abandon, IInv, OneOwner, ReportedOnce
<1>2. CASE message # NoMessage
    <2>1. allocated \ {message} = app
        BY <1>2 DEF IInv, OneOwner
    <2>2. serial_cb => unreported - 1 = 0
        BY <1>2 DEF IInv, ReportedOnce
    <2> QED BY <1>2, <2>1, <2>2 DEF Abandon
<1> QED BY <1>1, <1>2

\* A byte that is no start of sentence, or comes without memory for one.
LEMMA IdleStep ==
    ASSUME IInv, NEW b \in Bytes, Skip(b) \/ StartWithoutMemory(b), UNCHANGED serial_cb
    PROVE  IInv'
<1>1. /\ state' = "unsync" /\ message' = NoMessage
      /\ allocated' = app /\ unreported' = 0
      /\ UNCHANGED <<serial_cb, size, length_rx, app>>
      /\ message_idx' = message_idx \/ message_idx' = 0
    BY AbandonFacts DEF Skip, StartWithoutMemory
<1>2. RxTypes'
    BY <1>1 DEF IInv, RxTypes
<1>3. ReportedOnce'
    BY <1>1 DEF ReportedOnce
<1>4. OneOwner'
    BY <1>1, SkyTraqAssumption DEF IInv, RxTypes, OneOwner
<1>5. WithinFragment'
    BY <1>1 DEF WithinFragment, Reading
<1> QED BY <1>2, <1>3, <1>4, <1>5 DEF IInv

\* A sentence begins in a fragment of its own.
LEMMA StartStep == ASSUME IInv, NEW b \in Bytes, Start(b), UNCHANGED serial_cb PROVE IInv'
<1>1. PICK m \in Fragments \ app, s \in Sizes :
          message' = m /\ size' = s /\ allocated' = app \union {m}
    BY AbandonFacts DEF Start
<1>2. /\ message_idx' = 0 /\ unreported' = (IF serial_cb THEN 1 ELSE 0)
      /\ UNCHANGED <<serial_cb, length_rx, app>>
    BY AbandonFacts DEF Start
<1>3. m # NoMessage /\ s \in Nat
    BY SkyTraqAssumption
<1>4. RxTypes'
    BY <1>1, <1>2, <1>3 DEF IInv, RxTypes
<1>5. ReportedOnce'
    BY <1>1, <1>2, <1>3 DEF ReportedOnce
<1>6. OneOwner'
    BY <1>1, <1>2, <1>3 DEF OneOwner
<1>7. WithinFragment'
    BY <1>1, <1>2, <1>3 DEF WithinFragment
<1> QED BY <1>4, <1>5, <1>6, <1>7 DEF IInv

\* A complete sentence passes to the application, or waits to be given up.
LEMMA ValidateStep == ASSUME IInv, NEW b \in Bytes, Validate(b), UNCHANGED serial_cb PROVE IInv'
<1>1. /\ state' = "unsync"
      /\ UNCHANGED <<serial_cb, size, message_idx, length_rx, allocated>>
    BY DEF Validate
<1>2. Reading
    BY DEF Validate, Reading
<1>3. message # NoMessage /\ message \in Fragments
    BY <1>2 DEF IInv, WithinFragment, RxTypes
<1>4. WithinFragment'
    BY <1>1 DEF WithinFragment, Reading
<1>5. CASE UNCHANGED <<message, app, unreported>>
    BY <1>1, <1>4, <1>5 DEF IInv, RxTypes, ReportedOnce, OneOwner
<1>6. CASE serial_cb /\ HandOver
    <2>1. RxTypes'
        BY <1>1, <1>3, <1>6 DEF HandOver, IInv, RxTypes
    <2>2. ReportedOnce'
        BY <1>1, <1>3, <1>6 DEF HandOver, IInv, ReportedOnce
    <2>3. OneOwner'
        BY <1>1, <1>3, <1>6, SkyTraqAssumption DEF HandOver, IInv, RxTypes, OneOwner
    <2> QED BY <1>4, <2>1, <2>2, <2>3 DEF IInv
<1> QED BY <1>5, <1>6 DEF Validate

\* Every step of the driver and of the application keeps IInv.
LEMMA Step == IInv /\ [Next]_vars => IInv'
<1> SUFFICES ASSUME IInv, [Next]_vars PROVE IInv'
    OBVIOUS
<1>1. CASE RxISR
    BY <1>1, ReadStep, IdleStep, StartStep, ValidateStep DEF RxISR
<1>2. CASE ReleaseMessage
    <2>1. PICK m \in app : app' = app \ {m} /\ allocated' = allocated \ {m}
        BY <1>2 DEF ReleaseMessage
    <2>2. UNCHANGED <<serial_cb, state, message, size, message_idx, length_rx, unreported>>
        BY <1>2 DEF ReleaseMessage
    <2>3. RxTypes'
        BY <2>1, <2>2 DEF IInv, RxTypes
    <2>4. ReportedOnce' /\ WithinFragment'
        BY <2>2 DEF IInv, ReportedOnce, WithinFragment, Reading
    <2>5. OneOwner'
        BY <2>1, <2>2 DEF IInv, OneOwner
    <2> QED BY <2>3, <2>4, <2>5 DEF IInv
<1>3. CASE UNCHANGED <<serial_cb, rx>>
    BY <1>3 DEF rx, IInv, RxTypes, ReportedOnce, OneOwner, WithinFragment, Reading
<1> QED BY <1>1, <1>2, <1>3 DEF Next, vars, Transmit, TxISR

\* IInv holds throughout.
LEMMA InductiveInvariant == Spec => []IInv
<1>1. Init => IInv
    BY DEF Init, IInv, RxTypes, ReportedOnce, OneOwner, WithinFragment, Reading
<1> QED BY <1>1, Step, PTL DEF Spec

\* Every sentence that begins is reported once, with its text or without.
THEOREM EachReportedOnce == Spec => []ReportedOnce
BY InductiveInvariant, PTL DEF IInv

\* The fragments of the pool are divided between the receiver and the
\* application: nothing leaks and nothing is owned twice, for any pool.
THEOREM EachFragmentOwned == Spec => []OneOwner
BY InductiveInvariant, PTL DEF IInv

\* No octet is stored past the end of its fragment, whatever is received.
THEOREM NoOverrun == Spec => []WithinFragment
BY InductiveInvariant, PTL DEF IInv

-----------------------------------------------------------------------------
(* Sentences are whole.                                                    *)

\* What the receiver has seen of a sentence, by the state it is in: where the
\* markers are, and how many octets it has stored.
Scanned ==
    LET n == Len(seen)
        TextUpTo(k) == seen[1] = "$" /\ \A i \in 2..k : seen[i] # "*"
        Binary == n >= 2 /\ seen[1] = "A0" /\ seen[2] = "A1"
    IN
    /\ seen \in Seq(Bytes) /\ message_idx \in Nat /\ length_rx \in Nat
    /\ state \in {"unsync", "store_NMEA", "read_csum_NMEA", "read_csum_NMEA_2", "start_Binary",
                  "read_len_Binary", "read_len_Binary_2", "store_Binary", "read_csum_Binary"}
    /\ state = "store_NMEA" => n >= 1 /\ TextUpTo(n) /\ message_idx = n - 1
    /\ state = "read_csum_NMEA" =>
           n >= 2 /\ TextUpTo(n - 1) /\ seen[n] = "*" /\ message_idx = n - 1
    /\ state = "read_csum_NMEA_2" =>
           /\ n >= 3 /\ TextUpTo(n - 2) /\ seen[n - 1] = "*" /\ seen[n] = "hex"
           /\ message_idx = n - 2
    /\ state = "start_Binary" => n = 1 /\ seen[1] = "A0" /\ message_idx = 0
    /\ state = "read_len_Binary" => n = 2 /\ Binary /\ message_idx = 0
    /\ state = "read_len_Binary_2" => n = 3 /\ Binary /\ message_idx = 0
    /\ state = "store_Binary" => n = 4 + message_idx /\ Binary
    /\ state = "read_csum_Binary" => n = 4 + length_rx /\ Binary /\ message_idx = length_rx

\* What one more byte changes of what was seen.
LEMMA SeenFacts ==
    ASSUME NEW s \in Seq(Bytes), NEW b \in Bytes
    PROVE  /\ Append(s, b) \in Seq(Bytes)
           /\ Len(Append(s, b)) = Len(s) + 1
           /\ \A i \in 1..Len(s) : Append(s, b)[i] = s[i]
           /\ Append(s, b)[Len(s) + 1] = b
BY AppendProperties

\* Storing an octet of text or of a binary message.
LEMMA CollectScans == ASSUME Scanned, NEW b \in Bytes, Collect(b), Read(b) PROVE Scanned'
<1>1. seen \in Seq(Bytes) /\ Len(seen) \in Nat /\ message_idx \in Nat /\ length_rx \in Nat
    BY DEF Scanned
<1>2. CASE state' = "unsync"
    <2>1. seen' = << >> /\ UNCHANGED <<message_idx, length_rx>>
        BY <1>1, <1>2 DEF Read, Collect, StoreByte, Scanned
    <2> QED BY <1>1, <1>2, <2>1 DEF Scanned
<1>3. CASE state' # "unsync"
    <2>1. /\ seen' = Append(seen, b) /\ UNCHANGED length_rx
          /\ message_idx' = message_idx + 1
        BY <1>3 DEF Read, Collect, StoreByte
    <2>2. /\ seen' \in Seq(Bytes) /\ Len(seen') = Len(seen) + 1
          /\ \A i \in 1..Len(seen) : seen'[i] = seen[i]
          /\ seen'[Len(seen) + 1] = b
        BY <1>1, <2>1, SeenFacts
    <2>3. CASE state = "store_NMEA"
        <3>1. b # "*" /\ state' = "store_NMEA"
            BY <1>3, <2>3 DEF Collect, StoreByte
        <3> QED BY <1>1, <2>1, <2>2, <2>3, <3>1 DEF Scanned
    <2>4. CASE state = "store_Binary"
        <3>1. state' = IF message_idx' = length_rx THEN "read_csum_Binary" ELSE "store_Binary"
            BY <1>3, <2>4 DEF Collect, StoreByte
        <3> QED BY <1>1, <2>1, <2>2, <2>4, <3>1 DEF Scanned
    <2> QED BY <2>3, <2>4 DEF Collect
<1> QED BY <1>2, <1>3

\* The asterisk, the octets before a binary message and the first digit.
LEMMA MarkScans ==
    ASSUME Scanned, NEW b \in Bytes, Read(b),
           \/ EndOfText(b)
           \/ (ReadHeader(b) \/ ReadDigit(b)) /\ UNCHANGED message_idx
    PROVE  Scanned'
<1>1. seen \in Seq(Bytes) /\ Len(seen) \in Nat /\ message_idx \in Nat /\ length_rx \in Nat
    BY DEF Scanned
<1>2. /\ length_rx' = length_rx \/ length_rx' = 0 \/ length_rx' \in Lengths
      /\ length_rx' \in Nat
    <2>1. length_rx' = length_rx \/ length_rx' = 0 \/ length_rx' \in Lengths
        BY DEF EndOfText, ReadHeader, ReadDigit
    <2>2. \A n \in Lengths : n \in Nat
        BY SkyTraqAssumption
    <2> QED BY <1>1, <2>1, <2>2
<1>3. message_idx' \in Nat
    BY <1>1 DEF EndOfText
<1>4. CASE state' = "unsync"
    <2>1. seen' = << >>
        BY <1>4 DEF Read
    <2> QED BY <1>2, <1>3, <1>4, <2>1 DEF Scanned
<1>5. CASE state' # "unsync"
    <2>1. seen' = Append(seen, b)
        BY <1>5 DEF Read
    <2>2. /\ seen' \in Seq(Bytes) /\ Len(seen') = Len(seen) + 1
          /\ \A i \in 1..Len(seen) : seen'[i] = seen[i]
          /\ seen'[Len(seen) + 1] = b
          /\ Len(seen) >= 1 => seen'[1] = seen[1]
          /\ Len(seen) >= 2 => seen'[2] = seen[2]
        BY <1>1, <2>1, SeenFacts
    <2>3. CASE EndOfText(b)
        <3>1. /\ state = "store_NMEA" /\ b = "*" /\ state' = "read_csum_NMEA"
              /\ message_idx' = message_idx + 1
            BY <1>5, <2>3 DEF EndOfText
        <3> QED BY <1>1, <1>2, <2>2, <3>1 DEF Scanned
    <2>4. CASE ReadHeader(b) /\ UNCHANGED message_idx
        <3>1. CASE state = "start_Binary"
            <4>1. b = "A1" /\ state' = "read_len_Binary"
                BY <1>5, <2>4, <3>1 DEF ReadHeader
            <4>2. Len(seen) = 1 /\ seen[1] = "A0" /\ message_idx' = 0
                BY <2>4, <3>1 DEF Scanned
            <4>3. Len(seen') = 2 /\ seen'[1] = "A0" /\ seen'[2] = "A1"
                BY <2>2, <4>1, <4>2
            <4> QED BY <1>2, <2>2, <4>1, <4>2, <4>3 DEF Scanned
        <3>2. CASE state = "read_len_Binary"
            <4>1. state' = "read_len_Binary_2"
                BY <2>4, <3>2 DEF ReadHeader
            <4>2. /\ Len(seen) = 2 /\ seen[1] = "A0" /\ seen[2] = "A1"
                  /\ message_idx' = 0
                BY <2>4, <3>2 DEF Scanned
            <4>3. Len(seen') = 3 /\ seen'[1] = "A0" /\ seen'[2] = "A1"
                BY <2>2, <4>2
            <4> QED BY <1>2, <2>2, <4>1, <4>2, <4>3 DEF Scanned
        <3>3. CASE state = "read_len_Binary_2"
            <4>1. state' = "store_Binary" /\ length_rx' \in Lengths
                BY <2>4, <3>3 DEF ReadHeader
            <4>2. /\ Len(seen) = 3 /\ seen[1] = "A0" /\ seen[2] = "A1"
                  /\ message_idx' = 0
                BY <2>4, <3>3 DEF Scanned
            <4>3. Len(seen') = 4 /\ seen'[1] = "A0" /\ seen'[2] = "A1"
                BY <2>2, <4>2
            <4> QED BY <1>2, <2>2, <4>1, <4>2, <4>3 DEF Scanned
        <3> QED BY <2>4, <3>1, <3>2, <3>3 DEF ReadHeader
    <2>5. CASE ReadDigit(b) /\ UNCHANGED message_idx
        <3>1. state = "read_csum_NMEA" /\ b = "hex" /\ state' = "read_csum_NMEA_2"
            BY <1>5, <2>5 DEF ReadDigit
        <3> QED BY <1>1, <1>2, <2>2, <2>5, <3>1 DEF Scanned
    <2> QED BY <2>3, <2>4, <2>5
<1> QED BY <1>4, <1>5

LEMMA StepScans == Scanned /\ [Next]_vars => Scanned'
<1> SUFFICES ASSUME Scanned, [Next]_vars PROVE Scanned'
    OBVIOUS
<1>0. seen \in Seq(Bytes) /\ Len(seen) \in Nat /\ message_idx \in Nat /\ length_rx \in Nat
    BY DEF Scanned
<1>1. ASSUME NEW b \in Bytes, Skip(b) \/ StartWithoutMemory(b) PROVE Scanned'
    <2>1. /\ state' = "unsync" /\ seen' = << >> /\ UNCHANGED length_rx
          /\ message_idx' = message_idx \/ message_idx' = 0
        BY <1>1 DEF Skip, StartWithoutMemory
    <2> QED BY <1>0, <2>1 DEF Scanned
<1>2. ASSUME NEW b \in Bytes, Start(b) PROVE Scanned'
    <2>1. /\ b \in {"$", "A0"} /\ state' = IF b = "$" THEN "store_NMEA" ELSE "start_Binary"
          /\ seen' = <<b>> /\ message_idx' = 0 /\ UNCHANGED length_rx
        BY <1>2 DEF Start
    <2>2. seen' \in Seq(Bytes) /\ Len(seen') = 1 /\ seen'[1] = b
        BY <1>2, <2>1
    <2>3. CASE b = "$"
        BY <1>0, <2>1, <2>2, <2>3 DEF Scanned
    <2>4. CASE b = "A0"
        BY <1>0, <2>1, <2>2, <2>4 DEF Scanned
    <2> QED BY <2>1, <2>3, <2>4
<1>3. ASSUME NEW b \in Bytes, Read(b) PROVE Scanned'
    BY <1>3, CollectScans, MarkScans DEF Read
<1>4. ASSUME NEW b \in Bytes, Validate(b) PROVE Scanned'
    <2>1. /\ state' = "unsync" /\ UNCHANGED <<message_idx, length_rx>>
          /\ seen' = << >> \/ seen' = Append(seen, b)
        BY <1>4 DEF Validate
    <2>2. seen' \in Seq(Bytes)
        <3>1. << >> \in Seq(Bytes) /\ Append(seen, b) \in Seq(Bytes)
            BY <1>0, <1>4, SeenFacts
        <3> QED BY <2>1, <3>1
    <2> QED BY <1>0, <2>1, <2>2 DEF Scanned
<1>5. CASE UNCHANGED <<state, message_idx, length_rx, seen>>
    BY <1>5 DEF Scanned
<1> QED BY <1>1, <1>2, <1>3, <1>4, <1>5
        DEF Next, RxISR, ReleaseMessage, Transmit, TxISR, vars, rx

\* What is handed over began at a start of sentence, holds no marker that the
\* receiver took for an octet, and ends with its checksum.
LEMMA HandOverIsWhole ==
    Scanned /\ Next => (app' \ app # {} => WellFormed(seen') /\ message_idx' = Text(seen'))
<1> SUFFICES ASSUME Scanned, Next, app' \ app # {}
             PROVE  WellFormed(seen') /\ message_idx' = Text(seen')
    OBVIOUS
<1>1. PICK b \in Bytes : Validate(b) /\ app' # app
    <2>1. ASSUME NEW b \in Bytes, Skip(b) \/ Start(b) \/ StartWithoutMemory(b) \/ Read(b)
          PROVE  app' = app
        BY <2>1 DEF Skip, Start, StartWithoutMemory, Read
    <2>2. ReleaseMessage => app' \subseteq app
        BY DEF ReleaseMessage
    <2>3. (\E n \in Lengths : Transmit(n)) \/ TxISR => app' = app
        BY DEF Transmit, TxISR, rx
    <2> QED BY <2>1, <2>2, <2>3 DEF Next, RxISR
<1>2. seen' = Append(seen, b) /\ UNCHANGED <<message_idx, length_rx>>
    BY <1>1 DEF Validate
<1>3. /\ seen \in Seq(Bytes) /\ Len(seen) \in Nat /\ message_idx \in Nat /\ length_rx \in Nat
    BY DEF Scanned
<1>4. /\ Len(seen') = Len(seen) + 1
      /\ \A i \in 1..Len(seen) : seen'[i] = seen[i]
      /\ seen'[Len(seen) + 1] = b
    BY <1>2, <1>3, SeenFacts
<1>5. CASE state = "read_csum_Binary"
    <2>1. Len(seen) = 4 + length_rx /\ seen[1] = "A0" /\ seen[2] = "A1" /\ message_idx = length_rx
        BY <1>5 DEF Scanned
    <2>2. seen'[1] = "A0" /\ seen'[2] = "A1" /\ Text(seen') = length_rx'
        BY <1>2, <1>3, <1>4, <2>1 DEF Text
    <2> QED BY <1>2, <2>1, <2>2 DEF WellFormed
<1>6. CASE state = "read_csum_NMEA_2" /\ b = "hex"
    <2> DEFINE n == Len(seen)
    <2>1. /\ n >= 3 /\ seen[1] = "$" /\ seen[n - 1] = "*" /\ seen[n] = "hex"
          /\ \A i \in 2..(n - 2) : seen[i] # "*"
          /\ message_idx = n - 2
        BY <1>6 DEF Scanned
    <2>2. /\ seen'[1] = "$" /\ seen'[n - 1] = "*" /\ seen'[n] = "hex" /\ seen'[n + 1] = "hex"
          /\ \A i \in 2..(n - 2) : seen'[i] # "*"
        BY <1>3, <1>4, <1>6, <2>1
    <2>3. Len(seen') - 2 = n - 1 /\ Len(seen') - 1 = n /\ Len(seen') - 3 = n - 2
        BY <1>3, <1>4
    <2>4. Text(seen') = n - 2
        BY <2>2, <2>3 DEF Text
    <2>5. WellFormed(seen')
        BY <1>4, <2>2, <2>3 DEF WellFormed
    <2> QED BY <1>2, <2>1, <2>4, <2>5
<1> QED BY <1>1, <1>5, <1>6 DEF Validate

\* The application is given whole well-formed sentences only, for any lengths
\* and any sizes of the fragments.
THEOREM SentencesAreWhole == Spec => SentencesWhole
<1>1. Init => Scanned
    BY DEF Init, Scanned
<1>2. Scanned /\ [Next]_vars
          => [app' \ app # {} => WellFormed(seen') /\ message_idx' = Text(seen')]_vars
    BY HandOverIsWhole
<1> QED BY <1>1, <1>2, StepScans, PTL DEF Spec, SentencesWhole

-----------------------------------------------------------------------------
(* Frames are whole.                                                       *)

\* The i-th octet of the frame around a message of n octets.
FrameOctet(n, i) ==
    IF i <= 4 THEN <<"A0", "A1", "len_hi", "len_lo">>[i]
    ELSE IF i <= n + 4 THEN i - 5
    ELSE <<"csum", "CR", "LF">>[i - n - 4]

\* The first k octets of that frame.
Begun(n, k) == [i \in 1..k |-> FrameOctet(n, i)]

\* How many octets of the frame have been sent.
Position == [sos_1 |-> 0, sos_2 |-> 1, len_1 |-> 2, len_2 |-> 3, message |-> idx + 4,
             csum |-> len + 4, cr |-> len + 5, lf |-> len + 6]

\* What is on the wire of a message that is not empty is what the
\* transmitter's state says.
Framed ==
    /\ tx_state \in (DOMAIN Fixed) \cup {"message", "lf", "idle"}
    /\ idx \in Nat /\ len \in 0..(SizeMod - 1)
    /\ len > 0 => /\ tx_state # "idle" => wire = Begun(len, Position[tx_state])
                  /\ tx_state = "message" => idx < len

FrameOctets == {"A0", "A1", "len_hi", "len_lo", "csum", "CR", "LF"} \cup Nat

LEMMA FrameOctetType ==
    ASSUME NEW n \in Nat, NEW i \in 1..(n + 7)
    PROVE  FrameOctet(n, i) \in FrameOctets
<1>1. CASE i <= 4
    <2>1. i = 1 \/ i = 2 \/ i = 3 \/ i = 4
        BY <1>1
    <2> QED BY <1>1, <2>1 DEF FrameOctet, FrameOctets
<1>2. CASE i > 4 /\ i <= n + 4
    <2>1. i - 5 \in Nat
        BY <1>2
    <2> QED BY <1>2, <2>1 DEF FrameOctet, FrameOctets
<1>3. CASE i > 4 /\ i > n + 4
    <2>1. i - n - 4 = 1 \/ i - n - 4 = 2 \/ i - n - 4 = 3
        BY <1>3
    <2> QED BY <1>3, <2>1 DEF FrameOctet, FrameOctets
<1> QED BY <1>1, <1>2, <1>3

\* One more octet of the frame.
LEMMA BegunGrows ==
    ASSUME NEW n \in Nat, NEW k \in 0..(n + 6)
    PROVE  /\ Begun(n, k) \in Seq(FrameOctets)
           /\ Append(Begun(n, k), FrameOctet(n, k + 1)) = Begun(n, k + 1)
<1> DEFINE p == Begun(n, k)
           q == Begun(n, k + 1)
           e == FrameOctet(n, k + 1)
<1>1. \A i \in 1..(k + 1) : FrameOctet(n, i) \in FrameOctets
    BY FrameOctetType
<1>2. p = [i \in 1..k |-> FrameOctet(n, i)] /\ q = [i \in 1..(k + 1) |-> FrameOctet(n, i)]
    BY DEF Begun
<1>3. p \in Seq(FrameOctets) /\ Len(p) = k /\ e \in FrameOctets
    BY <1>1, <1>2
<1>4. q \in Seq(FrameOctets) /\ Len(q) = k + 1
    BY <1>1, <1>2
<1>5. \A i \in 1..k : q[i] = p[i]
    BY <1>2
<1>6. q[k + 1] = e
    BY <1>2
<1> HIDE DEF p, q, e
<1>7. Append(p, e) = q
    BY <1>3, <1>4, <1>5, <1>6
<1> QED BY <1>3, <1>7 DEF p, q, e

\* The frame is all of its octets.
LEMMA FrameIsBegun == ASSUME NEW n \in Nat PROVE Frame(n) = Begun(n, n + 7)
<1> DEFINE header == <<"A0", "A1", "len_hi", "len_lo">>
           payload == [i \in 1..n |-> i - 1]
           trailer == <<"csum", "CR", "LF">>
<1>1. header \in Seq(FrameOctets) /\ Len(header) = 4
    BY DEF FrameOctets
<1>2. payload \in Seq(FrameOctets) /\ Len(payload) = n /\ \A i \in 1..n : payload[i] = i - 1
    <2>1. \A i \in 1..n : i - 1 \in FrameOctets
        BY DEF FrameOctets
    <2> QED BY <2>1
<1>3. trailer \in Seq(FrameOctets) /\ Len(trailer) = 3
    BY DEF FrameOctets
<1>4. /\ \A i \in 1..(n + 7) : Begun(n, n + 7)[i] = IF i <= 4 THEN header[i]
                                 ELSE IF i <= n + 4 THEN i - 5 ELSE trailer[i - n - 4]
      /\ Begun(n, n + 7) \in Seq(FrameOctets) /\ Len(Begun(n, n + 7)) = n + 7
    <2>1. \A i \in 1..(n + 7) : FrameOctet(n, i) \in FrameOctets
        BY FrameOctetType
    <2>2. Begun(n, n + 7) = [i \in 1..(n + 7) |-> FrameOctet(n, i)]
        BY DEF Begun
    <2>3. Begun(n, n + 7) \in Seq(FrameOctets) /\ Len(Begun(n, n + 7)) = n + 7
        BY <2>1, <2>2
    <2> QED BY <2>2, <2>3 DEF FrameOctet
<1>5. Frame(n) = (header \o payload) \o trailer
    BY DEF Frame
<1> DEFINE b == Begun(n, n + 7)
<1> HIDE DEF header, payload, trailer, b
<1>6. /\ header \o payload \in Seq(FrameOctets)
      /\ Len(header \o payload) = n + 4
      /\ \A i \in 1..(n + 4) : (header \o payload)[i] = IF i <= 4 THEN header[i] ELSE i - 5
    <2>1. /\ header \o payload \in Seq(FrameOctets)
          /\ Len(header \o payload) = Len(header) + Len(payload)
        BY <1>1, <1>2, ConcatProperties
    <2>2. \A i \in 1..(Len(header) + Len(payload)) : (header \o payload)[i] =
              IF i <= Len(header) THEN header[i] ELSE payload[i - Len(header)]
        BY <1>1, <1>2, ConcatProperties
    <2>3. \A i \in 1..(n + 4) : (header \o payload)[i] = IF i <= 4 THEN header[i] ELSE i - 5
        <3> SUFFICES ASSUME NEW i \in 1..(n + 4)
                     PROVE  (header \o payload)[i] = IF i <= 4 THEN header[i] ELSE i - 5
            OBVIOUS
        <3>1. i > 4 => i - 4 \in 1..n /\ payload[i - 4] = i - 5
            BY <1>2
        <3>2. (header \o payload)[i] = IF i <= Len(header) THEN header[i] ELSE payload[i - Len(header)]
            <4>1. i \in 1..(Len(header) + Len(payload))
                BY <1>1, <1>2
            <4> QED BY <2>2, <4>1, Zenon
        <3>3. (header \o payload)[i] = IF i <= 4 THEN header[i] ELSE payload[i - 4]
            BY <1>1, <3>2
        <3> QED BY <3>1, <3>3
    <2> QED BY <1>1, <1>2, <2>1, <2>3
<1>7. /\ (header \o payload) \o trailer \in Seq(FrameOctets)
      /\ Len((header \o payload) \o trailer) = n + 7
      /\ \A i \in 1..(n + 7) : ((header \o payload) \o trailer)[i] =
             IF i <= 4 THEN header[i] ELSE IF i <= n + 4 THEN i - 5 ELSE trailer[i - n - 4]
    <2> DEFINE start == header \o payload
    <2>1. /\ start \in Seq(FrameOctets) /\ Len(start) = n + 4
          /\ \A i \in 1..(n + 4) : start[i] = IF i <= 4 THEN header[i] ELSE i - 5
        BY <1>6
    <2> HIDE DEF start
    <2>2. /\ start \o trailer \in Seq(FrameOctets)
          /\ Len(start \o trailer) = Len(start) + Len(trailer)
          /\ \A i \in 1..(Len(start) + Len(trailer)) : (start \o trailer)[i] =
                 IF i <= Len(start) THEN start[i] ELSE trailer[i - Len(start)]
        BY <1>3, <2>1, ConcatProperties
    <2>3. \A i \in 1..(n + 7) : (start \o trailer)[i] =
              IF i <= 4 THEN header[i] ELSE IF i <= n + 4 THEN i - 5 ELSE trailer[i - n - 4]
        <3> SUFFICES ASSUME NEW i \in 1..(n + 7)
                     PROVE  (start \o trailer)[i] = IF i <= 4 THEN header[i]
                                ELSE IF i <= n + 4 THEN i - 5 ELSE trailer[i - n - 4]
            OBVIOUS
        <3>1. i - Len(start) = i - n - 4 /\ i \in 1..(Len(start) + Len(trailer))
            BY <1>3, <2>1
        <3> QED BY <2>1, <2>2, <3>1
    <2> QED BY <1>3, <2>1, <2>2, <2>3 DEF start
<1>8. b \in Seq(FrameOctets) /\ Len(b) = n + 7
      /\ \A i \in 1..(n + 7) : b[i] =
             IF i <= 4 THEN header[i] ELSE IF i <= n + 4 THEN i - 5 ELSE trailer[i - n - 4]
    BY <1>4 DEF b
<1>9. (header \o payload) \o trailer = b
    <2> DEFINE f == (header \o payload) \o trailer
    <2>1. f \in Seq(FrameOctets) /\ Len(f) = Len(b) /\ \A i \in 1..Len(f) : f[i] = b[i]
        BY <1>7, <1>8
    <2> HIDE DEF f
    <2>2. f = b
        BY <1>8, <2>1, SeqEqual
    <2> QED BY <2>2 DEF f
<1> QED BY <1>5, <1>9 DEF b

\* What follows the message.
LEMMA TrailerOctets ==
    ASSUME NEW n \in Nat
    PROVE  /\ FrameOctet(n, n + 5) = "csum"
           /\ FrameOctet(n, n + 6) = "CR"
           /\ FrameOctet(n, n + 7) = "LF"
<1>1. n + 5 - n - 4 = 1 /\ n + 6 - n - 4 = 2 /\ n + 7 - n - 4 = 3
    OBVIOUS
<1>2. \A i \in {n + 5, n + 6, n + 7} : ~(i <= 4) /\ ~(i <= n + 4)
    OBVIOUS
<1> QED BY <1>1, <1>2 DEF FrameOctet

\* The index wraps only after the last of its values.
LEMMA IndexFacts ==
    ASSUME NEW i \in Nat
    PROVE  /\ (i + 1) % SizeMod \in Nat
           /\ i + 1 < SizeMod => (i + 1) % SizeMod = i + 1
BY SkyTraqAssumption, SMT

\* The handler's variables keep their types, whatever the message.
LEMMA SendKeepsTypes ==
    ASSUME Framed, TxISR
    PROVE  /\ tx_state # "idle"
           /\ idx' \in Nat /\ len' = len
           /\ tx_state' \in (DOMAIN Fixed) \cup {"message", "lf", "idle"}
<1>0. idx \in Nat /\ len' = len
      /\ DOMAIN Fixed = {"sos_1", "sos_2", "len_1", "len_2", "csum", "cr"}
    BY DEF Framed, TxISR, Fixed
<1>1. CASE SendOctet
    <2>1. idx' = (idx + 1) % SizeMod /\ tx_state = "message" /\ tx_state' \in {"csum", "message"}
        BY <1>1 DEF SendOctet
    <2> QED BY <1>0, <2>1, IndexFacts
<1>2. CASE SendLast
    BY <1>0, <1>2 DEF SendLast
<1>3. CASE SendFixed
    <2>1. /\ tx_state \in {"sos_1", "sos_2", "len_1", "len_2", "csum", "cr"}
          /\ tx_state' = After[tx_state]
          /\ idx' = IF tx_state = "len_2" THEN 0 ELSE idx
        BY <1>0, <1>3 DEF SendFixed
    <2>2. tx_state' \in {"sos_2", "len_1", "len_2", "message", "cr", "lf"}
        BY <2>1 DEF After
    <2> QED BY <1>0, <2>1, <2>2
<1> QED BY <1>1, <1>2, <1>3 DEF TxISR

\* Each call of the handler sends the next octet of a frame that is not empty.
LEMMA SendsNext ==
    ASSUME Framed, TxISR, len > 0
    PROVE  /\ wire' = Begun(len, Position[tx_state] + 1)
           /\ tx_state' = "idle" => Position[tx_state] = len + 6
           /\ tx_state' # "idle" => Position[tx_state]' = Position[tx_state] + 1
           /\ tx_state' = "message" => idx' < len
<1> DEFINE p == Position[tx_state]
<1>0. /\ idx \in Nat /\ len \in Nat /\ len < SizeMod /\ len' = len
      /\ DOMAIN Fixed = {"sos_1", "sos_2", "len_1", "len_2", "csum", "cr"}
    BY SkyTraqAssumption DEF Framed, TxISR, Fixed
<1>1. tx_state # "idle"
    BY SendKeepsTypes
<1>2. wire = Begun(len, p)
    BY <1>1 DEF Framed
<1>3. ASSUME NEW k \in 0..(len + 6), p = k, wire' = Append(wire, FrameOctet(len, k + 1))
      PROVE  wire' = Begun(len, p + 1)
    BY <1>0, <1>2, <1>3, BegunGrows
<1>4. CASE SendOctet
    <2>1. /\ tx_state = "message" /\ wire' = Append(wire, idx)
          /\ idx' = (idx + 1) % SizeMod
          /\ tx_state' = IF idx' = len THEN "csum" ELSE "message"
        BY <1>4 DEF SendOctet
    <2>2. p = idx + 4 /\ idx < len
        BY <2>1 DEF Position, Framed
    <2>3. idx' = idx + 1
        BY <1>0, <2>1, <2>2, IndexFacts, SkyTraqAssumption
    <2>4. FrameOctet(len, p + 1) = idx
        BY <1>0, <2>2 DEF FrameOctet
    <2>5. wire' = Begun(len, p + 1)
        BY <1>0, <1>3, <2>1, <2>2, <2>4
    <2>6. Position[tx_state]' = p + 1
        BY <1>0, <2>1, <2>2, <2>3 DEF Position
    <2> QED BY <1>0, <1>2, <2>1, <2>2, <2>3, <2>5, <2>6
<1>5. CASE SendLast
    <2>1. tx_state = "lf" /\ wire' = Append(wire, "LF") /\ tx_state' = "idle" /\ idx' = idx
        BY <1>5 DEF SendLast
    <2>2. p = len + 6
        BY <2>1 DEF Position
    <2>3. FrameOctet(len, p + 1) = "LF"
        <3>1. p + 1 = len + 7
            BY <1>0, <2>2
        <3> QED BY <1>0, <3>1, TrailerOctets
    <2>4. wire' = Begun(len, p + 1)
        BY <1>0, <1>3, <2>1, <2>2, <2>3
    <2> QED BY <1>0, <1>2, <2>1, <2>2, <2>4
<1>6. CASE SendFixed
    <2>1. /\ tx_state \in {"sos_1", "sos_2", "len_1", "len_2", "csum", "cr"}
          /\ wire' = Append(wire, Fixed[tx_state]) /\ tx_state' = After[tx_state]
          /\ idx' = IF tx_state = "len_2" THEN 0 ELSE idx
        BY <1>0, <1>6 DEF SendFixed
    <2>2. CASE tx_state \in {"sos_1", "sos_2", "len_1", "len_2"}
        <3>1. p \in 0..3
            BY <2>2 DEF Position
        <3>2. FrameOctet(len, p + 1) = Fixed[tx_state]
            BY <2>2 DEF Position, FrameOctet, Fixed
        <3>3. Position[tx_state]' = p + 1 /\ tx_state' \in {"sos_2", "len_1", "len_2", "message"}
            BY <2>1, <2>2 DEF Position, After
        <3>4. wire' = Begun(len, p + 1)
            BY <1>0, <1>3, <2>1, <3>1, <3>2
        <3>5. idx' \in Nat /\ (tx_state' = "message" => idx' = 0)
            BY <1>0, <2>1, <2>2 DEF After
        <3> QED BY <1>0, <1>2, <3>3, <3>4, <3>5
    <2>3. CASE tx_state \in {"csum", "cr"}
        <3>1. p = IF tx_state = "csum" THEN len + 4 ELSE len + 5
            BY <2>3 DEF Position
        <3>2. FrameOctet(len, p + 1) = Fixed[tx_state]
            <4>1. p + 1 = IF tx_state = "csum" THEN len + 5 ELSE len + 6
                BY <1>0, <2>3, <3>1
            <4> QED BY <1>0, <2>3, <4>1, TrailerOctets DEF Fixed
        <3>3. Position[tx_state]' = p + 1 /\ tx_state' \in {"cr", "lf"}
            BY <1>0, <2>1, <2>3, <3>1 DEF Position, After
        <3>4. wire' = Begun(len, p + 1)
            BY <1>0, <1>3, <2>1, <2>3, <3>1, <3>2
        <3>5. idx' \in Nat
            BY <1>0, <2>1, <2>3
        <3> QED BY <1>0, <1>2, <3>3, <3>4, <3>5
    <2> QED BY <2>1, <2>2, <2>3
<1> QED BY <1>4, <1>5, <1>6 DEF TxISR

LEMMA StepFrames == Framed /\ [Next]_vars => Framed'
<1> SUFFICES ASSUME Framed, [Next]_vars PROVE Framed'
    OBVIOUS
<1>1. CASE TxISR
    <2>1. len > 0 => /\ tx_state' # "idle" => wire' = Begun(len, Position[tx_state]')
                     /\ tx_state' = "message" => idx' < len
        BY <1>1, SendsNext
    <2> QED BY <1>1, <2>1, SendKeepsTypes DEF Framed
<1>2. CASE \E n \in Lengths : Transmit(n)
    <2>1. \A n \in Lengths : n \in 0..(SizeMod - 1)
        BY SkyTraqAssumption
    <2>2. len' \in 0..(SizeMod - 1) /\ idx' = 0 /\ tx_state' = "sos_1" /\ wire' = << >>
        BY <1>2, <2>1 DEF Transmit
    <2>3. Position[tx_state]' = 0
        BY <2>2 DEF Position
    <2>4. Begun(len', 0) = << >>
        BY DEF Begun
    <2> QED BY <2>2, <2>3, <2>4 DEF Framed, Fixed
<1>3. CASE UNCHANGED tx
    BY <1>3 DEF Framed, Position, tx
<1> QED BY <1>1, <1>2, <1>3 DEF Next, RxISR, ReleaseMessage, vars

\* When the completion callback is called, the line has carried the message in
\* one whole frame, for messages of any length but zero.
THEOREM FramesAreWhole == Spec => FramesWhole
<1>1. Init => Framed
    BY SkyTraqAssumption DEF Init, Framed
<1>2. ASSUME Framed, [Next]_vars
      PROVE  [tx_state # "idle" /\ tx_state' = "idle" /\ len # 0 => wire' = Frame(len)]_vars
    <2> SUFFICES ASSUME Next, tx_state # "idle", tx_state' = "idle", len # 0
                 PROVE  wire' = Frame(len)
        BY <1>2
    <2>1. TxISR
        BY DEF Next, RxISR, ReleaseMessage, Transmit, tx
    <2>2. len \in Nat /\ len > 0
        BY <1>2, SkyTraqAssumption DEF Framed
    <2>3. wire' = Begun(len, Position[tx_state] + 1) /\ Position[tx_state] = len + 6
        BY <1>2, <2>1, <2>2, SendsNext
    <2>4. Position[tx_state] + 1 = len + 7
        BY <2>2, <2>3
    <2> QED BY <2>2, <2>3, <2>4, FrameIsBegun
<1> QED BY <1>1, <1>2, StepFrames, PTL DEF Spec, FramesWhole

=============================================================================
