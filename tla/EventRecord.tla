---------------------------- MODULE EventRecord ----------------------------
(***************************************************************************)
(* The tagged event records of src/utility/event.c: interrupt handlers and *)
(* the main program record events in a circular buffer and raise a flag;   *)
(* the main loop collects the flag, fetches what fits its own array, and   *)
(* sleeps when no flag is set.  Every function runs with interrupts        *)
(* disabled, so each is one step.  The main loop (external: it is the      *)
(* application's) is the one event.h asks for.                             *)
(***************************************************************************)
EXTENDS Integers, Sequences, FiniteSetsExt

CONSTANTS Tags,         \* allocated tags other than LostEventRecord
          NumRecords,   \* BSP430_EVENT_RECORD_NUM_SUPPORTED
          Lens,         \* lengths of the application's array
          SeqMod,       \* values of a sequence number
          MaxLost       \* bound on the events lost between two fetches

ASSUME EventAssumption ==
    /\ IsFiniteSet(Tags) /\ Tags # {}
    /\ NumRecords \in Nat /\ NumRecords >= 2 /\ NumRecords <= 255
    /\ Lens \subseteq Nat \ {0}
    /\ MaxLost \in Nat /\ SeqMod \in Nat /\ NumRecords + MaxLost < SeqMod

VARIABLES xBSP430eventRecord, event_head, event_tail, event_lost_count,
          seqno,      \* xBSP430eventTagConfig_[tag].seqno
          flag,       \* uiBSP430eventFlag_EventRecord in uiBSP430eventFlags_v_
          pc,         \* the main loop: "collect", "fetch", "decide" or "lpm"
          expected    \* the sequence number the application expects next

vars == <<xBSP430eventRecord, event_head, event_tail, event_lost_count,
          seqno, flag, pc, expected>>

\* EVENT_INCREMENT_PTR
Increment(p) == IF p + 1 = NumRecords THEN 0 ELSE p + 1

Empty(h, t) == h = t

Count == (event_head - event_tail) % NumRecords

\* The i-th oldest record in the buffer.
Record(i) == xBSP430eventRecord[(event_tail + i - 1) % NumRecords]

\* The oldest sequence number of a tag that is still in the buffer from the
\* i-th record on, or the number its next event will have.
OldestFrom(tag, i) ==
    LET of == {j \in i..Count : Record(j).tag = tag}
    IN  IF of = {} THEN seqno[tag] ELSE Record(Min(of)).seqno

-----------------------------------------------------------------------------
\* Mutant: the event that gives way is not counted.
RecordEventUncounted(tag) ==
    /\ event_lost_count < MaxLost
    /\ xBSP430eventRecord' = [xBSP430eventRecord EXCEPT
                                ![event_head] = [tag |-> tag, seqno |-> seqno[tag]]]
    /\ seqno' = [seqno EXCEPT ![tag] = (@ + 1) % SeqMod]
    /\ flag' = TRUE
    /\ event_head' = Increment(event_head)
    /\ event_tail' = IF event_head' = event_tail THEN Increment(event_tail) ELSE event_tail
    /\ pc' = IF pc = "lpm" THEN "collect" ELSE pc
    /\ UNCHANGED <<event_lost_count, expected>>

\* xBSP430eventRecordEvent_ni.  A full buffer gives up its oldest event.  A
\* handler that records an event wakes the main program.
RecordEvent(tag) ==
    /\ event_lost_count < MaxLost
    /\ xBSP430eventRecord' = [xBSP430eventRecord EXCEPT
                                ![event_head] = [tag |-> tag, seqno |-> seqno[tag]]]
    /\ seqno' = [seqno EXCEPT ![tag] = (@ + 1) % SeqMod]
    /\ flag' = TRUE
    /\ event_head' = Increment(event_head)
    /\ IF event_head' = event_tail
       THEN /\ event_tail' = Increment(event_tail)
            /\ event_lost_count' = event_lost_count + 1
       ELSE UNCHANGED <<event_tail, event_lost_count>>
    /\ pc' = IF pc = "lpm" THEN "collect" ELSE pc
    /\ UNCHANGED expected

\* uiBSP430eventFlagsGet
FlagsGet ==
    /\ pc = "collect"
    /\ flag' = FALSE
    /\ pc' = IF flag THEN "fetch" ELSE "decide"
    /\ UNCHANGED <<xBSP430eventRecord, event_head, event_tail, event_lost_count,
                   seqno, expected>>

\* How many records a call with room for len returns after the loss record.
Fetched(len) == Min({Count, len - (IF event_lost_count > 0 THEN 1 ELSE 0)})

\* What the application expects next of a tag when it was given n records: one
\* more than the last it saw; it takes a gap at a reported loss for that loss.
ExpectedAfter(tag, n) ==
    LET of == {j \in 1..n : Record(j).tag = tag}
    IN  IF of # {} THEN (Record(Max(of)).seqno + 1) % SeqMod
        ELSE IF event_lost_count > 0 THEN OldestFrom(tag, 1) ELSE expected[tag]

\* Mutant: what does not fit is left for the next event to announce.
GetRecordsSilently(len) ==
    /\ pc = "fetch"
    /\ event_tail' = (event_tail + Fetched(len)) % NumRecords
    /\ event_lost_count' = 0
    /\ expected' = [tag \in Tags |-> ExpectedAfter(tag, Fetched(len))]
    /\ pc' = "decide"
    /\ UNCHANGED <<xBSP430eventRecord, event_head, seqno, flag>>

\* iBSP430eventTagGetRecords.  The application learns of a loss before it gets
\* the events after it, and takes the gap in the numbers for that loss.
GetRecords(len) ==
    /\ pc = "fetch"
    /\ event_tail' = (event_tail + Fetched(len)) % NumRecords
    /\ event_lost_count' = 0
    /\ flag' = (flag \/ ~Empty(event_head, event_tail'))
    /\ expected' = [tag \in Tags |-> ExpectedAfter(tag, Fetched(len))]
    /\ pc' = "decide"
    /\ UNCHANGED <<xBSP430eventRecord, event_head, seqno>>

\* iBSP430eventFlagsEmpty_ni, then into low power mode if there is none.
Decide ==
    /\ pc = "decide"
    /\ pc' = IF flag THEN "collect" ELSE "lpm"
    /\ UNCHANGED <<xBSP430eventRecord, event_head, event_tail, event_lost_count,
                   seqno, flag, expected>>

Init ==
    /\ xBSP430eventRecord = [i \in 0..(NumRecords - 1) |->
                               [tag |-> CHOOSE tag \in Tags : TRUE, seqno |-> 0]]
    /\ event_head = 0 /\ event_tail = 0 /\ event_lost_count = 0
    /\ seqno = [tag \in Tags |-> 0]
    /\ flag = FALSE
    /\ pc = "collect"
    /\ expected = [tag \in Tags |-> 0]

MainLoop == FlagsGet \/ (\E len \in Lens : GetRecords(len)) \/ Decide

Next == MainLoop \/ \E tag \in Tags : RecordEvent(tag)

\* The main loop goes round.
Spec == Init /\ [][Next]_vars /\ WF_vars(MainLoop)

-----------------------------------------------------------------------------
\* Every variable has its type.
TypeOK ==
    /\ xBSP430eventRecord \in [0..(NumRecords - 1) -> [tag : Tags, seqno : 0..(SeqMod - 1)]]
    /\ event_head \in 0..(NumRecords - 1) /\ event_tail \in 0..(NumRecords - 1)
    /\ event_lost_count \in 0..MaxLost
    /\ seqno \in [Tags -> 0..(SeqMod - 1)] /\ expected \in [Tags -> 0..(SeqMod - 1)]
    /\ flag \in BOOLEAN
    /\ pc \in {"collect", "fetch", "decide", "lpm"}

\* The events of a tag, from the one the application expects on, that the
\* buffer does not hold any more.
Gap(tag) == (OldestFrom(tag, 1) - expected[tag]) % SeqMod

Missed == {m \in Tags \X (0..(SeqMod - 1)) : m[2] < Gap(m[1])}

\* Every loss is accounted for: the buffer holds the newest events of each
\* tag without a gap, and the gap between what the application has seen and
\* what the buffer still holds, over all tags, is the count it will be given
\* with its next fetch.
LossesCounted ==
    /\ \A i \in 1..Count :
           OldestFrom(Record(i).tag, i + 1) = (Record(i).seqno + 1) % SeqMod
    /\ event_lost_count = Cardinality(Missed)

\* The main program does not sleep on events: whatever was recorded, fetched
\* in part or recorded between collecting the flag and sleeping, a buffer
\* that is not empty is announced or about to be fetched.
EventsAnnounced ==
    event_head # event_tail \/ event_lost_count > 0 => flag \/ pc = "fetch"

\* The oldest event does not stay in the buffer for ever.
EventsFetched ==
    \A i \in 0..(NumRecords - 1) :
        event_tail = i /\ event_head # i ~> event_tail # i

=============================================================================
