--------------------------- MODULE ResourceProofs ---------------------------
(***************************************************************************)
(* Proofs about the resource manager, for every set of clients, every use  *)
(* they make of their callbacks and every bound on nesting.                *)
(*                                                                         *)
(* None of the invariants is inductive alone.  Ownership needs mutual      *)
(* exclusion, because clients without identity share one holder value; the *)
(* absence of lost wakeups needs to know what the queue looks like while a *)
(* callback is on the stack (CallingIsHead, HeadTold), and what unlinking  *)
(* a waiter does to a queue without duplicates.                            *)
(***************************************************************************)
EXTENDS Resource, TLAPS

\* While a callback is on the stack its waiter is the head of the queue.
CallingIsHead == calling # Null => waiter # <<>> /\ calling = Head(waiter)

\* NoLostWakeup, also while a callback is running.
HeadTold ==
    count = 0 /\ waiter # <<>>
        => \/ calling = Head(waiter)
           \/ calling = Null /\ (flag[Head(waiter)] \/ retry[Head(waiter)])

IInv ==
    /\ TypeOK
    /\ MutualExclusion
    /\ OwnerRecorded
    /\ QueuedOnce
    /\ CallingIsHead
    /\ HeadTold

-----------------------------------------------------------------------------
(* The queue.                                                              *)

\* Unlinking the waiter at position i shortens the queue by one and shifts
\* what follows.
LEMMA WithoutFacts ==
    ASSUME NEW S, NEW q \in Seq(S), NEW i \in 1..Len(q)
    PROVE  /\ Without(q, i) \in Seq(S)
           /\ Len(Without(q, i)) = Len(q) - 1
           /\ \A j \in 1..(Len(q) - 1) :
                 Without(q, i)[j] = IF j < i THEN q[j] ELSE q[j + 1]
<1>1. Len(q) \in Nat /\ Len(q) - 1 \in Nat
  OBVIOUS
<1>2. \A j \in 1..(Len(q) - 1) : (IF j < i THEN q[j] ELSE q[j + 1]) \in S
  OBVIOUS
<1>3. Without(q, i) \in [1..(Len(q) - 1) -> S]
  BY <1>2 DEF Without
<1>4. Without(q, i) \in Seq(S)
  BY <1>1, <1>3
<1>5. DOMAIN Without(q, i) = 1..(Len(q) - 1)
  BY DEF Without
<1>6. Len(Without(q, i)) = Len(q) - 1
  BY <1>1, <1>4, <1>5
<1>7. \A j \in 1..(Len(q) - 1) :
         Without(q, i)[j] = IF j < i THEN q[j] ELSE q[j + 1]
  BY DEF Without
<1> QED
  BY <1>4, <1>6, <1>7

\* remove_waiter_ni on a queue without duplicates leaves a queue without
\* duplicates, keeps the head unless it was the waiter removed, and empties
\* the queue only then.
LEMMA RemoveWaiterFacts ==
    ASSUME NEW q \in Seq(Clients), NEW c \in Clients,
           \A i, j \in 1..Len(q) : q[i] = q[j] => i = j
    PROVE  /\ RemoveWaiter(q, c) \in Seq(Clients)
           /\ \A i, j \in 1..Len(RemoveWaiter(q, c)) :
                 RemoveWaiter(q, c)[i] = RemoveWaiter(q, c)[j] => i = j
           /\ \A i \in 1..Len(RemoveWaiter(q, c)) : RemoveWaiter(q, c)[i] # c
           /\ q # <<>> /\ Head(q) # c
                 => RemoveWaiter(q, c) # <<>> /\ Head(RemoveWaiter(q, c)) = Head(q)
           /\ RemoveWaiter(q, c) # <<>> => q # <<>>
<1> DEFINE r == RemoveWaiter(q, c)
<1>1. CASE ~ \E i \in 1..Len(q) : q[i] = c
  <2>1. r = q
    BY <1>1 DEF RemoveWaiter
  <2> QED
    BY <1>1, <2>1
<1>2. CASE \E i \in 1..Len(q) : q[i] = c
  <2>1. PICK p \in 1..Len(q) : q[p] = c /\ r = Without(q, p)
    BY <1>2 DEF RemoveWaiter
  <2>2. Len(q) \in Nat /\ q # <<>>
    BY <2>1
  <2>3. /\ r \in Seq(Clients)
        /\ Len(r) = Len(q) - 1
        /\ \A j \in 1..(Len(q) - 1) : r[j] = IF j < p THEN q[j] ELSE q[j + 1]
    <3>1. /\ Without(q, p) \in Seq(Clients)
          /\ Len(Without(q, p)) = Len(q) - 1
          /\ \A j \in 1..(Len(q) - 1) :
                Without(q, p)[j] = IF j < p THEN q[j] ELSE q[j + 1]
      BY WithoutFacts
    <3> HIDE DEF r
    <3> QED
      BY <2>1, <3>1
  <2> HIDE DEF r
  <2>4. \A i, j \in 1..Len(r) : r[i] = r[j] => i = j
    BY <2>1, <2>2, <2>3
  <2>5. \A i \in 1..Len(r) : r[i] # c
    BY <2>1, <2>2, <2>3
  <2>6. ASSUME Head(q) # c
        PROVE  r # <<>> /\ Head(r) = Head(q)
    <3>1. p # 1
      BY <2>1, <2>2, <2>6
    <3>2. 1 \in 1..Len(r) /\ r[1] = q[1]
      BY <2>1, <2>2, <2>3, <3>1
    <3> QED
      BY <2>2, <2>3, <3>2
  <2> QED
    BY <2>2, <2>3, <2>4, <2>5, <2>6 DEF r
<1> QED
  BY <1>1, <1>2

\* Linking a waiter that is not queued, at either end, keeps the queue
\* without duplicates.
LEMMA LinkFacts ==
    ASSUME NEW q \in Seq(Clients), NEW c \in Clients,
           \A i, j \in 1..Len(q) : q[i] = q[j] => i = j,
           \A i \in 1..Len(q) : q[i] # c
    PROVE  /\ Append(q, c) \in Seq(Clients)
           /\ <<c>> \o q \in Seq(Clients)
           /\ \A i, j \in 1..Len(Append(q, c)) :
                 Append(q, c)[i] = Append(q, c)[j] => i = j
           /\ \A i, j \in 1..Len(<<c>> \o q) :
                 (<<c>> \o q)[i] = (<<c>> \o q)[j] => i = j
<1>1. /\ Append(q, c) \in Seq(Clients)
      /\ Len(Append(q, c)) = Len(q) + 1
      /\ \A i \in 1..(Len(q) + 1) :
            Append(q, c)[i] = IF i = Len(q) + 1 THEN c ELSE q[i]
  OBVIOUS
<1>2. /\ <<c>> \o q \in Seq(Clients)
      /\ Len(<<c>> \o q) = Len(q) + 1
      /\ \A i \in 1..(Len(q) + 1) :
            (<<c>> \o q)[i] = IF i = 1 THEN c ELSE q[i - 1]
  OBVIOUS
<1>3. Len(q) \in Nat
  OBVIOUS
<1>4. \A i, j \in 1..Len(Append(q, c)) : Append(q, c)[i] = Append(q, c)[j] => i = j
  BY <1>1, <1>3
<1>5. \A i, j \in 1..Len(<<c>> \o q) : (<<c>> \o q)[i] = (<<c>> \o q)[j] => i = j
  BY <1>2, <1>3
<1> QED
  BY <1>1, <1>2, <1>4, <1>5

-----------------------------------------------------------------------------
(* The calls.                                                              *)

\* A claim, wherever it is made, leaves the resource held by the one client
\* that owns it and the queue without duplicates.
LEMMA ClaimStep ==
    ASSUME TypeOK, MutualExclusion, OwnerRecorded, QueuedOnce,
           NEW c \in Clients, NEW type \in WaitTypes, NEW own \in BOOLEAN,
           Claim(c, type, own)
    PROVE  /\ holder' \in Clients \cup {Null, TheResource}
           /\ count' \in Nat /\ count' # 0
           /\ waiter' \in Seq(Clients)
           /\ owned' \in [Clients -> Nat]
           /\ MutualExclusion'
           /\ OwnerRecorded'
           /\ QueuedOnce'
<1> USE ClientsAssumption
<1>1. CASE ClaimFirst(c, own)
  <2>1. count = 0 /\ holder' = HolderFor(c) /\ count' = 1
    BY <1>1 DEF ClaimFirst
  <2>2. holder' \in Clients \cup {TheResource} /\ holder' # Null
    BY <2>1 DEF HolderFor
  <2>3. \A d \in Clients : owned'[d] = IF d = c THEN 1 ELSE 0
    BY <1>1, <2>1 DEF ClaimFirst, TypeOK, OwnerRecorded
  <2>4. owned' \in [Clients -> Nat]
    BY <1>1 DEF ClaimFirst, TypeOK
  <2>5. waiter' \in Seq(Clients) /\ QueuedOnce'
    BY <1>1, RemoveWaiterFacts DEF ClaimFirst, TypeOK, QueuedOnce
  <2>6. MutualExclusion'
    BY <2>3 DEF MutualExclusion
  <2>7. OwnerRecorded'
    BY <2>1, <2>2, <2>3 DEF OwnerRecorded
  <2> QED
    BY <2>1, <2>2, <2>4, <2>5, <2>6, <2>7
<1>2. CASE ClaimAgain(c, own)
  <2>1. /\ count # 0 /\ count' = count + 1 /\ count \in Nat
        /\ holder' = holder /\ waiter' = waiter
        /\ SelfOf(c) = holder
    BY <1>2 DEF ClaimAgain, TypeOK
  <2>2. c \notin Anonymous /\ holder = c
    BY <2>1 DEF SelfOf, OwnerRecorded
  <2>3. \A d \in Clients : owned[d] > 0 => d = c /\ owned[d] = count
    BY <2>2 DEF OwnerRecorded, HolderFor
  <2>4. owned[c] = count
    BY <2>1, <2>3 DEF OwnerRecorded, TypeOK
  <2>5. owned' \in [Clients -> Nat]
    BY <1>2 DEF ClaimAgain, TypeOK
  <2>6. \A d \in Clients : owned'[d] = IF d = c THEN count + 1 ELSE 0
    BY <1>2, <2>3, <2>4 DEF ClaimAgain, TypeOK
  <2>7. MutualExclusion'
    BY <2>6 DEF MutualExclusion
  <2>8. HolderFor(c) = holder
    BY <2>2 DEF HolderFor
  <2>9. OwnerRecorded'
    BY <2>1, <2>6, <2>8 DEF OwnerRecorded
  <2> QED
    BY <2>1, <2>5, <2>7, <2>9 DEF TypeOK, QueuedOnce
<1>3. CASE ClaimFails(c, type, own)
  <2>1. count' = count /\ holder' = holder /\ owned' = owned /\ count # 0
    BY <1>3 DEF ClaimFails
  <2>2. \/ waiter' = waiter
        \/ ~Queued(c) /\ waiter' = <<c>> \o waiter
        \/ ~Queued(c) /\ waiter' = Append(waiter, c)
    BY <1>3 DEF ClaimFails
  <2>3. waiter' \in Seq(Clients) /\ QueuedOnce'
    <3>1. CASE waiter' = waiter
      BY <3>1 DEF TypeOK, QueuedOnce
    <3>2. CASE ~Queued(c) /\ waiter' # waiter
      <4>1. /\ waiter \in Seq(Clients)
            /\ \A i, j \in 1..Len(waiter) : waiter[i] = waiter[j] => i = j
            /\ \A i \in 1..Len(waiter) : waiter[i] # c
        BY <3>2 DEF TypeOK, QueuedOnce, Queued
      <4>2. CASE waiter' = <<c>> \o waiter
        BY <4>1, <4>2, LinkFacts DEF QueuedOnce
      <4>3. CASE waiter' = Append(waiter, c)
        BY <4>1, <4>3, LinkFacts DEF QueuedOnce
      <4> QED
        BY <2>2, <3>2, <4>2, <4>3
    <3> QED
      BY <2>2, <3>1, <3>2
  <2> QED
    BY <2>1, <2>3 DEF TypeOK, MutualExclusion, OwnerRecorded
<1> QED
  BY <1>1, <1>2, <1>3 DEF Claim

\* Cancelling a wait, wherever it is done, passes a notification on: by the
\* client itself while no callback runs, or by the callback that is running.
LEMMA CancelStep ==
    ASSUME IInv, NEW c \in Clients, CancelWait(c), calling \in {Null, c},
           \A d \in Clients \ {c} : flag'[d] = flag[d] /\ retry'[d] = retry[d]
    PROVE  /\ waiter' \in Seq(Clients)
           /\ calling' \in Clients \cup {Null}
           /\ QueuedOnce'
           /\ CallingIsHead'
           /\ HeadTold'
<1> USE ClientsAssumption
<1>1. /\ waiter' = RemoveWaiter(waiter, c) /\ count' = count
      /\ calling' = IF Notified(waiter) = c THEN Notified(waiter') ELSE Null
  BY DEF CancelWait
<1>2. /\ waiter' \in Seq(Clients)
      /\ QueuedOnce'
      /\ waiter # <<>> /\ Head(waiter) # c
            => waiter' # <<>> /\ Head(waiter') = Head(waiter)
      /\ waiter' # <<>> => waiter # <<>>
  BY <1>1, RemoveWaiterFacts DEF IInv, TypeOK, QueuedOnce
<1>3. \A q \in Seq(Clients) : q # <<>> => Head(q) \in Clients
  OBVIOUS
<1>4. waiter \in Seq(Clients)
  BY DEF IInv, TypeOK
<1>5. calling' \in Clients \cup {Null} /\ CallingIsHead'
  BY <1>1, <1>2, <1>3 DEF Notified, CallingIsHead
<1>6. ASSUME count' = 0, waiter' # <<>>
      PROVE  \/ calling' = Head(waiter')
             \/ calling' = Null /\ (flag'[Head(waiter')] \/ retry'[Head(waiter')])
  <2>1. waiter # <<>> /\ Head(waiter) \in Clients
    BY <1>2, <1>3, <1>4, <1>6
  <2>2. CASE Head(waiter) = c
    BY <1>1, <1>6, <2>1, <2>2 DEF Notified
  <2>3. CASE Head(waiter) # c
    <3>1. calling' = Null /\ Head(waiter') = Head(waiter)
      BY <1>1, <1>2, <2>1, <2>3 DEF Notified
    <3>2. calling # Head(waiter)
      BY <2>1, <2>3
    <3>3. flag[Head(waiter)] \/ retry[Head(waiter)]
      BY <1>1, <1>6, <2>1, <3>2 DEF IInv, HeadTold
    <3> QED
      BY <2>1, <2>3, <3>1, <3>3
  <2> QED
    BY <2>2, <2>3
<1> QED
  BY <1>2, <1>5, <1>6 DEF HeadTold

\* A release leaves the resource with its one owner, or free with the head
\* of its queue about to be told.
LEMMA ReleaseStep ==
    ASSUME IInv, NEW c \in Clients, Release(c)
    PROVE  IInv'
<1> USE ClientsAssumption
<1>1. /\ calling = Null /\ holder = HolderFor(c) /\ holder # Null
      /\ count' = count - 1 /\ owned' = [owned EXCEPT ![c] = @ - 1]
      /\ waiter' = waiter /\ flag' = flag /\ retry' = retry
      /\ LastRelease(c) \/ InnerRelease(c)
  BY DEF Release, HolderFor
<1>2. count \in Nat /\ owned \in [Clients -> Nat] /\ waiter \in Seq(Clients)
  BY DEF IInv, TypeOK
<1>3. owned[c] > 0 /\ owned[c] = count
  <2>1. PICK d \in Clients : owned[d] # 0
    BY <1>1 DEF IInv, OwnerRecorded
  <2>2. owned[d] > 0 /\ HolderFor(d) = HolderFor(c) /\ owned[d] = count
    BY <1>1, <1>2, <2>1 DEF IInv, OwnerRecorded
  <2>3. CASE c \in Anonymous
    BY <1>1, <1>2, <2>2, <2>3 DEF Release, IInv, OwnerRecorded
  <2>4. CASE c \notin Anonymous
    BY <1>1, <2>2, <2>4 DEF HolderFor
  <2> QED
    BY <2>3, <2>4
<1>4. \A d \in Clients : owned[d] = IF d = c THEN count ELSE 0
  BY <1>2, <1>3 DEF IInv, MutualExclusion
<1>5. \A d \in Clients : owned'[d] = IF d = c THEN count - 1 ELSE 0
  BY <1>1, <1>2, <1>3, <1>4
<1>6. owned' \in [Clients -> Nat] /\ count' \in Nat
  BY <1>1, <1>2, <1>3
<1>7. MutualExclusion'
  BY <1>5 DEF MutualExclusion
<1>8. \A q \in Seq(Clients) : q # <<>> => Head(q) \in Clients
  OBVIOUS
<1>9. CASE LastRelease(c)
  <2>1. count = 1 /\ holder' = Null /\ calling' = Notified(waiter)
    BY <1>9 DEF LastRelease
  <2>2. OwnerRecorded'
    BY <1>1, <1>5, <2>1 DEF OwnerRecorded
  <2>3. TypeOK'
    BY <1>1, <1>2, <1>6, <1>8, <2>1 DEF IInv, TypeOK, Notified
  <2>4. CallingIsHead' /\ HeadTold'
    BY <1>1, <2>1 DEF CallingIsHead, HeadTold, Notified
  <2> QED
    BY <1>1, <1>7, <2>2, <2>3, <2>4 DEF IInv, QueuedOnce
<1>10. CASE InnerRelease(c)
  <2>1. count > 1 /\ holder' = holder /\ calling' = calling
    BY <1>10 DEF InnerRelease
  <2>2. OwnerRecorded'
    BY <1>1, <1>2, <1>5, <2>1 DEF OwnerRecorded
  <2>3. TypeOK'
    BY <1>1, <1>6, <2>1 DEF IInv, TypeOK
  <2>4. CallingIsHead' /\ HeadTold'
    BY <1>1, <1>2, <2>1 DEF CallingIsHead, HeadTold
  <2> QED
    BY <1>1, <1>7, <2>2, <2>3, <2>4 DEF IInv, QueuedOnce
<1> QED
  BY <1>1, <1>9, <1>10

LEMMA IInvInit == Init => IInv
BY ClientsAssumption
   DEF Init, IInv, TypeOK, MutualExclusion, OwnerRecorded, QueuedOnce,
       CallingIsHead, HeadTold

LEMMA IInvStep == IInv /\ [Next]_vars => IInv'
<1> USE ClientsAssumption
<1> SUFFICES ASSUME IInv, [Next]_vars PROVE IInv'
  OBVIOUS
<1>1. ASSUME NEW c \in Clients, TryClaim(c)
      PROVE  IInv'
  <2>1. PICK type \in WaitTypes, own \in BOOLEAN : Claim(c, type, own)
    BY <1>1 DEF TryClaim
  <2>2. /\ calling' = Null /\ flag' = flag
        /\ retry' = [retry EXCEPT ![c] = FALSE]
    BY <1>1 DEF TryClaim
  <2>3. /\ holder' \in Clients \cup {Null, TheResource}
        /\ count' \in Nat /\ count' # 0 /\ waiter' \in Seq(Clients)
        /\ owned' \in [Clients -> Nat]
        /\ MutualExclusion' /\ OwnerRecorded' /\ QueuedOnce'
    BY <2>1, ClaimStep DEF IInv
  <2> QED
    BY <2>2, <2>3 DEF IInv, TypeOK, CallingIsHead, HeadTold
<1>2. ASSUME NEW c \in Clients, Release(c)
      PROVE  IInv'
  BY <1>2, ReleaseStep
<1>3. ASSUME NEW c \in Clients, GiveUp(c)
      PROVE  IInv'
  <2>1. /\ CancelWait(c) /\ calling = Null /\ flag' = flag
        /\ retry' = [retry EXCEPT ![c] = FALSE]
    BY <1>3 DEF GiveUp
  <2>2. /\ waiter' \in Seq(Clients) /\ calling' \in Clients \cup {Null}
        /\ QueuedOnce' /\ CallingIsHead' /\ HeadTold'
    BY <2>1, CancelStep DEF IInv, TypeOK
  <2>3. holder' = holder /\ count' = count /\ owned' = owned
    BY <2>1 DEF CancelWait
  <2> QED
    BY <2>1, <2>2, <2>3 DEF IInv, TypeOK, MutualExclusion, OwnerRecorded
<1>4. ASSUME NEW c \in Clients, FetchFlag(c)
      PROVE  IInv'
  <2>1. /\ flag' = [flag EXCEPT ![c] = FALSE]
        /\ retry' = [retry EXCEPT ![c] = TRUE]
        /\ holder' = holder /\ count' = count /\ waiter' = waiter
        /\ owned' = owned /\ calling' = calling /\ calling = Null
    BY <1>4 DEF FetchFlag
  <2>2. waiter # <<>> => Head(waiter) \in Clients
    BY DEF IInv, TypeOK
  <2>3. HeadTold'
    BY <2>1, <2>2 DEF IInv, TypeOK, HeadTold
  <2> QED
    BY <2>1, <2>3
       DEF IInv, TypeOK, MutualExclusion, OwnerRecorded, QueuedOnce, CallingIsHead
<1>5. ASSUME NEW c \in Clients, SetFlagOnRelease(c)
      PROVE  IInv'
  <2>1. /\ flag' = [flag EXCEPT ![c] = TRUE]
        /\ calling = c /\ calling' = Null
        /\ holder' = holder /\ count' = count /\ waiter' = waiter
        /\ owned' = owned /\ retry' = retry
    BY <1>5 DEF SetFlagOnRelease
  <2>2. HeadTold'
    BY <2>1 DEF IInv, TypeOK, CallingIsHead, HeadTold
  <2> QED
    BY <2>1, <2>2
       DEF IInv, TypeOK, MutualExclusion, OwnerRecorded, QueuedOnce, CallingIsHead
<1>6. ASSUME NEW c \in Clients, CallbackClaims(c)
      PROVE  IInv'
  <2>1. calling = c /\ calling' = Null /\ flag' = flag /\ retry' = retry
    BY <1>6 DEF CallbackClaims
  <2>2. CASE \E type \in WaitTypes : Claim(c, type, TRUE)
    <3>1. PICK type \in WaitTypes : Claim(c, type, TRUE)
      BY <2>2
    <3>2. /\ holder' \in Clients \cup {Null, TheResource}
          /\ count' \in Nat /\ count' # 0 /\ waiter' \in Seq(Clients)
          /\ owned' \in [Clients -> Nat]
          /\ MutualExclusion' /\ OwnerRecorded' /\ QueuedOnce'
      BY <3>1, ClaimStep DEF IInv
    <3> QED
      BY <2>1, <3>2 DEF IInv, TypeOK, CallingIsHead, HeadTold
  <2>3. CASE owned[c] >= MaxClaims /\ UNCHANGED <<holder, count, waiter, owned>>
    <3>1. owned[c] > 0
      BY <2>3 DEF IInv, TypeOK
    <3> QED
      BY <2>1, <2>3, <3>1
         DEF IInv, TypeOK, MutualExclusion, OwnerRecorded, QueuedOnce,
             CallingIsHead, HeadTold
  <2> QED
    BY <1>6, <2>2, <2>3 DEF CallbackClaims
<1>7. ASSUME NEW c \in Clients, CallbackCancels(c)
      PROVE  IInv'
  <2>1. CancelWait(c) /\ calling = c /\ flag' = flag /\ retry' = retry
    BY <1>7 DEF CallbackCancels
  <2>2. /\ waiter' \in Seq(Clients) /\ calling' \in Clients \cup {Null}
        /\ QueuedOnce' /\ CallingIsHead' /\ HeadTold'
    BY <2>1, CancelStep
  <2>3. holder' = holder /\ count' = count /\ owned' = owned
    BY <2>1 DEF CancelWait
  <2> QED
    BY <2>1, <2>2, <2>3 DEF IInv, TypeOK, MutualExclusion, OwnerRecorded
<1>8. CASE UNCHANGED vars
  BY <1>8 DEF vars, IInv, TypeOK, MutualExclusion, OwnerRecorded, QueuedOnce,
              CallingIsHead, HeadTold
<1> QED
  BY <1>1, <1>2, <1>3, <1>4, <1>5, <1>6, <1>7, <1>8 DEF Next, Callback

-----------------------------------------------------------------------------
(* The results.                                                            *)

LEMMA Invariance == Spec => []IInv
<1>1. Init => IInv
  BY IInvInit
<1>2. IInv /\ [Next]_vars => IInv'
  BY IInvStep
<1> QED
  BY <1>1, <1>2, PTL DEF Spec

\* Every variable keeps its type (the variables of src/resource.c and what
\* its clients remember).
THEOREM TypeCorrect == Spec => []TypeOK
BY Invariance, PTL DEF IInv

\* At most one subsystem at a time has been told that it has the resource.
THEOREM Exclusive == Spec => []MutualExclusion
BY Invariance, PTL DEF IInv

\* holder and count agree with what the clients were told, so a rightful
\* release never spins.
THEOREM OwnerIsRecorded == Spec => []OwnerRecorded
BY Invariance, PTL DEF IInv

\* No waiter is linked twice: remove_waiter_ni never reaches its spin.
THEOREM NoWaiterTwice == Spec => []QueuedOnce
BY Invariance, PTL DEF IInv

\* A free resource with a queue has told its head, whoever barged in or
\* cancelled meanwhile.
THEOREM NoWakeupLost == Spec => []NoLostWakeup
<1>1. IInv => NoLostWakeup
  BY ClientsAssumption DEF IInv, TypeOK, HeadTold, NoLostWakeup
<1> QED
  BY <1>1, Invariance, PTL

-----------------------------------------------------------------------------
(* The refinement of the recursive mutex.                                  *)

\* A granted claim is an Acquire of the mutex, a refused one a stutter.
LEMMA ClaimRefines ==
    ASSUME IInv, NEW c \in Clients, NEW type \in WaitTypes, NEW own \in BOOLEAN,
           Claim(c, type, own)
    PROVE  Mutex!Acquire(c) \/ UNCHANGED owned
<1> USE ClientsAssumption
<1>1. CASE ClaimFirst(c, own)
  BY <1>1 DEF ClaimFirst, IInv, OwnerRecorded, Mutex!Acquire, Mutex!Free
<1>2. CASE ClaimAgain(c, own)
  <2>1. count # 0 /\ SelfOf(c) = holder /\ owned' = [owned EXCEPT ![c] = @ + 1]
    BY <1>2 DEF ClaimAgain
  <2>2. c \notin Anonymous /\ holder = c
    BY <2>1 DEF SelfOf, IInv, OwnerRecorded
  <2>3. PICK d \in Clients : owned[d] # 0
    BY <2>1 DEF IInv, OwnerRecorded
  <2>4. owned[d] > 0
    BY <2>3 DEF IInv, TypeOK
  <2>5. d = c
    BY <2>2, <2>4 DEF IInv, OwnerRecorded, HolderFor
  <2> QED
    BY <2>1, <2>2, <2>4, <2>5 DEF Mutex!Acquire
<1>3. CASE ClaimFails(c, type, own)
  BY <1>3 DEF ClaimFails
<1> QED
  BY <1>1, <1>2, <1>3 DEF Claim

LEMMA StepRefines == IInv /\ [Next]_vars => [Mutex!Next]_owned
<1> USE ClientsAssumption
<1> SUFFICES ASSUME IInv, [Next]_vars PROVE Mutex!Next \/ UNCHANGED owned
  OBVIOUS
<1>1. ASSUME NEW c \in Clients, TryClaim(c)
      PROVE  Mutex!Acquire(c) \/ UNCHANGED owned
  BY <1>1, ClaimRefines DEF TryClaim
<1>2. ASSUME NEW c \in Clients, Release(c)
      PROVE  Mutex!Release(c)
  <2>1. IInv'
    BY <1>2, ReleaseStep
  <2>2. owned \in [Clients -> Nat] /\ owned' = [owned EXCEPT ![c] = @ - 1]
    BY <1>2 DEF Release, IInv, TypeOK
  <2>3. owned'[c] \in Nat
    BY <2>1 DEF IInv, TypeOK
  <2>4. owned[c] > 0
    BY <2>2, <2>3
  <2> QED
    BY <2>2, <2>4 DEF Mutex!Release
<1>3. ASSUME NEW c \in Clients, GiveUp(c) \/ CallbackCancels(c)
      PROVE  UNCHANGED owned
  BY <1>3 DEF GiveUp, CallbackCancels, CancelWait
<1>4. ASSUME NEW c \in Clients, FetchFlag(c) \/ SetFlagOnRelease(c)
      PROVE  UNCHANGED owned
  BY <1>4 DEF FetchFlag, SetFlagOnRelease
<1>5. ASSUME NEW c \in Clients, CallbackClaims(c)
      PROVE  Mutex!Acquire(c) \/ UNCHANGED owned
  BY <1>5, ClaimRefines DEF CallbackClaims
<1>6. CASE UNCHANGED vars
  BY <1>6 DEF vars
<1> QED
  BY <1>1, <1>2, <1>3, <1>4, <1>5, <1>6 DEF Next, Callback, Mutex!Next

\* The resource manager implements the recursive mutex its clients rely on.
THEOREM RefinesMutex == Spec => ImplementsMutex
<1>1. Init => Mutex!Init
  BY DEF Init, Mutex!Init
<1>2. IInv /\ [Next]_vars => [Mutex!Next]_owned
  BY StepRefines
<1> QED
  BY <1>1, <1>2, Invariance, PTL DEF Spec, ImplementsMutex, Mutex!Spec

-----------------------------------------------------------------------------
(* The order of the queue.                                                 *)

\* In a queue without duplicates, unlinking a waiter or linking one at either
\* end puts no two waiters the other way round.
LEMMA OrderFacts ==
    ASSUME NEW q \in Seq(Clients), NEW c \in Clients,
           \A i, j \in 1..Len(q) : q[i] = q[j] => i = j,
           NEW r, \/ r = q
                  \/ r = RemoveWaiter(q, c)
                  \/ (r = Append(q, c) \/ r = <<c>> \o q) /\ \A i \in 1..Len(q) : q[i] # c,
           NEW a, NEW b, Before(q, a, b), Before(r, b, a)
    PROVE  FALSE
<1>1. Len(q) \in Nat
  OBVIOUS
<1>2. PICK i, j \in 1..Len(q) : i < j /\ q[i] = a /\ q[j] = b
  BY DEF Before
<1>3. PICK k, m \in 1..Len(r) : k < m /\ r[k] = b /\ r[m] = a
  BY DEF Before
<1>4. CASE r = q
  <2>1. k = j /\ m = i
    BY <1>2, <1>3, <1>4
  <2> QED
    BY <1>2, <1>3, <2>1
<1>5. CASE r = RemoveWaiter(q, c) /\ r # q
  <2>1. PICK p \in 1..Len(q) : r = Without(q, p)
    BY <1>5 DEF RemoveWaiter
  <2>2. /\ Len(r) = Len(q) - 1
        /\ \A n \in 1..(Len(q) - 1) : r[n] = IF n < p THEN q[n] ELSE q[n + 1]
    <3>1. /\ Len(Without(q, p)) = Len(q) - 1
          /\ \A n \in 1..(Len(q) - 1) :
                Without(q, p)[n] = IF n < p THEN q[n] ELSE q[n + 1]
      BY WithoutFacts
    <3> QED
      BY <2>1, <3>1
  <2> DEFINE At(n) == IF n < p THEN n ELSE n + 1
  <2>3. \A n \in 1..Len(r) : At(n) \in 1..Len(q) /\ r[n] = q[At(n)]
    BY <1>1, <2>2
  <2>4. PICK x \in 1..Len(q) : x = (IF k < p THEN k ELSE k + 1) /\ q[x] = b
    BY <1>3, <2>3
  <2>5. PICK y \in 1..Len(q) : y = (IF m < p THEN m ELSE m + 1) /\ q[y] = a
    BY <1>3, <2>3
  <2>6. x = j /\ y = i
    BY <1>2, <2>4, <2>5
  <2> QED
    BY <1>2, <1>3, <2>4, <2>5, <2>6
<1>6. CASE r = Append(q, c) /\ \A n \in 1..Len(q) : q[n] # c
  <2>1. /\ Len(r) = Len(q) + 1
        /\ \A n \in 1..(Len(q) + 1) : r[n] = IF n = Len(q) + 1 THEN c ELSE q[n]
    BY <1>6
  <2>2. a # c /\ b # c
    BY <1>2, <1>6
  <2>3. k \in 1..Len(q) /\ m \in 1..Len(q) /\ q[k] = b /\ q[m] = a
    BY <1>1, <1>3, <2>1, <2>2
  <2>4. k = j /\ m = i
    BY <1>2, <2>3
  <2> QED
    BY <1>2, <1>3, <2>4
<1>7. CASE r = <<c>> \o q /\ \A n \in 1..Len(q) : q[n] # c
  <2>1. /\ Len(r) = Len(q) + 1
        /\ \A n \in 1..(Len(q) + 1) : r[n] = IF n = 1 THEN c ELSE q[n - 1]
    BY <1>7
  <2>2. a # c /\ b # c
    BY <1>2, <1>7
  <2>3. k - 1 \in 1..Len(q) /\ m - 1 \in 1..Len(q) /\ q[k - 1] = b /\ q[m - 1] = a
    BY <1>1, <1>3, <2>1, <2>2
  <2>4. k - 1 = j /\ m - 1 = i
    BY <1>2, <2>3
  <2> QED
    BY <1>2, <1>3, <2>4
<1> QED
  BY <1>4, <1>5, <1>6, <1>7

\* Two waiters that stay queued keep their order: no claim, release, cancel or
\* callback reprioritises, whatever wait types are used.
THEOREM OrderIsKept == Spec => OrderKept
<1> DEFINE Kept == \A c, d \in Clients : Before(waiter, c, d) /\ Before(waiter', d, c) => FALSE
<1>1. ASSUME IInv, Next PROVE Kept
  <2>1. waiter \in Seq(Clients) /\ \A i, j \in 1..Len(waiter) : waiter[i] = waiter[j] => i = j
    BY <1>1 DEF IInv, TypeOK, QueuedOnce
  <2>2. \E c \in Clients :
            \/ waiter' = waiter
            \/ waiter' = RemoveWaiter(waiter, c)
            \/ (waiter' = Append(waiter, c) \/ waiter' = <<c>> \o waiter) /\ ~Queued(c)
    <3>1. ASSUME NEW c \in Clients, NEW type, NEW own, Claim(c, type, own)
          PROVE  \/ waiter' = waiter
                 \/ waiter' = RemoveWaiter(waiter, c)
                 \/ (waiter' = Append(waiter, c) \/ waiter' = <<c>> \o waiter) /\ ~Queued(c)
      BY <3>1 DEF Claim, ClaimFirst, ClaimAgain, ClaimFails
    <3>2. ASSUME NEW c \in Clients, Release(c) \/ FetchFlag(c) \/ SetFlagOnRelease(c)
          PROVE  waiter' = waiter
      BY <3>2 DEF Release, FetchFlag, SetFlagOnRelease
    <3>3. ASSUME NEW c \in Clients, GiveUp(c) \/ CallbackCancels(c)
          PROVE  waiter' = RemoveWaiter(waiter, c)
      BY <3>3 DEF GiveUp, CallbackCancels, CancelWait
    <3> QED
      BY <1>1, <3>1, <3>2, <3>3 DEF Next, TryClaim, Callback, CallbackClaims
  <2>3. PICK c \in Clients :
            \/ waiter' = waiter
            \/ waiter' = RemoveWaiter(waiter, c)
            \/ (waiter' = Append(waiter, c) \/ waiter' = <<c>> \o waiter)
               /\ \A i \in 1..Len(waiter) : waiter[i] # c
    BY <2>2 DEF Queued
  <2> QED
    BY <2>1, <2>3, OrderFacts
<1>2. IInv /\ [Next]_vars => [Kept]_vars
  BY <1>1
<1> QED
  BY <1>2, Invariance, PTL DEF Spec, OrderKept

=============================================================================
