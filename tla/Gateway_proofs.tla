---------------------------- MODULE Gateway_proofs ----------------------------
(***************************************************************************)
(* Proofs about Gateway, for any callers, profiles, window, backoff and    *)
(* answers, and any number of calls.                                       *)
(***************************************************************************)
EXTENDS Gateway, FiniteSetTheorems, SequenceTheorems, WellFoundedInduction, TLAPS

\* The places of a call that has its slot and may not have given it back yet.
Inside == {"reserving", "asleep", "posting", "backoff", "reading"}

\* The list that is pruned still holds every reservation that counts.
Remembered == \A n \in DOMAIN ages : ages[n] < Window => n \in times

\* The slots, counted.
Counted == IsFiniteSet(holders) /\ Cardinality(holders) <= profile.concurrency

\* Nobody stands twice in the queue, and only who waits there.
Lined ==
  /\ \A i, j \in DOMAIN queue : queue[i] = queue[j] => i = j
  /\ \A i \in DOMAIN queue : pc[queue[i]] = "queued"

\* Who is inside holds a slot, and whoever holds one is inside or storing.
Held(c) ==
  /\ pc[c] \in Inside => c \in holders
  /\ c \in holders => pc[c] \in Inside \cup {"storing"}

\* A response is open while it is read, and there is no result before an end.
Clean(c) ==
  /\ pc[c] # "reading" => reply[c] = NoReply
  /\ pc[c] \in {"idle", "queued", "cancelled"} \cup Inside => result[c] = NoResult

\* How many requests a call has sent where it stands.
Tried(c) ==
  /\ pc[c] \in Waiting => posts[c] = 0
  /\ pc[c] \in {"posting", "backoff"} => posts[c] <= profile.retries
  /\ posts[c] <= profile.retries + 1
  /\ pc[c] = "failed" /\ result[c].error \in {"network", "transient"}
       => posts[c] = profile.retries + 1

CallInv(c) == Held(c) /\ Clean(c) /\ Tried(c)

\* The inductive invariant.
IInv ==
  /\ TypeOK /\ DOMAIN reply = Calls /\ DOMAIN result = Calls
  /\ Remembered /\ ReservationsWithinRpm
  /\ Counted /\ Lined
  /\ \A c \in Calls : CallInv(c)

\* A step of call c.
CallStep(c) ==
  Submit(c) \/ Limited(c) \/ Replied(c) \/ Streamed(c) \/ Stored(c) \/ Cancel(c)

-----------------------------------------------------------------------------
(* The queue *)

\* Removing an element that occurs once leaves the others, once each.
LEMMA RemoveFirstFacts ==
  ASSUME NEW S, NEW s \in Seq(S), NEW e, \A i, j \in DOMAIN s : s[i] = s[j] => i = j
  PROVE  LET t == RemoveFirst(s, e)
         IN  /\ t \in Seq(S)
             /\ \A i, j \in DOMAIN t : t[i] = t[j] => i = j
             /\ \A i \in DOMAIN t : t[i] # e /\ \E j \in DOMAIN s : t[i] = s[j]
<1>0. Len(s) \in Nat /\ DOMAIN s = 1..Len(s) /\ \A i \in 1..Len(s) : s[i] \in S
  OBVIOUS
<1>1. CASE \A i \in 1..Len(s) : s[i] # e
  <2>1. RemoveFirst(s, e) = s
    BY <1>1 DEF RemoveFirst
  <2> QED
    BY <1>0, <1>1, <2>1
<1>2. CASE \E i \in 1..Len(s) : s[i] = e
  <2>1. PICK k \in 1..Len(s) : s[k] = e
    BY <1>2
  <2> DEFINE before == SubSeq(s, 1, k - 1)
             after  == SubSeq(s, k + 1, Len(s))
             t      == before \o after
  <2>2. {i \in 1..Len(s) : s[i] = e} = {k}
    BY <1>0, <2>1
  <2>3. k \in {k} /\ Min({k}) = k
    BY <2>1 DEF Min
  <2>4. RemoveFirst(s, e) = t
    BY <1>2, <2>2, <2>3 DEF RemoveFirst, SelectInSeq, RemoveAt
  <2>5. /\ before \in Seq(S) /\ Len(before) = k - 1
        /\ \A i \in 1..(k - 1) : before[i] = s[i]
    <3>1. \A i \in 1..(k - 1) : s[i] \in S
      BY <1>0, <2>1
    <3>2. k - 1 \in Int /\ k \in Int /\ k >= 1
      BY <1>0, <2>1
    <3> QED
      BY <3>1, <3>2, SubSeqProperties, SMTT(30)
  <2>6. /\ after \in Seq(S) /\ Len(after) = Len(s) - k
        /\ \A i \in 1..(Len(s) - k) : after[i] = s[i + k]
    <3>1. \A i \in (k + 1)..Len(s) : s[i] \in S
      BY <1>0, <2>1
    <3>2. k + 1 \in Int /\ Len(s) \in Int /\ k <= Len(s) /\ k \in Int
      BY <1>0, <2>1
    <3> QED
      BY <3>1, <3>2, SubSeqProperties, SMTT(30)
  <2> HIDE DEF before, after
  <2>7. /\ t \in Seq(S) /\ Len(t) = Len(s) - 1
        /\ \A i \in 1..(Len(s) - 1) : t[i] = IF i < k THEN s[i] ELSE s[i + 1]
    <3>1. /\ t \in Seq(S) /\ Len(t) = Len(before) + Len(after)
          /\ \A i \in 1 .. Len(before) + Len(after) :
               t[i] = IF i <= Len(before) THEN before[i] ELSE after[i - Len(before)]
      BY <2>5, <2>6, ConcatProperties, ZenonT(40)
    <3> HIDE DEF t
    <3>2. k \in 1..Len(s) /\ Len(t) = Len(s) - 1
      BY <1>0, <2>1, <2>5, <2>6, <3>1
    <3>3. ASSUME NEW i \in 1..(Len(s) - 1)
          PROVE  t[i] = IF i < k THEN s[i] ELSE s[i + 1]
      <4>1. t[i] = IF i <= k - 1 THEN before[i] ELSE after[i - (k - 1)]
        BY <1>0, <2>5, <2>6, <3>1, <3>2
      <4>2. CASE i < k
        BY <1>0, <2>5, <3>2, <4>1, <4>2
      <4>3. CASE ~(i < k)
        <5>1. i - (k - 1) \in 1..(Len(s) - k) /\ (i - (k - 1)) + k = i + 1
          BY <1>0, <3>2, <4>3
        <5> QED
          BY <1>0, <2>6, <3>2, <4>1, <4>3, <5>1
      <4> QED
        BY <4>2, <4>3
    <3> QED
      BY <3>1, <3>2, <3>3
  <2> HIDE DEF t
  <2>8. \A i \in 1..(Len(s) - 1) : t[i] # e /\ \E j \in 1..Len(s) : t[i] = s[j]
    <3> SUFFICES ASSUME NEW i \in 1..(Len(s) - 1)
                 PROVE  t[i] # e /\ \E j \in 1..Len(s) : t[i] = s[j]
      OBVIOUS
    <3> DEFINE j == IF i < k THEN i ELSE i + 1
    <3>1. j \in 1..Len(s) /\ j # k
      BY <1>0, <2>1
    <3>2. t[i] = s[j]
      BY <2>7
    <3> HIDE DEF j
    <3> QED
      BY <1>0, <2>1, <3>1, <3>2
  <2>9. \A i, j \in 1..(Len(s) - 1) : t[i] = t[j] => i = j
    <3> SUFFICES ASSUME NEW i \in 1..(Len(s) - 1), NEW j \in 1..(Len(s) - 1), t[i] = t[j]
                 PROVE  i = j
      OBVIOUS
    <3> DEFINE from(n) == IF n < k THEN n ELSE n + 1
    <3>1. from(i) \in 1..Len(s) /\ from(j) \in 1..Len(s) /\ (from(i) = from(j) => i = j)
      BY <1>0, <2>1
    <3>2. s[from(i)] = s[from(j)]
      BY <2>7
    <3> HIDE DEF from
    <3> QED
      BY <1>0, <3>1, <3>2
  <2>10. DOMAIN t = 1..(Len(s) - 1)
    BY <2>7
  <2> QED
    BY <1>0, <2>4, <2>7, <2>8, <2>9, <2>10
<1> QED
  BY <1>1, <1>2

-----------------------------------------------------------------------------
(* What a step of one call leaves alone *)

\* A call whose own state did not change keeps its invariant.
LEMMA OthersKeep ==
  ASSUME NEW d \in Calls, CallInv(d), profile' = profile, pc'[d] = pc[d],
         posts'[d] = posts[d], reply'[d] = reply[d], result'[d] = result[d],
         d \in holders' <=> d \in holders
  PROVE  CallInv(d)'
BY DEF CallInv, Held, Clean, Tried

\* The window is as it was.
LEMMA WindowKept ==
  ASSUME IInv, UNCHANGED <<profile, ages, times>>
  PROVE  /\ Remembered' /\ ReservationsWithinRpm'
         /\ ages' \in Seq(0..Window) /\ times' \in SUBSET DOMAIN ages'
         /\ profile' \in Profiles
BY DEF IInv, TypeOK, Remembered, ReservationsWithinRpm

\* A step of a call that does not wait in the queue, and at most gives its slot
\* back: only the call's own invariant is left to show.
LEMMA LocalStep ==
  ASSUME IInv, NEW c \in Calls, NEW place \in Pcs,
         UNCHANGED <<profile, queue, ages, times>>,
         pc[c] # "queued", pc' = [pc EXCEPT ![c] = place],
         holders' = holders \/ holders' = holders \ {c},
         posts' \in [Calls -> Nat], left' \in [Calls -> Nat],
         DOMAIN reply' = Calls, DOMAIN result' = Calls,
         \A d \in Calls \ {c} : /\ posts'[d] = posts[d]
                                /\ reply'[d] = reply[d] /\ result'[d] = result[d],
         CallInv(c)'
  PROVE  IInv'
<1>1. TypeOK'
  BY DEF IInv, TypeOK
<1>2. Remembered' /\ ReservationsWithinRpm'
  BY WindowKept
<1>3. Counted'
  <2>1. /\ IsFiniteSet(holders \ {c})
        /\ Cardinality(holders \ {c}) =
             IF c \in holders THEN Cardinality(holders) - 1 ELSE Cardinality(holders)
    BY FS_RemoveElement DEF IInv, Counted
  <2>2. Cardinality(holders) \in Nat /\ profile.concurrency \in Nat
    BY FS_CardinalityType, GatewayAssumption DEF IInv, Counted, TypeOK, Profile
  <2> QED
    BY <2>1, <2>2, SMTT(30) DEF IInv, Counted
<1>4. Lined'
  BY DEF IInv, TypeOK, Lined
<1>5. ASSUME NEW d \in Calls, d # c
      PROVE  CallInv(d)'
  BY <1>5, OthersKeep DEF IInv, TypeOK
<1> QED
  BY <1>1, <1>2, <1>3, <1>4, <1>5 DEF IInv

-----------------------------------------------------------------------------
(* The limiter *)

LEMMA SubmitInv ==
  ASSUME IInv, NEW c \in Calls, Submit(c)
  PROVE  IInv'
<1>1. /\ pc[c] \in {"idle"} \cup Ended /\ posts' = [posts EXCEPT ![c] = 0]
      /\ UNCHANGED <<profile, holders, ages, times, left, reply>>
  BY DEF Submit, reading
<1>2. c \notin holders /\ reply[c] = NoReply /\ \A i \in DOMAIN queue : queue[i] # c
  BY <1>1 DEF IInv, CallInv, Held, Clean, Lined, Inside, Ended
<1>3. CASE profile.streaming /\ ~profile.key
  <2>1. /\ pc' = [pc EXCEPT ![c] = "failed"] /\ UNCHANGED queue
        /\ result' = [result EXCEPT ![c] = [NoResult EXCEPT !.error = "auth"]]
    BY <1>3 DEF Submit
  <2>2. CallInv(c)'
    BY <1>1, <1>2, <2>1, GatewayAssumption
       DEF IInv, TypeOK, CallInv, Held, Clean, Tried, Inside, Waiting, NoResult, Profile
  <2>3. pc[c] # "queued"
    BY <1>1 DEF Ended
  <2> QED
    BY <1>1, <2>1, <2>2, <2>3, LocalStep DEF IInv, TypeOK, Pcs, Ended
<1>4. CASE ~(profile.streaming /\ ~profile.key)
  <2>1. /\ pc' = [pc EXCEPT ![c] = "queued"] /\ queue' = Append(queue, c)
        /\ result' = [result EXCEPT ![c] = NoResult]
    BY <1>4 DEF Submit
  <2>2. /\ queue' \in Seq(Calls) /\ Len(queue') = Len(queue) + 1
        /\ \A i \in 1..Len(queue) : queue'[i] = queue[i]
        /\ queue'[Len(queue) + 1] = c
    BY <2>1, AppendProperties DEF IInv, TypeOK
  <2>3. TypeOK' /\ DOMAIN reply' = Calls /\ DOMAIN result' = Calls
    BY <1>1, <2>1, <2>2 DEF IInv, TypeOK, Pcs, Waiting
  <2>4. Remembered' /\ ReservationsWithinRpm' /\ Counted'
    BY <1>1, WindowKept DEF IInv, Counted
  <2>5. Lined'
    <3>1. DOMAIN queue = 1..Len(queue) /\ DOMAIN queue' = 1..(Len(queue) + 1)
          /\ Len(queue) \in Nat /\ \A i \in 1..Len(queue) : queue[i] \in Calls
      BY <2>2 DEF IInv, TypeOK
    <3>2. \A i, j \in DOMAIN queue' : queue'[i] = queue'[j] => i = j
      BY <1>2, <2>2, <3>1 DEF IInv, Lined
    <3>3. \A i \in DOMAIN queue' : pc'[queue'[i]] = "queued"
      BY <2>1, <2>2, <3>1 DEF IInv, TypeOK, Lined
    <3> QED
      BY <3>2, <3>3 DEF Lined
  <2>6. CallInv(c)'
    BY <1>1, <1>2, <2>1, GatewayAssumption
       DEF IInv, TypeOK, CallInv, Held, Clean, Tried, Inside, Waiting, Profile
  <2>7. ASSUME NEW d \in Calls, d # c
        PROVE  CallInv(d)'
    BY <1>1, <2>1, <2>7, OthersKeep DEF IInv, TypeOK
  <2> QED
    BY <2>3, <2>4, <2>5, <2>6, <2>7 DEF IInv
<1> QED
  BY <1>3, <1>4

LEMMA EnterInv ==
  ASSUME IInv, NEW c \in Calls, Enter(c)
  PROVE  IInv'
<1>1. /\ pc[c] = "queued" /\ queue # <<>> /\ Head(queue) = c
      /\ Cardinality(holders) < profile.concurrency
      /\ queue' = Tail(queue) /\ holders' = holders \cup {c}
      /\ pc' = [pc EXCEPT ![c] = "reserving"]
      /\ UNCHANGED <<profile, ages, times, left, made, posts, reply, result>>
  BY DEF Enter, CanEnter, reading
<1>2. /\ queue' \in Seq(Calls) /\ Len(queue') = Len(queue) - 1
      /\ \A i \in 1..Len(queue') : queue'[i] = queue[i + 1]
  BY <1>1, HeadTailProperties DEF IInv, TypeOK
<1>3. TypeOK' /\ DOMAIN reply' = Calls /\ DOMAIN result' = Calls
  BY <1>1, <1>2 DEF IInv, TypeOK, Pcs, Waiting
<1>4. Counted'
  <2>1. Cardinality(holders) \in Nat /\ profile.concurrency \in Nat
    BY FS_CardinalityType, GatewayAssumption DEF IInv, Counted, TypeOK, Profile
  <2>2. /\ IsFiniteSet(holders \cup {c})
        /\ Cardinality(holders \cup {c}) =
             IF c \in holders THEN Cardinality(holders) ELSE Cardinality(holders) + 1
    BY FS_AddElement DEF IInv, Counted
  <2> QED
    BY <1>1, <2>1, <2>2 DEF Counted
<1>5. Lined'
  <2>1. /\ DOMAIN queue = 1..Len(queue) /\ Len(queue) \in Nat /\ Len(queue) # 0
        /\ queue[1] = c /\ \A i \in 1..Len(queue) : queue[i] \in Calls
    BY <1>1 DEF IInv, TypeOK
  <2>2. DOMAIN queue' = 1..(Len(queue) - 1)
    BY <1>2
  <2>3. ASSUME NEW i \in DOMAIN queue', NEW j \in DOMAIN queue', queue'[i] = queue'[j]
        PROVE  i = j
    <3>1. /\ i + 1 \in DOMAIN queue /\ j + 1 \in DOMAIN queue
          /\ (i + 1 = j + 1 => i = j)
      BY <2>1, <2>2
    <3>2. queue[i + 1] = queue[j + 1]
      BY <1>2, <2>1, <2>2, <2>3
    <3> QED
      BY <3>1, <3>2 DEF IInv, Lined
  <2>4. ASSUME NEW i \in DOMAIN queue'
        PROVE  pc'[queue'[i]] = "queued"
    <3>1. i + 1 \in DOMAIN queue /\ i + 1 # 1 /\ 1 \in DOMAIN queue
      BY <2>1, <2>2
    <3>2. queue[i + 1] # c /\ queue'[i] = queue[i + 1] /\ queue[i + 1] \in Calls
      BY <1>2, <2>1, <2>2, <3>1 DEF IInv, Lined
    <3> QED
      BY <1>1, <3>1, <3>2 DEF IInv, TypeOK, Lined
  <2> QED
    BY <2>3, <2>4 DEF Lined
<1>6. CallInv(c)'
  BY <1>1 DEF IInv, TypeOK, CallInv, Held, Clean, Tried, Inside, Waiting
<1>7. ASSUME NEW d \in Calls, d # c
      PROVE  CallInv(d)'
  BY <1>1, <1>7, OthersKeep DEF IInv, TypeOK
<1>8. Remembered' /\ ReservationsWithinRpm'
  BY <1>1, WindowKept
<1> QED
  BY <1>3, <1>4, <1>5, <1>6, <1>7, <1>8 DEF IInv

\* The reservations that count are those the pruned list holds.
LEMMA CountedByTimes ==
  ASSUME IInv
  PROVE  /\ {n \in DOMAIN ages : ages[n] < Window} = Recent(times)
         /\ IsFiniteSet(Recent(times)) /\ Cardinality(Recent(times)) \in Nat
         /\ DOMAIN ages = 1..Len(ages) /\ Len(ages) \in Nat
<1>1. DOMAIN ages = 1..Len(ages) /\ Len(ages) \in Nat
  BY DEF IInv, TypeOK
<1>2. {n \in DOMAIN ages : ages[n] < Window} = Recent(times)
  BY DEF IInv, TypeOK, Remembered, Recent
<1>3. IsFiniteSet(Recent(times))
  <2>1. IsFiniteSet(1..Len(ages))
    BY <1>1, FS_Interval
  <2>2. Recent(times) \in SUBSET (1..Len(ages))
    BY <1>1, <1>2
  <2> QED
    BY <2>1, <2>2, FS_Subset
<1> QED
  BY <1>1, <1>2, <1>3, FS_CardinalityType

LEMMA ReserveInv ==
  ASSUME IInv, NEW c \in Calls, Reserve(c)
  PROVE  IInv'
<1>1. /\ pc[c] = "reserving"
      /\ UNCHANGED <<profile, queue, holders, made, posts, reply, result>>
  BY DEF Reserve, reading
<1>2. CASE Cardinality(Recent(times)) < profile.rpm
  <2>1. /\ ages' = Append(ages, 0) /\ times' = Recent(times) \cup {Len(ages) + 1}
        /\ pc' = [pc EXCEPT ![c] = "posting"] /\ UNCHANGED left
    BY <1>2 DEF Reserve
  <2>2. Window \in Nat /\ 0 \in 0..Window /\ Window # 0
    BY GatewayAssumption
  <2>3. /\ ages' \in Seq(0..Window) /\ Len(ages') = Len(ages) + 1
        /\ \A n \in 1..Len(ages) : ages'[n] = ages[n]
        /\ ages'[Len(ages) + 1] = 0
    BY <2>1, <2>2, AppendProperties DEF IInv, TypeOK
  <2>4. DOMAIN ages' = 1..(Len(ages) + 1)
    BY <2>3
  <2>5. Recent(times) \subseteq DOMAIN ages /\ times \subseteq DOMAIN ages
    BY DEF Recent, IInv, TypeOK
  <2>6. TypeOK' /\ DOMAIN reply' = Calls /\ DOMAIN result' = Calls
    <3>1. times' \in SUBSET DOMAIN ages'
      BY <2>1, <2>4, <2>5, CountedByTimes
    <3> QED
      BY <1>1, <2>1, <2>3, <3>1 DEF IInv, TypeOK, Pcs
  <2>7. {n \in DOMAIN ages' : ages'[n] < Window} = Recent(times) \cup {Len(ages) + 1}
    BY <2>2, <2>3, <2>4, CountedByTimes
  <2>8. Remembered'
    BY <2>1, <2>7 DEF Remembered
  <2>9. ReservationsWithinRpm'
    <3>1. Len(ages) + 1 \notin Recent(times)
      BY <2>5, CountedByTimes
    <3>2. Cardinality(Recent(times) \cup {Len(ages) + 1}) = Cardinality(Recent(times)) + 1
      BY <3>1, CountedByTimes, FS_AddElement, Zenon
    <3>3. profile.rpm \in Nat
      BY GatewayAssumption DEF IInv, TypeOK, Profile
    <3>4. Cardinality(Recent(times) \cup {Len(ages) + 1}) <= profile.rpm
      BY <1>2, <3>2, <3>3, CountedByTimes
    <3> QED
      BY <1>1, <2>7, <3>4 DEF ReservationsWithinRpm
  <2>10. Counted' /\ Lined'
    BY <1>1, <2>1 DEF IInv, TypeOK, Counted, Lined
  <2>11. CallInv(c)'
    BY <1>1, <2>1, GatewayAssumption
       DEF IInv, TypeOK, Profile, CallInv, Held, Clean, Tried, Inside, Waiting
  <2>12. ASSUME NEW d \in Calls, d # c
         PROVE  CallInv(d)'
    BY <1>1, <2>1, <2>12, OthersKeep DEF IInv, TypeOK
  <2> QED
    BY <2>6, <2>8, <2>9, <2>10, <2>11, <2>12 DEF IInv
<1>3. CASE ~(Cardinality(Recent(times)) < profile.rpm)
  <2>1. PICK oldest \in Recent(times) :
          left' = [left EXCEPT ![c] = Window - ages[oldest]]
    BY <1>3 DEF Reserve
  <2>2. /\ times' = Recent(times) /\ pc' = [pc EXCEPT ![c] = "asleep"] /\ UNCHANGED ages
    BY <1>3 DEF Reserve
  <2>3. Window - ages[oldest] \in Nat
    BY GatewayAssumption DEF Recent, IInv, TypeOK
  <2>4. TypeOK' /\ DOMAIN reply' = Calls /\ DOMAIN result' = Calls
    <3>1. times' \in SUBSET DOMAIN ages'
      BY <2>2 DEF Recent, IInv, TypeOK
    <3> QED
      BY <1>1, <2>1, <2>2, <2>3, <3>1 DEF IInv, TypeOK, Pcs, Waiting
  <2>5. Remembered' /\ ReservationsWithinRpm'
    BY <1>1, <2>2 DEF IInv, Remembered, ReservationsWithinRpm, Recent
  <2>6. Counted' /\ Lined'
    BY <1>1, <2>2 DEF IInv, TypeOK, Counted, Lined
  <2>7. CallInv(c)'
    BY <1>1, <2>2 DEF IInv, TypeOK, CallInv, Held, Clean, Tried, Inside, Waiting
  <2>8. ASSUME NEW d \in Calls, d # c
        PROVE  CallInv(d)'
    BY <1>1, <2>2, <2>8, OthersKeep DEF IInv, TypeOK
  <2> QED
    BY <2>4, <2>5, <2>6, <2>7, <2>8 DEF IInv
<1> QED
  BY <1>2, <1>3

LEMMA TickInv ==
  ASSUME IInv, Tick
  PROVE  IInv'
<1>1. /\ ages' = [n \in DOMAIN ages |-> IF ages[n] < Window THEN ages[n] + 1 ELSE Window]
      /\ left' = [c \in Calls |-> IF left[c] > 0 THEN left[c] - 1 ELSE 0]
      /\ UNCHANGED <<profile, pc, queue, holders, times, made, posts, reply, result>>
  BY DEF Tick, reading
<1>2. DOMAIN ages' = DOMAIN ages /\ \A n \in DOMAIN ages : ages[n] \in 0..Window
  <2>1. DOMAIN ages' = DOMAIN ages
    BY <1>1, Zenon
  <2>2. ages \in Seq(0..Window)
    BY DEF IInv, TypeOK
  <2>3. \A n \in 1..Len(ages) : ages[n] \in 0..Window
    BY <2>2, ElementOfSeq, Zenon
  <2> QED
    BY <2>1, <2>3, CountedByTimes
<1>3. ages' \in Seq(0..Window)
  <2>1. ages' \in [1..Len(ages) -> 0..Window] /\ Len(ages) \in Nat
    BY <1>1, <1>2, CountedByTimes, GatewayAssumption
  <2> QED
    BY <2>1, SeqDef
<1>4. TypeOK' /\ DOMAIN reply' = Calls /\ DOMAIN result' = Calls
  BY <1>1, <1>2, <1>3 DEF IInv, TypeOK
<1>5. \A n \in DOMAIN ages' : ages'[n] < Window => ages[n] < Window
  BY <1>1, <1>2, GatewayAssumption
<1>6. Remembered'
  BY <1>1, <1>2, <1>5 DEF IInv, Remembered
<1>7. ReservationsWithinRpm'
  <2> DEFINE later == {n \in DOMAIN ages' : ages'[n] < Window}
  <2>1. later \in SUBSET Recent(times)
    BY <1>2, <1>5, CountedByTimes
  <2>2. IsFiniteSet(later) /\ Cardinality(later) <= Cardinality(Recent(times))
    BY <2>1, CountedByTimes, FS_Subset
  <2>3. Cardinality(Recent(times)) <= profile.rpm
    BY CountedByTimes DEF IInv, ReservationsWithinRpm
  <2>4. Cardinality(later) \in Nat /\ profile.rpm \in Nat
    BY <2>2, FS_CardinalityType, GatewayAssumption DEF IInv, TypeOK, Profile
  <2> HIDE DEF later
  <2>5. Cardinality(later) <= profile.rpm
    BY <2>2, <2>3, <2>4, CountedByTimes
  <2> QED
    BY <1>1, <2>5 DEF ReservationsWithinRpm, later
<1>8. Counted' /\ Lined'
  BY <1>1 DEF IInv, Counted, Lined
<1>9. \A d \in Calls : CallInv(d)'
  BY <1>1, OthersKeep DEF IInv
<1> QED
  BY <1>4, <1>6, <1>7, <1>8, <1>9 DEF IInv

\* The wake-up from a sleep of the limiter.
LEMMA WakeInv ==
  ASSUME IInv, NEW c \in Calls, Wake(c)
  PROVE  IInv'
<1>1. /\ pc[c] = "asleep" /\ pc' = [pc EXCEPT ![c] = "reserving"]
      /\ UNCHANGED <<profile, queue, holders, ages, times, left, posts, reply, result>>
  BY DEF Wake, limiter, reading
<1>2. CallInv(c)'
  BY <1>1 DEF IInv, TypeOK, CallInv, Held, Clean, Tried, Inside, Waiting
<1> QED
  BY <1>1, <1>2, LocalStep DEF IInv, TypeOK, Pcs, Waiting

-----------------------------------------------------------------------------
(* The request and the stream *)

\* A call that fails inside its slot leaves it with nothing open.
LEMMA FailInv ==
  ASSUME IInv, NEW c \in Calls, NEW error, Fail(c, error),
         UNCHANGED <<profile, queue, ages, times>>,
         pc[c] \in Inside, left' = left,
         posts' = posts \/ posts' = [posts EXCEPT ![c] = @ + 1],
         posts'[c] <= profile.retries + 1,
         error \in {"network", "transient"} => posts'[c] = profile.retries + 1
  PROVE  IInv'
<1>1. /\ pc' = [pc EXCEPT ![c] = "failed"]
      /\ result' = [result EXCEPT ![c].error = error]
      /\ holders' = holders \ {c}
      /\ reply' = [reply EXCEPT ![c] = NoReply]
  BY DEF Fail, Leave, Drop
<1>2. pc[c] # "queued"
  BY DEF Inside
<1>3. result'[c].error = error
  <2>1. result[c] = NoResult
    BY DEF IInv, CallInv, Clean
  <2> QED
    BY <1>1, <2>1 DEF IInv, NoResult
<1>4. CallInv(c)'
  BY <1>1, <1>3 DEF IInv, TypeOK, CallInv, Held, Clean, Tried, Inside, Waiting
<1>5. posts' \in [Calls -> Nat]
  <2>1. posts \in [Calls -> Nat]
    BY DEF IInv, TypeOK
  <2>2. CASE posts' = posts
    BY <2>1, <2>2
  <2>3. CASE posts' = [posts EXCEPT ![c] = @ + 1]
    BY <2>1, <2>3
  <2> QED
    BY <2>2, <2>3
<1>6. /\ left' \in [Calls -> Nat] /\ DOMAIN reply' = Calls /\ DOMAIN result' = Calls
  BY <1>1 DEF IInv, TypeOK
<1>7. \A d \in Calls \ {c} : /\ posts'[d] = posts[d]
                             /\ reply'[d] = reply[d] /\ result'[d] = result[d]
  BY <1>1 DEF IInv, TypeOK
<1>8. "failed" \in Pcs
  BY DEF Pcs, Ended
<1> QED
  BY <1>1, <1>2, <1>4, <1>5, <1>6, <1>7, <1>8, LocalStep

\* A request that is sent is one of those its call may make.
LEMMA SendFacts ==
  ASSUME IInv, NEW c \in Calls, pc[c] = "posting", Send(c)
  PROVE  /\ posts' = [posts EXCEPT ![c] = @ + 1] /\ posts' \in [Calls -> Nat]
         /\ posts'[c] <= profile.retries + 1
         /\ (~MayRetry(c) => posts'[c] = profile.retries + 1)
         /\ (MayRetry(c) => posts'[c] <= profile.retries)
         /\ pc[c] \in Inside
<1>1. profile.retries \in Nat
  BY GatewayAssumption DEF IInv, TypeOK, Profile
<1>2. posts[c] \in Nat /\ posts[c] <= profile.retries
  BY DEF IInv, TypeOK, CallInv, Tried
<1>3. posts' = [posts EXCEPT ![c] = @ + 1] /\ posts' \in [Calls -> Nat]
  BY DEF Send, IInv, TypeOK
<1>4. posts'[c] = posts[c] + 1
  BY <1>3 DEF IInv, TypeOK
<1> QED
  BY <1>1, <1>2, <1>3, <1>4 DEF MayRetry, Inside

LEMMA KeyMissingInv ==
  ASSUME IInv, NEW c \in Calls, KeyMissing(c)
  PROVE  IInv'
<1>1. /\ pc[c] = "posting" /\ Fail(c, "auth")
      /\ UNCHANGED <<profile, queue, ages, times, left, made, posts>>
  BY DEF KeyMissing
<1>2. posts'[c] <= profile.retries + 1 /\ pc[c] \in Inside
  BY <1>1 DEF IInv, CallInv, Tried, Inside
<1> QED
  BY <1>1, <1>2, FailInv

LEMMA TransientReplyInv ==
  ASSUME IInv, NEW c \in Calls, NEW error, TransientReply(c, error)
  PROVE  IInv'
<1>1. /\ pc[c] = "posting" /\ Send(c)
      /\ UNCHANGED <<profile, queue, ages, times, made>>
  BY DEF TransientReply
<1>2. CASE MayRetry(c)
  <2>1. /\ pc' = [pc EXCEPT ![c] = "backoff"] /\ left' = [left EXCEPT ![c] = Backoff]
        /\ UNCHANGED <<holders, reply, result>>
    BY <1>2 DEF TransientReply, reading
  <2>2. left' \in [Calls -> Nat]
    BY <2>1, GatewayAssumption DEF IInv, TypeOK
  <2>3. CallInv(c)'
    BY <1>1, <1>2, <2>1, SendFacts
       DEF IInv, TypeOK, CallInv, Held, Clean, Tried, Inside, Waiting
  <2> QED
    BY <1>1, <2>1, <2>2, <2>3, SendFacts, LocalStep DEF IInv, TypeOK, Pcs
<1>3. CASE ~MayRetry(c)
  <2>1. Fail(c, error) /\ UNCHANGED left
    BY <1>3 DEF TransientReply
  <2> QED
    BY <1>1, <1>3, <2>1, SendFacts, FailInv
<1> QED
  BY <1>2, <1>3

LEMMA RetryInv ==
  ASSUME IInv, NEW c \in Calls, Retry(c)
  PROVE  IInv'
<1>1. /\ pc[c] = "backoff" /\ pc' = [pc EXCEPT ![c] = "posting"]
      /\ UNCHANGED <<profile, queue, holders, ages, times, left, posts, reply, result>>
  BY DEF Retry, limiter, reading
<1>2. CallInv(c)'
  BY <1>1 DEF IInv, TypeOK, CallInv, Held, Clean, Tried, Inside, Waiting
<1> QED
  BY <1>1, <1>2, LocalStep DEF IInv, TypeOK, Pcs

LEMMA RefusedReplyInv ==
  ASSUME IInv, NEW c \in Calls, NEW error, RefusedReply(c, error)
  PROVE  IInv'
<1>1. /\ pc[c] = "posting" /\ Send(c) /\ Fail(c, error)
      /\ error \in {"auth", "http", "json", "protocol"}
      /\ UNCHANGED <<profile, queue, ages, times, left, made>>
  BY DEF RefusedReply
<1> QED
  BY <1>1, SendFacts, FailInv

LEMMA WholeReplyInv ==
  ASSUME IInv, NEW c \in Calls, NEW answer, WholeReply(c, answer)
  PROVE  IInv'
<1>1. /\ pc[c] = "posting" /\ Send(c)
      /\ UNCHANGED <<profile, queue, ages, times, left, made>>
  BY DEF WholeReply
<1>2. CASE Parsed[profile][answer] = Refused
  <2>1. Fail(c, "protocol")
    BY <1>2 DEF WholeReply
  <2> QED
    BY <1>1, <2>1, SendFacts, FailInv
<1>3. CASE Parsed[profile][answer] # Refused
  <2>1. PICK got : result' = [result EXCEPT ![c] = got]
    BY <1>3 DEF WholeReply
  <2>2. pc' = [pc EXCEPT ![c] = "storing"] /\ UNCHANGED <<holders, reply>>
    BY <1>3 DEF WholeReply, reading
  <2>3. CallInv(c)'
    BY <1>1, <2>2, SendFacts
       DEF IInv, TypeOK, CallInv, Held, Clean, Tried, Inside, Waiting
  <2> QED
    BY <1>1, <2>1, <2>2, <2>3, SendFacts, LocalStep DEF IInv, TypeOK, Pcs
<1> QED
  BY <1>2, <1>3

LEMMA OpenStreamInv ==
  ASSUME IInv, NEW c \in Calls, NEW answer, OpenStream(c, answer)
  PROVE  IInv'
<1>1. /\ pc[c] = "posting" /\ Send(c) /\ pc' = [pc EXCEPT ![c] = "reading"]
      /\ UNCHANGED <<profile, queue, holders, ages, times, left, result>>
  BY DEF OpenStream, limiter
<1>2. PICK opened : reply' = [reply EXCEPT ![c] = opened]
  BY DEF OpenStream
<1>3. CallInv(c)'
  BY <1>1, SendFacts DEF IInv, TypeOK, CallInv, Held, Clean, Tried, Inside, Waiting
<1> QED
  BY <1>1, <1>2, <1>3, SendFacts, LocalStep DEF IInv, TypeOK, Pcs

\* A frame that is read, or that will not come, changes what is open only.
LEMMA ReadFrameInv ==
  ASSUME IInv, NEW c \in Calls, ReadFrame(c) \/ CutStream(c)
  PROVE  IInv'
<1>1. /\ pc[c] = "reading" /\ pc' = [pc EXCEPT ![c] = "reading"]
      /\ UNCHANGED <<profile, queue, holders, ages, times, left, posts, result>>
  BY DEF ReadFrame, CutStream, limiter, IInv, TypeOK
<1>2. PICK at : reply' = [reply EXCEPT ![c].at = at]
  BY DEF ReadFrame, CutStream
<1>3. CallInv(c)'
  BY <1>1 DEF IInv, TypeOK, CallInv, Held, Clean, Tried, Inside, Waiting
<1> QED
  BY <1>1, <1>2, <1>3, LocalStep DEF IInv, TypeOK, Pcs

LEMMA BreakStreamInv ==
  ASSUME IInv, NEW c \in Calls, NEW error, BreakStream(c, error)
  PROVE  IInv'
<1>1. /\ pc[c] = "reading" /\ Fail(c, error) /\ error \notin {"network", "transient"}
      /\ UNCHANGED <<profile, queue, ages, times, left, made, posts>>
  BY DEF BreakStream
<1>2. posts'[c] <= profile.retries + 1 /\ pc[c] \in Inside
  BY <1>1 DEF IInv, CallInv, Tried, Inside
<1> QED
  BY <1>1, <1>2, FailInv

LEMMA EndStreamInv ==
  ASSUME IInv, NEW c \in Calls, EndStream(c)
  PROVE  IInv'
<1>1. /\ pc[c] = "reading" /\ UNCHANGED <<profile, queue, ages, times, left, made, posts>>
  BY DEF EndStream
<1>2. posts'[c] <= profile.retries + 1 /\ pc[c] \in Inside
  BY <1>1 DEF IInv, CallInv, Tried, Inside
<1>3. CASE Complete(c)
  <2>1. PICK got : result' = [result EXCEPT ![c] = got]
    BY <1>3 DEF EndStream
  <2>2. /\ pc' = [pc EXCEPT ![c] = "storing"] /\ holders' = holders \ {c}
        /\ reply' = [reply EXCEPT ![c] = NoReply]
    BY <1>3 DEF EndStream, Leave, Drop
  <2>3. CallInv(c)'
    BY <1>1, <1>2, <2>2
       DEF IInv, TypeOK, CallInv, Held, Clean, Tried, Inside, Waiting
  <2> QED
    BY <1>1, <2>1, <2>2, <2>3, LocalStep DEF IInv, TypeOK, Pcs
<1>4. CASE ~Complete(c)
  <2>1. Fail(c, "protocol")
    BY <1>4 DEF EndStream
  <2> QED
    BY <1>1, <1>2, <2>1, FailInv
<1> QED
  BY <1>3, <1>4

LEMMA StoreAnswerInv ==
  ASSUME IInv, NEW c \in Calls, NEW stored, StoreAnswer(c, stored)
  PROVE  IInv'
<1>1. /\ pc[c] = "storing" /\ pc' = [pc EXCEPT ![c] = "returned"]
      /\ result' = [result EXCEPT ![c].stored = stored] /\ holders' = holders \ {c}
      /\ UNCHANGED <<profile, queue, ages, times, left, posts, reply>>
  BY DEF StoreAnswer, reading
<1>2. CallInv(c)'
  BY <1>1 DEF IInv, TypeOK, CallInv, Held, Clean, Tried, Inside, Waiting
<1> QED
  BY <1>1, <1>2, LocalStep DEF IInv, TypeOK, Pcs, Ended

LEMMA CancelInv ==
  ASSUME IInv, NEW c \in Calls, Cancel(c)
  PROVE  IInv'
<1>1. /\ pc' = [pc EXCEPT ![c] = "cancelled"]
      /\ queue' = RemoveFirst(queue, c) /\ holders' = holders \ {c}
      /\ reply' = [reply EXCEPT ![c] = NoReply]
      /\ result' = [result EXCEPT ![c] = NoResult] /\ left' = [left EXCEPT ![c] = 0]
      /\ UNCHANGED <<profile, ages, times, made, posts>>
  BY DEF Cancel, GiveBack, Drop
<1>2. /\ queue' \in Seq(Calls)
      /\ \A i, j \in DOMAIN queue' : queue'[i] = queue'[j] => i = j
      /\ \A i \in DOMAIN queue' :
           queue'[i] # c /\ \E j \in DOMAIN queue : queue'[i] = queue[j]
  <2>1. queue \in Seq(Calls) /\ \A i, j \in DOMAIN queue : queue[i] = queue[j] => i = j
    BY DEF IInv, TypeOK, Lined
  <2> QED
    BY <1>1, <2>1, RemoveFirstFacts
<1>3. TypeOK' /\ DOMAIN reply' = Calls /\ DOMAIN result' = Calls
  BY <1>1, <1>2 DEF IInv, TypeOK, Pcs, Ended
<1>4. Remembered' /\ ReservationsWithinRpm'
  BY <1>1, WindowKept
<1>5. Counted'
  <2>1. /\ IsFiniteSet(holders \ {c})
        /\ Cardinality(holders \ {c}) =
             IF c \in holders THEN Cardinality(holders) - 1 ELSE Cardinality(holders)
    BY FS_RemoveElement DEF IInv, Counted
  <2>2. Cardinality(holders) \in Nat /\ profile.concurrency \in Nat
    BY FS_CardinalityType, GatewayAssumption DEF IInv, Counted, TypeOK, Profile
  <2> QED
    BY <1>1, <2>1, <2>2 DEF IInv, Counted
<1>6. Lined'
  <2>1. ASSUME NEW i \in DOMAIN queue'
        PROVE  pc'[queue'[i]] = "queued"
    <3>1. PICK j \in DOMAIN queue : queue'[i] = queue[j]
      BY <1>2
    <3>2. queue[j] \in Calls /\ queue[j] # c /\ pc[queue[j]] = "queued"
      BY <1>2, <3>1 DEF IInv, TypeOK, Lined
    <3> QED
      BY <1>1, <3>1, <3>2 DEF IInv, TypeOK
  <2> QED
    BY <1>2, <2>1 DEF Lined
<1>7. CallInv(c)'
  BY <1>1 DEF IInv, TypeOK, CallInv, Held, Clean, Tried, Inside, Waiting
<1>8. ASSUME NEW d \in Calls, d # c
      PROVE  CallInv(d)'
  BY <1>1, <1>8, OthersKeep DEF IInv, TypeOK
<1> QED
  BY <1>3, <1>4, <1>5, <1>6, <1>7, <1>8 DEF IInv

-----------------------------------------------------------------------------
(* The inductive invariant, and what follows from it *)

LEMMA InitInv == Init => IInv
<1> SUFFICES ASSUME Init
             PROVE  IInv
  OBVIOUS
<1>1. TypeOK /\ DOMAIN reply = Calls /\ DOMAIN result = Calls
  BY DEF Init, TypeOK, Pcs
<1>2. profile.rpm \in Nat /\ profile.concurrency \in Nat /\ profile.retries \in Nat
  BY GatewayAssumption DEF Init, Profile
<1>3. Remembered /\ ReservationsWithinRpm
  <2>1. {n \in DOMAIN ages : ages[n] < Window} = {}
    BY DEF Init
  <2> QED
    BY <1>2, <2>1, FS_EmptySet DEF Remembered, ReservationsWithinRpm
<1>4. Counted /\ Lined
  BY <1>2, FS_EmptySet DEF Init, Counted, Lined
<1>5. \A c \in Calls : CallInv(c)
  BY <1>2 DEF Init, CallInv, Held, Clean, Tried, Inside, Waiting
<1> QED
  BY <1>1, <1>3, <1>4, <1>5 DEF IInv

LEMMA CallStepInv ==
  ASSUME IInv, NEW c \in Calls, CallStep(c)
  PROVE  IInv'
<1>1. CASE Submit(c)
  BY <1>1, SubmitInv
<1>2. CASE Limited(c)
  BY <1>2, EnterInv, ReserveInv, WakeInv, RetryInv DEF Limited
<1>3. CASE Replied(c)
  BY <1>3, KeyMissingInv, TransientReplyInv, RefusedReplyInv, WholeReplyInv,
     OpenStreamInv DEF Replied
<1>4. CASE Streamed(c)
  BY <1>4, ReadFrameInv, BreakStreamInv, EndStreamInv DEF Streamed
<1>5. CASE Stored(c)
  BY <1>5, StoreAnswerInv DEF Stored
<1>6. CASE Cancel(c)
  BY <1>6, CancelInv
<1> QED
  BY <1>1, <1>2, <1>3, <1>4, <1>5, <1>6 DEF CallStep

LEMMA NextInv == IInv /\ [Next]_vars => IInv'
<1> SUFFICES ASSUME IInv, [Next]_vars
             PROVE  IInv'
  OBVIOUS
<1>1. CASE Tick
  BY <1>1, TickInv
<1>2. CASE \E c \in Calls : CallStep(c)
  BY <1>2, CallStepInv
<1>3. CASE UNCHANGED vars
  <2>1. UNCHANGED <<profile, pc, queue, holders, ages, times, left, posts, reply, result>>
    BY <1>3 DEF vars
  <2>2. TypeOK' /\ Remembered' /\ ReservationsWithinRpm' /\ Counted' /\ Lined'
    BY <2>1 DEF IInv, TypeOK, Remembered, ReservationsWithinRpm, Counted, Lined
  <2>3. \A c \in Calls : CallInv(c)'
    BY <2>1, OthersKeep DEF IInv
  <2> QED
    BY <2>1, <2>2, <2>3 DEF IInv
<1> QED
  BY <1>1, <1>2, <1>3 DEF Next, CallStep

LEMMA Invariance == Spec => []IInv
<1> QED
  BY InitInv, NextInv, PTL DEF Spec

\* Every variable of the limiter and of its calls keeps its type: the ages of
\* the reservations stay within the window and the pruned list (_request_times)
\* names reservations that were made.
THEOREM TypeCorrect == Spec => []TypeOK
<1>1. IInv => TypeOK
  BY DEF IInv
<1> QED
  BY <1>1, Invariance, PTL

\* However many callers there are, and however they come, sleep, fail and are
\* cancelled, no rolling window has more reservations than the profile's
\* requests per minute (ModelLimiter._enforce_rpm).
THEOREM WindowHolds == Spec => []ReservationsWithinRpm
<1>1. IInv => ReservationsWithinRpm
  BY DEF IInv
<1> QED
  BY <1>1, Invariance, PTL

\* The semaphore is never over-subscribed, what is in flight holds one of its
\* slots, and a call that ended, in any way, keeps no slot, no place in the
\* queue and no open response (ModelLimiter.run, session,
\* _yield_stream_response).
THEOREM SlotsHold == Spec => []SlotsAreExact
<1>1. ASSUME IInv
      PROVE  SlotsAreExact
  <2>1. ASSUME NEW c \in Calls
        PROVE  /\ pc[c] \in Inside => c \in holders
               /\ reply[c].open => c \in holders /\ pc[c] = "reading"
               /\ pc[c] \in Ended => c \notin holders /\ c \notin Range(queue)
    <3>1. CallInv(c)
      BY <1>1 DEF IInv
    <3>2. reply[c].open => pc[c] = "reading"
      BY <3>1 DEF CallInv, Clean, NoReply
    <3>3. pc[c] \in Ended => c \notin Range(queue)
      BY <1>1 DEF IInv, Lined, Range, Ended
    <3> QED
      BY <3>1, <3>2, <3>3 DEF CallInv, Held, Inside, Ended
  <2> QED
    BY <1>1, <2>1 DEF IInv, Counted, SlotsAreExact, Inside
<1> QED
  BY <1>1, Invariance, PTL

\* A call sends at most one request more than transport_retries, and it fails
\* with a transient error only when it has sent that many (_execute_request,
\* _open_stream_with_retry).
THEOREM RetriesHold == Spec => []RetriesAreExact
<1>1. IInv => RetriesAreExact
  BY DEF IInv, CallInv, Tried, RetriesAreExact
<1> QED
  BY <1>1, Invariance, PTL

-----------------------------------------------------------------------------
(* Recursion along a sequence *)

\* Induction up to n, as a set that holds 0 and with each number the next.
LEMMA Climb ==
  ASSUME NEW n \in Nat, NEW P \in SUBSET (0..n), 0 \in P,
         \A k \in 1..n : k - 1 \in P => k \in P
  PROVE  P = 0..n
<1> DEFINE Bad == (0..n) \ P
           R == StrictSubsetOrdering(0..n)
           T == {0..x : x \in Bad}
<1> SUFFICES ASSUME Bad # {} PROVE FALSE
  OBVIOUS
<1>1. IsWellFoundedOn(R, SUBSET (0..n))
  <2>1. IsFiniteSet(0..n)
    BY FS_Interval
  <2>2. FiniteSubsetsOf(0..n) = SUBSET (0..n)
    BY <2>1, FS_FiniteSubsetsOfFinite
  <2> QED
    BY <2>1, <2>2, FS_StrictSubsetOrderingWellFounded
<1>2. T \subseteq SUBSET (0..n) /\ T # {}
  OBVIOUS
<1>3. PICK X \in T : \A Y \in T : <<Y, X>> \notin R
  <2> HIDE DEF R, T
  <2> QED
    BY <1>1, <1>2, WFMin
<1>4. PICK m \in Bad : X = 0..m
  BY <1>3
<1>5. m \in 1..n /\ m - 1 \in 0..n /\ m - 1 \in Bad
  BY <1>4
<1>6. 0..(m - 1) \in T
  BY <1>5
<1>7. 0..(m - 1) \subseteq X /\ m \in X /\ m \notin 0..(m - 1)
  BY <1>4, <1>5
<1>8. <<0..(m - 1), X>> \in R
  BY <1>2, <1>3, <1>6, <1>7 DEF StrictSubsetOrdering
<1> QED
  BY <1>3, <1>6, <1>8

\* g takes step after step from base, n of them.
Runs(g, n, base, step) == g = [k \in 0..n |-> IF k = 0 THEN base ELSE step[k][g[k - 1]]]

\* Such a function exists.
LEMMA RunExists ==
  ASSUME NEW n \in Nat, NEW X, NEW base \in X,
         NEW step, \A k \in 1..n, x \in X : step[k][x] \in X
  PROVE  \E g \in [0..n -> X] : Runs(g, n, base, step)
<1> DEFINE Good(g, m) == \A k \in 0..m : g[k] = IF k = 0 THEN base ELSE step[k][g[k - 1]]
           P == {m \in 0..n : \E g \in [0..n -> X] : Good(g, m)}
<1>1. 0 \in P
  <2>1. [k \in 0..n |-> base] \in [0..n -> X] /\ Good([k \in 0..n |-> base], 0)
    OBVIOUS
  <2>2. 0 \in 0..n
    OBVIOUS
  <2> HIDE DEF Good
  <2> QED
    BY <2>1, <2>2
<1>2. ASSUME NEW m \in 1..n, m - 1 \in P PROVE m \in P
  <2>1. PICK g \in [0..n -> X] : Good(g, m - 1)
    BY <1>2
  <2>2. m \in 0..n /\ m - 1 \in 0..n /\ m # m - 1
    OBVIOUS
  <2>3. step[m][g[m - 1]] \in X
    BY <2>1, <2>2
  <2> DEFINE f == [g EXCEPT ![m] = step[m][g[m - 1]]]
  <2>4. f \in [0..n -> X] /\ f[m] = step[m][g[m - 1]] /\ \A k \in 0..(m - 1) : f[k] = g[k]
    BY <2>2, <2>3
  <2>5. Good(f, m)
    <3> SUFFICES ASSUME NEW k \in 0..m
                 PROVE  f[k] = IF k = 0 THEN base ELSE step[k][f[k - 1]]
      OBVIOUS
    <3> HIDE DEF f
    <3>1. CASE k = m
      <4>1. f[k - 1] = g[k - 1]
        BY <2>4, <3>1
      <4> QED
        BY <2>4, <3>1, <4>1
    <3>2. CASE k # m
      <4>1. k \in 0..(m - 1) /\ (k # 0 => k - 1 \in 0..(m - 1))
        BY <3>2
      <4> QED
        BY <2>1, <2>4, <4>1
    <3> QED
      BY <3>1, <3>2
  <2> HIDE DEF f, Good
  <2> QED
    BY <2>2, <2>4, <2>5
<1>3. n \in P
  <2>1. P \in SUBSET (0..n) /\ n \in 0..n
    OBVIOUS
  <2> HIDE DEF P
  <2> QED
    BY <1>1, <1>2, <2>1, Climb
<1>4. PICK g \in [0..n -> X] : Good(g, n)
  BY <1>3
<1>5. Runs(g, n, base, step)
  BY <1>4 DEF Runs
<1> QED
  BY <1>5

-----------------------------------------------------------------------------
(* The parts of a kind *)

KeptWalk(parts, kind) ==
  \E h : /\ h[0] = <<>> /\ h[Len(parts)] = OfKind(parts, kind)
         /\ \A k \in 1..Len(parts) :
              h[k] = h[k - 1] \o If(parts[k].kind = kind, <<parts[k]>>)

LEMMA OfKindSteps ==
  ASSUME NEW E, NEW parts \in Seq(E), NEW kind
  PROVE  KeptWalk(parts, kind)
<1> DEFINE Step(x, k) == x \o If(parts[k].kind = kind, <<parts[k]>>)
           Iter(g) == g = [k \in 0..Len(parts) |-> IF k = 0 THEN <<>> ELSE Step(g[k - 1], k)]
           iter == CHOOSE g : Iter(g)
<1>0. PICK n \in Nat : n = Len(parts)
  BY LenProperties
<1>1. OfKind(parts, kind) = iter[n]
  BY <1>0 DEF OfKind
<1>2. \E g : Iter(g)
  <2> DEFINE step == [k \in 1..n |-> [x \in Seq(E) |-> Step(x, k)]]
  <2>1. ASSUME NEW k \in 1..n, NEW x \in Seq(E) PROVE step[k][x] \in Seq(E)
    <3>1. parts[k] \in E
      BY <1>0, ElementOfSeq
    <3>2. If(parts[k].kind = kind, <<parts[k]>>) \in Seq(E)
      BY <3>1 DEF If
    <3>3. Step(x, k) \in Seq(E)
      BY <3>2, ConcatProperties
    <3> HIDE DEF Step
    <3> QED
      BY <3>3
  <2>2. <<>> \in Seq(E)
    OBVIOUS
  <2>3. PICK g \in [0..n -> Seq(E)] : Runs(g, n, <<>>, step)
    <3> HIDE DEF step
    <3> QED
      BY <2>1, <2>2, RunExists
  <2>4. ASSUME NEW k \in 0..n, k # 0 PROVE step[k][g[k - 1]] = Step(g[k - 1], k)
    <3>1. k \in 1..n /\ g[k - 1] \in Seq(E)
      BY <2>4
    <3> HIDE DEF Step
    <3> QED
      BY <3>1
  <2> HIDE DEF Step, step
  <2>5. g = [k \in 0..n |-> IF k = 0 THEN <<>> ELSE Step(g[k - 1], k)]
    BY <2>3, <2>4 DEF Runs
  <2> QED
    BY <1>0, <2>5
<1>3. Iter(iter)
  <2> HIDE DEF Iter
  <2> QED
    BY <1>2
<1> HIDE DEF iter, Step
<1>4. iter[0] = <<>>
  BY <1>0, <1>3
<1>5. \A k \in 1..n : iter[k] = Step(iter[k - 1], k)
  BY <1>0, <1>3
<1> QED
  BY <1>0, <1>1, <1>4, <1>5 DEF Step, KeptWalk

\* Those of the kind stand behind the first m parts.
Behind(parts, kind, m) ==
  /\ m \in 0..Len(parts)
  /\ \A i \in 1..m : parts[i].kind # kind
  /\ \A i \in (m + 1)..Len(parts) : parts[i].kind = kind

\* They are then what is left of the parts.
LEMMA OfKindFacts ==
  ASSUME NEW E, NEW parts \in Seq(E), NEW kind, NEW m, Behind(parts, kind, m)
  PROVE  /\ OfKind(parts, kind) \in Seq(E)
         /\ Len(OfKind(parts, kind)) = Len(parts) - m
         /\ \A i \in 1..(Len(parts) - m) : OfKind(parts, kind)[i] = parts[m + i]
<1> USE DEF Behind
<1>0. PICK n \in Nat : n = Len(parts) /\ m \in 0..n
  BY LenProperties
<1>1. PICK h : /\ h[0] = <<>> /\ h[n] = OfKind(parts, kind)
               /\ \A k \in 1..n : h[k] = h[k - 1] \o If(parts[k].kind = kind, <<parts[k]>>)
  <2>1. KeptWalk(parts, kind)
    BY OfKindSteps
  <2> QED
    BY <1>0, <2>1 DEF KeptWalk
<1> DEFINE Kept(k) == IF k <= m THEN 0 ELSE k - m
           P == {k \in 0..n : /\ h[k] \in Seq(E) /\ Len(h[k]) = Kept(k)
                              /\ \A i \in 1..Kept(k) : h[k][i] = parts[m + i]}
<1>2. 0 \in P
  <2>1. h[0] \in Seq(E) /\ Len(h[0]) = 0
    BY <1>1
  <2>2. Kept(0) = 0 /\ 0 \in 0..n
    BY <1>0
  <2> QED
    BY <2>1, <2>2
<1>3. ASSUME NEW k \in 1..n, k - 1 \in P PROVE k \in P
  <2>1. /\ h[k - 1] \in Seq(E) /\ Len(h[k - 1]) = Kept(k - 1)
        /\ \A i \in 1..Kept(k - 1) : h[k - 1][i] = parts[m + i]
        /\ k \in 0..n /\ m \in 0..n
    BY <1>0, <1>3
  <2>2. CASE k <= m
    <3>1. parts[k].kind # kind /\ Kept(k) = 0 /\ Kept(k - 1) = 0
      BY <1>0, <2>1, <2>2
    <3>2. h[k] = h[k - 1] \o <<>>
      BY <1>1, <3>1 DEF If
    <3>3. h[k] = h[k - 1]
      BY <2>1, <3>2, ConcatEmptySeq
    <3> QED
      BY <2>1, <3>1, <3>3
  <2>3. CASE ~(k <= m)
    <3>1. k \in (m + 1)..n /\ Kept(k) = k - m /\ Kept(k - 1) = k - m - 1 /\ k - m \in 1..n
      BY <2>1, <2>3
    <3>2. h[k] = h[k - 1] \o <<parts[k]>>
      BY <1>0, <1>1, <3>1 DEF If
    <3>3. parts[k] \in E
      BY <1>0, ElementOfSeq
    <3>4. h[k] = Append(h[k - 1], parts[k])
      BY <2>1, <3>2, <3>3, AppendIsConcat
    <3>5. /\ h[k] \in Seq(E) /\ Len(h[k]) = k - m
          /\ \A i \in 1..(k - m - 1) : h[k][i] = h[k - 1][i]
          /\ h[k][k - m] = parts[k]
      <4> HIDE DEF P
      <4>1. Len(h[k - 1]) = k - m - 1 /\ Len(h[k - 1]) + 1 = k - m
        BY <2>1, <3>1
      <4> QED
        BY <2>1, <3>3, <3>4, <4>1, AppendProperties
    <3>6. ASSUME NEW i \in 1..(k - m) PROVE h[k][i] = parts[m + i]
      <4>1. CASE i = k - m
        <5>1. m + i = k
          BY <2>1, <4>1
        <5> QED
          BY <3>5, <4>1, <5>1
      <4>2. CASE i # k - m
        <5>1. i \in 1..(k - m - 1)
          BY <2>1, <4>2
        <5> QED
          BY <2>1, <3>1, <3>5, <5>1
      <4> QED
        BY <4>1, <4>2
    <3> QED
      BY <2>1, <3>1, <3>5, <3>6
  <2> QED
    BY <2>2, <2>3
<1>4. n \in P
  <2>1. P \in SUBSET (0..n) /\ n \in 0..n
    BY <1>0
  <2> HIDE DEF P
  <2> QED
    BY <1>0, <1>2, <1>3, <2>1, Climb
<1>5. Kept(n) = n - m
  BY <1>0
<1> QED
  BY <1>0, <1>1, <1>4, <1>5

Parts == [kind : {"text", "image", "call", "result"}, id : STRING \cup {None},
          name : STRING \cup {None}, error : BOOLEAN]

\* The keys by which the calls are to be answered.
CallKeys(protocol, calls) ==
  [k \in DOMAIN calls |-> IF protocol = "gemini" THEN calls[k].name ELSE calls[k].id]

Asking == [id : STRING, name : STRING]

LEMMA PartFacts ==
  /\ Text \in Parts /\ Image \in Parts /\ Text.kind = "text" /\ Image.kind = "image"
  /\ \A call \in Asking : CallPart(call) \in Parts /\ CallPart(call).kind = "call"
  /\ \A m \in Messages : ResultPart(m) \in Parts /\ ResultPart(m).kind = "result"
                         /\ ResultPart(m) # Text /\ ResultPart(m).id = m.answers
<1>1. Text \in Parts /\ Text.kind = "text"
  BY DEF Text, Part, Parts
<1>2. Image \in Parts /\ Image.kind = "image"
  BY DEF Image, Part, Parts
<1>3. \A call \in Asking : CallPart(call) \in Parts /\ CallPart(call).kind = "call"
  BY DEF CallPart, Part, Parts, Asking
<1>4. \A m \in Messages : ResultPart(m) \in Parts /\ ResultPart(m).kind = "result"
                         /\ ResultPart(m) # Text /\ ResultPart(m).id = m.answers
  <2> SUFFICES ASSUME NEW m \in Messages
               PROVE  ResultPart(m) \in Parts /\ ResultPart(m).kind = "result"
                      /\ ResultPart(m) # Text /\ ResultPart(m).id = m.answers
    OBVIOUS
  <2>1. ResultPart(m) \in Parts /\ ResultPart(m).kind = "result" /\ ResultPart(m).id = m.answers
    BY DEF ResultPart, Part, Parts, Messages
  <2> QED
    BY <1>1, <2>1
<1> QED
  BY <1>1, <1>2, <1>3, <1>4

\* A turn with calls behind its text and images has the calls it was made of.
LEMMA CallTurnFacts ==
  ASSUME NEW head \in Seq({Text, Image}), NEW calls \in Seq(Asking), NEW protocol
  PROVE  LET parts == head \o Each(CallPart, calls)
         IN /\ parts \in Seq(Parts)
            /\ Keys(protocol, OfKind(parts, "call")) = CallKeys(protocol, calls)
            /\ OfKind(parts, "call") = <<>> <=> calls = <<>>
            /\ DOMAIN OfKind(parts, "call") = DOMAIN calls
<1> DEFINE called == Each(CallPart, calls)
           parts == head \o called
           asked == OfKind(parts, "call")
<1>0. PICK m \in Nat, n \in Nat : /\ m = Len(head) /\ n = Len(calls)
                                  /\ head \in [1..m -> {Text, Image}] /\ DOMAIN head = 1..m
                                  /\ calls \in [1..n -> Asking] /\ DOMAIN calls = 1..n
  <2>1. Len(head) \in Nat /\ head \in [1..Len(head) -> {Text, Image}] /\ DOMAIN head = 1..Len(head)
    BY LenProperties
  <2>2. Len(calls) \in Nat /\ calls \in [1..Len(calls) -> Asking] /\ DOMAIN calls = 1..Len(calls)
    BY LenProperties
  <2> QED
    BY <2>1, <2>2
<1>1. called = [k \in 1..n |-> CallPart(calls[k])]
  BY <1>0 DEF Each
<1>2. /\ called \in Seq(Parts) /\ Len(called) = n
      /\ \A k \in 1..n : called[k] = CallPart(calls[k]) /\ called[k].kind = "call"
  <2>1. \A k \in 1..n : CallPart(calls[k]) \in Parts /\ CallPart(calls[k]).kind = "call"
    BY <1>0, PartFacts
  <2>2. called \in [1..n -> Parts]
    BY <1>1, <2>1
  <2>3. called \in Seq(Parts) /\ DOMAIN called = 1..n
    BY <2>2, SeqDef
  <2>4. Len(called) = n
    BY <2>3, LenProperties
  <2> QED
    BY <1>1, <2>1, <2>3, <2>4
<1>3. head \in Seq(Parts) /\ \A i \in 1..m : head[i].kind # "call"
  <2>1. head \in [1..m -> Parts]
    BY <1>0, PartFacts
  <2>2. [1..m -> Parts] \subseteq Seq(Parts)
    BY SeqDef
  <2> QED
    BY <1>0, <2>1, <2>2, PartFacts
<1> HIDE DEF called
<1>4. /\ parts \in Seq(Parts) /\ Len(parts) = m + n
      /\ \A i \in 1..m : parts[i].kind # "call"
      /\ \A i \in (m + 1)..(m + n) : parts[i].kind = "call"
      /\ \A i \in 1..n : parts[m + i] = called[i]
  <2>1. /\ parts \in Seq(Parts) /\ Len(parts) = m + n
        /\ \A i \in 1..(m + n) : parts[i] = IF i <= m THEN head[i] ELSE called[i - m]
    <3>1. /\ head \o called \in Seq(Parts) /\ Len(head \o called) = Len(head) + Len(called)
          /\ \A i \in 1..(Len(head) + Len(called)) :
               (head \o called)[i] = IF i <= Len(head) THEN head[i] ELSE called[i - Len(head)]
      BY <1>2, <1>3, ConcatProperties
    <3>2. Len(head) = m /\ Len(called) = n
      BY <1>0, <1>2
    <3> QED
      BY <3>1, <3>2
  <2> HIDE DEF parts
  <2>2. \A i \in 1..m : i \in 1..(m + n) /\ i <= m
    OBVIOUS
  <2>3. \A i \in (m + 1)..(m + n) : i \in 1..(m + n) /\ ~(i <= m) /\ i - m \in 1..n
    OBVIOUS
  <2>4. \A i \in 1..n : m + i \in 1..(m + n) /\ ~(m + i <= m) /\ (m + i) - m = i
    OBVIOUS
  <2>5. \A i \in 1..m : parts[i].kind # "call"
    BY <1>3, <2>1, <2>2
  <2>6. \A i \in (m + 1)..(m + n) : parts[i] = called[i - m] /\ parts[i].kind = "call"
    BY <1>2, <2>1, <2>3
  <2>7. \A i \in 1..n : parts[m + i] = called[i]
    BY <2>1, <2>4
  <2> QED
    BY <2>1, <2>5, <2>6, <2>7
<1> HIDE DEF parts
<1>5. asked \in Seq(Parts) /\ Len(asked) = n /\ \A i \in 1..n : asked[i] = called[i]
  <2>1. m \in 0..Len(parts) /\ Len(parts) - m = n
    BY <1>4
  <2>3. \A i \in 1..m : parts[i].kind # "call"
    BY <1>4
  <2>4. \A i \in (m + 1)..Len(parts) : parts[i].kind = "call"
    BY <1>4
  <2>2. /\ asked \in Seq(Parts) /\ Len(asked) = Len(parts) - m
        /\ \A i \in 1..(Len(parts) - m) : asked[i] = parts[m + i]
    <3>1. parts \in Seq(Parts)
      BY <1>4
    <3> HIDE DEF asked
    <3>2. /\ OfKind(parts, "call") \in Seq(Parts)
          /\ Len(OfKind(parts, "call")) = Len(parts) - m
          /\ \A i \in 1..(Len(parts) - m) : OfKind(parts, "call")[i] = parts[m + i]
      <4>1. Behind(parts, "call", m)
        BY <2>1, <2>3, <2>4 DEF Behind
      <4> QED
        BY <3>1, <4>1, OfKindFacts
    <3> QED
      BY <3>2 DEF asked
  <2> QED
    BY <1>0, <1>4, <2>1, <2>2
<1> HIDE DEF asked
<1>6. DOMAIN asked = 1..n /\ (asked = <<>> <=> n = 0) /\ (calls = <<>> <=> n = 0)
  BY <1>0, <1>5, LenProperties, EmptySeq
<1>7. ASSUME NEW k \in 1..n
      PROVE  Key(protocol, asked[k]) = IF protocol = "gemini" THEN calls[k].name ELSE calls[k].id
  <2>1. asked[k] = CallPart(calls[k])
    BY <1>2, <1>5
  <2> QED
    BY <2>1 DEF CallPart, Part, Key
<1>8. Keys(protocol, asked) = CallKeys(protocol, calls)
  BY <1>0, <1>6, <1>7 DEF Keys, CallKeys
<1> QED
  BY <1>0, <1>4, <1>6, <1>8 DEF asked, parts, called

\* Parts of another kind are none of this one, and parts of this kind are all of it.
LEMMA UniformFacts ==
  ASSUME NEW parts \in Seq(Parts), NEW kind
  PROVE  /\ (\A i \in DOMAIN parts : parts[i].kind # kind) => OfKind(parts, kind) = <<>>
         /\ (\A i \in DOMAIN parts : parts[i].kind = kind) => OfKind(parts, kind) = parts
<1>0. PICK n \in Nat : n = Len(parts) /\ DOMAIN parts = 1..n
  BY LenProperties
<1> DEFINE kept == OfKind(parts, kind)
<1>1. ASSUME \A i \in 1..n : parts[i].kind # kind PROVE kept = <<>>
  <2>1. n \in 0..Len(parts) /\ n - n = 0 /\ (\A i \in (n + 1)..Len(parts) : parts[i].kind = kind)
    BY <1>0
  <2>3. Behind(parts, kind, n)
    BY <1>0, <1>1, <2>1 DEF Behind
  <2>2. kept \in Seq(Parts) /\ Len(kept) = n - n
    BY <1>0, <2>3, OfKindFacts
  <2> HIDE DEF kept
  <2> QED
    BY <2>1, <2>2, EmptySeq
<1>2. ASSUME \A i \in 1..n : parts[i].kind = kind PROVE kept = parts
  <2>1. /\ 0 \in 0..Len(parts) /\ n - 0 = n /\ (\A i \in 1..0 : parts[i].kind # kind)
        /\ (\A i \in (0 + 1)..Len(parts) : parts[i].kind = kind)
    BY <1>0, <1>2
  <2>2. /\ kept \in Seq(Parts) /\ Len(kept) = n - 0
        /\ \A i \in 1..(n - 0) : kept[i] = parts[0 + i]
    <3>1. Behind(parts, kind, 0)
      BY <2>1 DEF Behind
    <3> QED
      BY <1>0, <3>1, OfKindFacts
  <2>3. \A i \in 1..n : 0 + i = i
    OBVIOUS
  <2> HIDE DEF kept
  <2> QED
    BY <1>0, <2>1, <2>2, <2>3, SeqEqual
<1> QED
  BY <1>0, <1>1, <1>2


-----------------------------------------------------------------------------
(* Conversations *)

Turns == [role : {"system", "user", "assistant", "tool", "model"}, parts : Seq(Parts)]

\* After n messages, the calls of message a are not all answered.
Open(messages, a, n) == a \in 1..n /\ n - a < Len(messages[a].calls)

\* Only a result follows a message with calls open, and it answers the next of them.
LEMMA RowFacts ==
  ASSUME NEW messages \in Seq(Messages), Conversation(messages), NEW n \in 1..Len(messages)
  PROVE  /\ messages[n] \in Messages
         /\ messages[n].calls # <<>> => messages[n].role = "assistant"
         /\ \A a : Open(messages, a, n) /\ a # n =>
              Open(messages, a, n - 1) /\ messages[n].role = "tool"
         /\ \A a : Open(messages, a, n - 1) => messages[n].role = "tool"
         /\ messages[n].role = "tool" =>
              \E a \in 1..(n - 1) :
                /\ Open(messages, a, n - 1)
                /\ n - a \in DOMAIN messages[a].calls
                /\ messages[n].answers = messages[a].calls[n - a].id
                /\ \A b : Open(messages, b, n - 1) \/ Open(messages, b, n) => b = a
<1>0. /\ DOMAIN messages = 1..Len(messages) /\ Len(messages) \in Nat
      /\ \A i \in 1..Len(messages) :
           /\ messages[i] \in Messages
           /\ Len(messages[i].calls) \in Nat
           /\ DOMAIN messages[i].calls = 1..Len(messages[i].calls)
           /\ messages[i].calls # <<>> <=> Len(messages[i].calls) > 0
  <2>1. DOMAIN messages = 1..Len(messages) /\ Len(messages) \in Nat
    BY LenProperties
  <2>2. ASSUME NEW i \in 1..Len(messages)
        PROVE  messages[i] \in Messages /\ messages[i].calls \in Seq(Asking)
    <3>1. messages[i] \in Messages
      BY ElementOfSeq
    <3> QED
      BY <3>1 DEF Messages, Asking
  <2>3. \A s \in Seq(Asking) : /\ Len(s) \in Nat /\ DOMAIN s = 1..Len(s)
                               /\ s # <<>> <=> Len(s) > 0
    BY LenProperties, EmptySeq
  <2> QED
    BY <2>1, <2>2, <2>3
<1>1. \A i \in 1..Len(messages) :
        /\ messages[i].calls # <<>> => messages[i].role = "assistant"
        /\ \A j \in 1..Len(messages) :
             j - i \in 1..Len(messages[i].calls) =>
               /\ messages[j].role = "tool"
               /\ messages[j].answers = messages[i].calls[j - i].id
        /\ messages[i].role = "tool" =>
             \E j \in 1..(i - 1) : i - j \in 1..Len(messages[j].calls)
  <2> SUFFICES ASSUME NEW i \in 1..Len(messages)
               PROVE  /\ messages[i].calls # <<>> => messages[i].role = "assistant"
                      /\ \A j \in 1..Len(messages) :
                           j - i \in 1..Len(messages[i].calls) =>
                             /\ messages[j].role = "tool"
                             /\ messages[j].answers = messages[i].calls[j - i].id
                      /\ messages[i].role = "tool" =>
                           \E j \in 1..(i - 1) : i - j \in 1..Len(messages[j].calls)
    OBVIOUS
  <2>1. /\ messages[i].calls # <<>> => messages[i].role = "assistant"
        /\ \A k \in DOMAIN messages[i].calls :
             messages[i + k].role = "tool" /\ messages[i + k].answers = messages[i].calls[k].id
        /\ messages[i].role = "tool" =>
             \E k \in 1..(i - 1) : k \in DOMAIN messages[i - k].calls
    BY <1>0 DEF Conversation
  <2>2. ASSUME NEW j \in 1..Len(messages), j - i \in 1..Len(messages[i].calls)
        PROVE  messages[j].role = "tool" /\ messages[j].answers = messages[i].calls[j - i].id
    <3>1. PICK k \in DOMAIN messages[i].calls : k = j - i
      BY <1>0, <2>2
    <3>2. i + k = j
      BY <1>0, <2>2, <3>1
    <3> QED
      BY <2>1, <3>1, <3>2
  <2>3. ASSUME messages[i].role = "tool"
        PROVE  \E j \in 1..(i - 1) : i - j \in 1..Len(messages[j].calls)
    <3>1. PICK k \in 1..(i - 1) : k \in DOMAIN messages[i - k].calls
      BY <2>1, <2>3
    <3>2. PICK j \in 1..(i - 1) : j = i - k
      BY <3>1
    <3>3. i - j = k /\ j \in 1..Len(messages)
      BY <1>0, <3>1, <3>2
    <3> QED
      BY <1>0, <3>1, <3>2, <3>3
  <2> QED
    BY <2>1, <2>2, <2>3
<1>2. ASSUME NEW a, Open(messages, a, n), a # n
      PROVE  Open(messages, a, n - 1) /\ messages[n].role = "tool"
  <2>1. a \in 1..Len(messages) /\ n - a \in 1..Len(messages[a].calls)
    BY <1>0, <1>2 DEF Open
  <2>2. messages[n].role = "tool"
    BY <1>1, <2>1
  <2> QED
    BY <1>0, <1>2, <2>1, <2>2 DEF Open
<1>3. ASSUME NEW a, Open(messages, a, n - 1) PROVE messages[n].role = "tool"
  <2>1. a \in 1..Len(messages) /\ n - a \in 1..Len(messages[a].calls)
    BY <1>0, <1>3 DEF Open
  <2> QED
    BY <1>1, <2>1
<1>4. ASSUME messages[n].role = "tool"
      PROVE  \E a \in 1..(n - 1) :
                /\ Open(messages, a, n - 1)
                /\ n - a \in DOMAIN messages[a].calls
                /\ messages[n].answers = messages[a].calls[n - a].id
                /\ \A b : Open(messages, b, n - 1) \/ Open(messages, b, n) => b = a
  <2>1. PICK a \in 1..(n - 1) : n - a \in 1..Len(messages[a].calls)
    BY <1>1, <1>4
  <2>3. a \in 1..Len(messages) /\ n - a \in DOMAIN messages[a].calls
    BY <1>0, <2>1
  <2>4. messages[n].answers = messages[a].calls[n - a].id
    BY <1>1, <2>1, <2>3
  <2>5. Open(messages, a, n - 1)
    BY <1>0, <2>1, <2>3 DEF Open
  <2>6. ASSUME NEW b, NEW c, NEW j \in 1..n, Open(messages, b, j), Open(messages, c, n - 1), b < c,
               j = n \/ j = n - 1
        PROVE  FALSE
    <3>1. /\ b \in 1..Len(messages) /\ c \in 1..Len(messages)
          /\ c - b \in 1..Len(messages[b].calls)
      BY <1>0, <2>6 DEF Open
    <3>2. messages[c].role = "tool" /\ Len(messages[c].calls) > 0
      BY <1>0, <1>1, <2>6, <3>1 DEF Open
    <3> QED
      BY <1>0, <1>1, <3>1, <3>2
  <2>7. ASSUME NEW b, Open(messages, b, n) PROVE Open(messages, b, n - 1)
    <3>1. b # n
      BY <1>0, <1>1, <1>4, <2>7 DEF Open
    <3> QED
      BY <1>2, <2>7, <3>1
  <2>8. ASSUME NEW b, Open(messages, b, n - 1) PROVE b = a
    <3>1. b \in 1..(n - 1) /\ n - 1 \in 1..n
      BY <2>8 DEF Open
    <3>2. ~(b < a) /\ ~(a < b)
      BY <2>5, <2>6, <2>8, <3>1
    <3> QED
      BY <3>1, <3>2
  <2> QED
    BY <2>3, <2>4, <2>5, <2>7, <2>8
<1> QED
  BY <1>0, <1>1, <1>2, <1>3, <1>4

\* At its end no call is left open.
LEMMA NoneOpen ==
  ASSUME NEW messages \in Seq(Messages), Conversation(messages), NEW a
  PROVE  ~Open(messages, a, Len(messages))
<1> SUFFICES ASSUME Open(messages, a, Len(messages)) PROVE FALSE
  OBVIOUS
<1>1. /\ DOMAIN messages = 1..Len(messages) /\ Len(messages) \in Nat
      /\ a \in 1..Len(messages) /\ messages[a] \in Messages
  BY LenProperties, ElementOfSeq DEF Open
<1>2. messages[a].calls \in Seq(Asking)
  BY <1>1 DEF Messages, Asking
<1>3. DOMAIN messages[a].calls = 1..Len(messages[a].calls) /\ Len(messages[a].calls) \in Nat
  BY <1>2, LenProperties
<1>4. PICK k \in Nat : k = Len(messages) - a + 1
  BY <1>1
<1>5. k \in DOMAIN messages[a].calls /\ a + k \notin DOMAIN messages
  BY <1>1, <1>3, <1>4 DEF Open
<1> QED
  BY <1>1, <1>5 DEF Conversation

-----------------------------------------------------------------------------
(* The turns of a conversation, a message at a time *)

CalledBy(protocol, turn) == Keys(protocol, OfKind(turn.parts, "call"))
AnsweredBy(protocol, turn) == Keys(protocol, OfKind(turn.parts, "result"))

\* A turn without calls, or whose calls the next turn answers.
Settled(protocol, turns, i) ==
  \/ OfKind(turns[i].parts, "call") = <<>>
  \/ i < Len(turns) /\ AnsweredBy(protocol, turns[i + 1]) = CalledBy(protocol, turns[i])

\* Where the calls are of which k are answered.
CallTurn(turns, k) == IF k = 0 THEN Len(turns) ELSE Len(turns) - 1

\* The results so far, which are the last turn once there is one.
SoFar(protocol, turn, k, keys) ==
  /\ turn.role = "user" /\ Len(turn.parts) = k
  /\ \A j \in 1..k : turn.parts[j].kind = "result" /\ Key(protocol, turn.parts[j]) = keys[j]

\* The calls of a message of which k are answered.
Row(protocol, messages, turns, a, k) ==
  /\ CallTurn(turns, k) \in 1..Len(turns)
  /\ turns[CallTurn(turns, k)].role # "user"
  /\ CalledBy(protocol, turns[CallTurn(turns, k)]) = CallKeys(protocol, messages[a].calls)
  /\ k > 0 => SoFar(protocol, turns[Len(turns)], k, CallKeys(protocol, messages[a].calls))

\* The turns of n messages.
Shape(protocol, messages, turns, n) ==
  /\ turns \in Seq(Turns)
  /\ \A i \in 1..Len(turns) :
       \/ Settled(protocol, turns, i)
       \/ \E a : Open(messages, a, n) /\ i = CallTurn(turns, n - a)
  /\ \A a : Open(messages, a, n) => Row(protocol, messages, turns, a, n - a)

\* A settled turn stays settled while it and the turn behind it stay.
LEMMA SettledStays ==
  ASSUME NEW protocol, NEW old \in Seq(Turns), NEW new \in Seq(Turns), NEW i \in 1..Len(old),
         i <= Len(new), new[i] = old[i],
         i < Len(old) => i + 1 <= Len(new) /\ new[i + 1] = old[i + 1],
         Settled(protocol, old, i)
  PROVE  Settled(protocol, new, i)
<1>1. Len(old) \in Nat /\ Len(new) \in Nat
  BY LenProperties
<1>2. CASE OfKind(old[i].parts, "call") = <<>>
  BY <1>2 DEF Settled
<1>3. CASE i < Len(old) /\ AnsweredBy(protocol, old[i + 1]) = CalledBy(protocol, old[i])
  <2>1. i < Len(new) /\ AnsweredBy(protocol, new[i + 1]) = CalledBy(protocol, new[i])
    BY <1>1, <1>3
  <2> QED
    BY <2>1 DEF Settled
<1> QED
  BY <1>2, <1>3 DEF Settled

\* A message without calls adds nothing, or a turn without calls.
LEMMA QuietStep ==
  ASSUME NEW protocol, NEW messages \in Seq(Messages), Conversation(messages),
         NEW n \in 1..Len(messages), NEW old, NEW new,
         Shape(protocol, messages, old, n - 1),
         messages[n].role # "tool", messages[n].calls = <<>>,
         \/ new = old
         \/ \E t \in Turns : new = Append(old, t) /\ OfKind(t.parts, "call") = <<>>
  PROVE  Shape(protocol, messages, new, n)
<1>1. old \in Seq(Turns) /\ Len(old) \in Nat
  BY LenProperties DEF Shape
<1>2. \A a : ~Open(messages, a, n - 1) /\ ~Open(messages, a, n)
  <2>1. ASSUME NEW a, Open(messages, a, n) PROVE FALSE
    <3>1. Len(messages[n].calls) = 0
      OBVIOUS
    <3>2. a # n
      BY <2>1, <3>1 DEF Open
    <3> QED
      BY <2>1, <3>2, RowFacts
  <2> QED
    BY <2>1, RowFacts
<1>3. \A i \in 1..Len(old) : Settled(protocol, old, i)
  BY <1>2 DEF Shape
<1>4. CASE new = old
  BY <1>1, <1>2, <1>3, <1>4 DEF Shape
<1>5. ASSUME NEW t \in Turns, new = Append(old, t), OfKind(t.parts, "call") = <<>>
      PROVE  Shape(protocol, messages, new, n)
  <2>1. /\ new \in Seq(Turns) /\ Len(new) = Len(old) + 1 /\ new[Len(old) + 1] = t
        /\ \A i \in 1..Len(old) : new[i] = old[i]
    BY <1>1, <1>5, AppendProperties
  <2>2. ASSUME NEW i \in 1..Len(new) PROVE Settled(protocol, new, i)
    <3>1. CASE i = Len(old) + 1
      BY <1>5, <2>1, <3>1 DEF Settled
    <3>2. CASE i # Len(old) + 1
      <4>1. /\ i \in 1..Len(old) /\ i <= Len(new) /\ new[i] = old[i]
            /\ i < Len(old) => i + 1 <= Len(new) /\ new[i + 1] = old[i + 1]
        BY <1>1, <2>1, <3>2
      <4> QED
        BY <1>1, <1>3, <2>1, <4>1, SettledStays
    <3> QED
      BY <3>1, <3>2
  <2> QED
    BY <1>2, <2>1, <2>2 DEF Shape
<1> QED
  BY <1>4, <1>5

\* A message with calls adds a turn that makes them.
LEMMA AskStep ==
  ASSUME NEW protocol, NEW messages \in Seq(Messages), Conversation(messages),
         NEW n \in 1..Len(messages), NEW old,
         Shape(protocol, messages, old, n - 1),
         messages[n].role # "tool", messages[n].calls # <<>>,
         NEW t \in Turns, t.role # "user",
         CalledBy(protocol, t) = CallKeys(protocol, messages[n].calls)
  PROVE  Shape(protocol, messages, Append(old, t), n)
<1> DEFINE new == Append(old, t)
<1>1. old \in Seq(Turns) /\ Len(old) \in Nat
  BY LenProperties DEF Shape
<1>2. \A a : ~Open(messages, a, n - 1) /\ (Open(messages, a, n) => a = n)
  BY RowFacts
<1>3. \A i \in 1..Len(old) : Settled(protocol, old, i)
  BY <1>2 DEF Shape
<1>4. /\ new \in Seq(Turns) /\ Len(new) = Len(old) + 1 /\ new[Len(old) + 1] = t
      /\ \A i \in 1..Len(old) : new[i] = old[i]
  BY <1>1, AppendProperties
<1> HIDE DEF new
<1>5. Open(messages, n, n)
  <2>1. messages[n] \in Messages
    BY RowFacts
  <2>2. messages[n].calls \in Seq(Asking)
    BY <2>1 DEF Messages, Asking
  <2>3. Len(messages[n].calls) > 0
    BY <2>2, LenProperties, EmptySeq
  <2> QED
    BY <2>3, LenProperties DEF Open
<1>6. CallTurn(new, n - n) = Len(old) + 1
  BY <1>4 DEF CallTurn
<1>7. ASSUME NEW i \in 1..Len(new)
      PROVE  \/ Settled(protocol, new, i)
             \/ \E a : Open(messages, a, n) /\ i = CallTurn(new, n - a)
  <2>1. CASE i = Len(old) + 1
    BY <1>5, <1>6, <2>1
  <2>2. CASE i # Len(old) + 1
    <3>1. /\ i \in 1..Len(old) /\ i <= Len(new) /\ new[i] = old[i]
          /\ i < Len(old) => i + 1 <= Len(new) /\ new[i + 1] = old[i + 1]
      <4>1. i \in 1..Len(old) /\ i <= Len(new)
        BY <1>1, <1>4, <2>2
      <4>2. i < Len(old) => i + 1 \in 1..Len(old) /\ i + 1 <= Len(new)
        BY <1>1, <1>4, <4>1
      <4> QED
        BY <1>4, <4>1, <4>2
    <3> QED
      BY <1>1, <1>3, <1>4, <3>1, SettledStays
  <2> QED
    BY <2>1, <2>2
<1>8. ASSUME NEW a, Open(messages, a, n) PROVE Row(protocol, messages, new, a, n - a)
  <2>1. a = n /\ n - a = 0
    BY <1>2, <1>8
  <2>2. CallTurn(new, n - a) = Len(old) + 1 /\ CallTurn(new, n - a) \in 1..Len(new)
    BY <1>1, <1>4, <1>6, <2>1
  <2> QED
    BY <1>4, <2>1, <2>2 DEF Row
<1>9. Shape(protocol, messages, new, n)
  BY <1>4, <1>7, <1>8 DEF Shape
<1> QED
  BY <1>9 DEF new

\* A result joins those of its row, and settles it when it is the last.
LEMMA ReplyStep ==
  ASSUME NEW protocol, NEW messages \in Seq(Messages), Conversation(messages),
         NEW n \in 1..Len(messages), NEW old, NEW new \in Seq(Turns),
         Shape(protocol, messages, old, n - 1),
         NEW a, Open(messages, a, n - 1), n - a \in DOMAIN messages[a].calls,
         \A b : Open(messages, b, n - 1) \/ Open(messages, b, n) => b = a,
         NEW part \in Parts, part.kind = "result",
         Key(protocol, part) = CallKeys(protocol, messages[a].calls)[n - a],
         Len(new) = CallTurn(old, n - 1 - a) + 1,
         \A i \in 1..CallTurn(old, n - 1 - a) : new[i] = old[i],
         new[Len(new)].role = "user",
         new[Len(new)].parts = IF n - 1 = a THEN <<part>>
                               ELSE Append(old[Len(old)].parts, part)
  PROVE  Shape(protocol, messages, new, n)
<1> DEFINE calls == messages[a].calls
           keys == CallKeys(protocol, calls)
           parts == new[Len(new)].parts
<1>1. PICK o : o = CallTurn(old, n - 1 - a)
  OBVIOUS
<1>2. /\ Row(protocol, messages, old, a, n - 1 - a) /\ old \in Seq(Turns) /\ Len(old) \in Nat
      /\ a \in 1..(n - 1)
      /\ \A i \in 1..Len(old) : Settled(protocol, old, i) \/ i = o
  <2>1. Row(protocol, messages, old, a, n - 1 - a) /\ old \in Seq(Turns) /\ a \in 1..(n - 1)
    BY DEF Shape, Open
  <2>2. ASSUME NEW i \in 1..Len(old) PROVE Settled(protocol, old, i) \/ i = o
    BY <1>1 DEF Shape
  <2> QED
    BY <2>1, <2>2, LenProperties
<1>3. /\ o \in 1..Len(old) /\ Len(new) = o + 1 /\ \A i \in 1..o : new[i] = old[i]
      /\ o = IF n - 1 = a THEN Len(old) ELSE Len(old) - 1
      /\ CalledBy(protocol, new[o]) = keys /\ new[o].role # "user"
  BY <1>1, <1>2 DEF Row, CallTurn
<1>4. messages[a].calls \in Seq(Asking) /\ Len(calls) \in Nat /\ DOMAIN calls = 1..Len(calls)
  <2>1. messages[a] \in Messages
    BY <1>2, ElementOfSeq
  <2> QED
    BY <2>1, LenProperties DEF Messages, Asking
<1>5. DOMAIN keys = 1..Len(calls) /\ n - a \in 1..Len(calls) /\ Len(calls) > 0
  BY <1>4 DEF CallKeys
<1>6. Len(new) \in Nat /\ new[Len(new)] \in Turns /\ parts \in Seq(Parts)
  <2>1. Len(new) \in 1..Len(new)
    BY <1>3, LenProperties
  <2>2. new[Len(new)] \in Turns
    BY <2>1, ElementOfSeq
  <2> QED
    BY <2>1, <2>2 , LenProperties DEF Turns, parts
<1> HIDE DEF calls, keys, parts
<1>7. /\ Len(parts) = n - a
      /\ \A j \in 1..(n - a) : parts[j].kind = "result" /\ Key(protocol, parts[j]) = keys[j]
  <2>1. CASE n - 1 = a
    <3>1. parts = <<part>> /\ n - a = 1
      BY <1>2, <2>1 DEF parts
    <3>2. Len(parts) = 1 /\ parts[1] = part
      BY <3>1
    <3> QED
      BY <3>1, <3>2 DEF keys, calls
  <2>2. CASE n - 1 # a
    <3>1. SoFar(protocol, old[Len(old)], n - 1 - a, keys)
      BY <1>2, <2>2 DEF Row, keys, calls
    <3>2. old[Len(old)].parts \in Seq(Parts)
      <4>1. old[Len(old)] \in Turns
        BY <1>2, <1>3, ElementOfSeq
      <4> QED
        BY <4>1 DEF Turns
    <3>3. parts = Append(old[Len(old)].parts, part)
      BY <2>2 DEF parts
    <3>4. /\ Len(parts) = n - a /\ parts[n - a] = part
          /\ \A j \in 1..(n - a - 1) : parts[j] = old[Len(old)].parts[j]
      <4>1. Len(old[Len(old)].parts) = n - a - 1 /\ (n - a - 1) + 1 = n - a
        BY <1>2, <3>1 DEF SoFar
      <4> QED
        BY <3>2, <3>3, <4>1, AppendProperties
    <3>5. ASSUME NEW j \in 1..(n - a)
          PROVE  parts[j].kind = "result" /\ Key(protocol, parts[j]) = keys[j]
      <4>1. CASE j = n - a
        BY <3>4, <4>1 DEF keys, calls
      <4>2. CASE j # n - a
        <5>1. j \in 1..(n - a - 1) /\ j \in 1..(n - 1 - a)
          BY <1>2, <4>2
        <5> QED
          BY <3>1, <3>4, <5>1 DEF SoFar
      <4> QED
        BY <4>1, <4>2
    <3> QED
      BY <3>4, <3>5
  <2> QED
    BY <2>1, <2>2
<1>8. DOMAIN parts = 1..(n - a)
  BY <1>6, <1>7, LenProperties
<1>9. OfKind(parts, "call") = <<>> /\ OfKind(parts, "result") = parts
  <2>1. (\A i \in DOMAIN parts : parts[i].kind # "call") => OfKind(parts, "call") = <<>>
    BY <1>6, UniformFacts
  <2>2. (\A i \in DOMAIN parts : parts[i].kind = "result") => OfKind(parts, "result") = parts
    BY <1>6, UniformFacts
  <2> QED
    BY <1>7, <1>8, <2>1, <2>2
<1>10. ASSUME NEW i \in 1..Len(new), i # o PROVE Settled(protocol, new, i)
  <2>1. CASE i = Len(new)
    BY <1>9, <2>1 DEF Settled, parts
  <2>2. CASE i # Len(new)
    <3>0. Len(old) \in Nat /\ o \in 1..Len(old) /\ Len(new) = o + 1
      BY <1>2, <1>3
    <3>1. i \in 1..Len(old) /\ i < o /\ i + 1 \in 1..o /\ i \in 1..o
      BY <1>10, <2>2, <3>0
    <3>2. /\ i <= Len(new) /\ new[i] = old[i]
          /\ i < Len(old) => i + 1 <= Len(new) /\ new[i + 1] = old[i + 1]
      <4>1. new[i] = old[i] /\ new[i + 1] = old[i + 1]
        BY <1>3, <3>1
      <4>2. i <= Len(new) /\ i + 1 <= Len(new)
        BY <1>3, <3>1
      <4> QED
        BY <4>1, <4>2
    <3> QED
      BY <1>2, <1>10, <3>1, <3>2, SettledStays
  <2> QED
    BY <2>1, <2>2
<1>11. CASE n - a < Len(calls)
  <2>1. Open(messages, a, n) /\ CallTurn(new, n - a) = o
    BY <1>2, <1>3, <1>6, <1>11 DEF Open, CallTurn, calls
  <2>2. Row(protocol, messages, new, a, n - a)
    <3>1. SoFar(protocol, new[Len(new)], n - a, keys)
      BY <1>7 DEF SoFar, parts
    <3>2. o \in 1..Len(new)
      BY <1>2, <1>3
    <3> QED
      BY <1>3, <2>1, <3>1, <3>2 DEF Row, keys, calls
  <2>3. \A b : Open(messages, b, n) => b = a
    OBVIOUS
  <2> QED
    BY <1>10, <2>1, <2>2, <2>3 DEF Shape
<1>12. CASE ~(n - a < Len(calls))
  <2>1. n - a = Len(calls) /\ \A b : ~Open(messages, b, n)
    BY <1>2, <1>4, <1>5, <1>12 DEF Open, calls
  <2>2. Keys(protocol, parts) = keys
    <3>1. DOMAIN keys = DOMAIN parts
      BY <1>5, <1>8, <2>1
    <3>2. keys = [j \in DOMAIN keys |-> keys[j]]
      BY DEF keys, CallKeys
    <3> QED
      BY <1>7, <1>8, <3>1, <3>2 DEF Keys
  <2>3. Settled(protocol, new, o)
    <3>0. Len(new) = o + 1 /\ o \in Nat
      BY <1>2, <1>3
    <3>1. o < Len(new) /\ new[o + 1].parts = parts
      BY <3>0 DEF parts
    <3>2. AnsweredBy(protocol, new[o + 1]) = keys
      BY <1>9, <2>2, <3>1 DEF AnsweredBy
    <3> QED
      BY <1>3, <3>1, <3>2 DEF Settled
  <2> QED
    BY <1>10, <2>1, <2>3 DEF Shape
<1> QED
  BY <1>11, <1>12

\* Text and images are no calls.
LEMMA PlainFacts ==
  ASSUME NEW parts \in Seq({Text, Image})
  PROVE  parts \in Seq(Parts) /\ OfKind(parts, "call") = <<>>
<1>1. PICK n \in Nat : n = Len(parts) /\ parts \in [1..n -> {Text, Image}] /\ DOMAIN parts = 1..n
  BY LenProperties
<1>2. parts \in [1..n -> Parts] /\ \A i \in 1..n : parts[i].kind # "call"
  BY <1>1, PartFacts
<1>3. parts \in Seq(Parts)
  <2>1. [1..n -> Parts] \subseteq Seq(Parts)
    BY SeqDef
  <2> QED
    BY <1>2, <2>1
<1> QED
  BY <1>1, <1>2, <1>3, UniformFacts

LEMMA HeadFacts ==
  ASSUME NEW b, NEW c
  PROVE  /\ If(b, <<Text>>) \in Seq({Text, Image}) /\ If(c, <<Image>>) \in Seq({Text, Image})
         /\ If(b, <<Text>>) \o If(c, <<Image>>) \in Seq({Text, Image})
         /\ If(c, <<Image>>) \o If(b, <<Text>>) \in Seq({Text, Image})
<1>1. If(b, <<Text>>) \in Seq({Text, Image})
  <2>1. <<Text>> \in Seq({Text, Image}) /\ <<>> \in Seq({Text, Image})
    OBVIOUS
  <2>2. If(b, <<Text>>) = <<Text>> \/ If(b, <<Text>>) = <<>>
    BY DEF If
  <2> QED
    BY <2>1, <2>2
<1>2. If(c, <<Image>>) \in Seq({Text, Image})
  <2>1. <<Image>> \in Seq({Text, Image}) /\ <<>> \in Seq({Text, Image})
    OBVIOUS
  <2>2. If(c, <<Image>>) = <<Image>> \/ If(c, <<Image>>) = <<>>
    BY DEF If
  <2> QED
    BY <2>1, <2>2
<1> QED
  BY <1>1, <1>2, ConcatProperties

LEMMA JoinedFacts ==
  ASSUME NEW turns \in Seq(Turns), turns # <<>>, NEW part \in Parts
  PROVE  LET new == Joined(turns, part)
         IN /\ new \in Seq(Turns) /\ Len(new) = Len(turns) /\ Len(turns) \in Nat \ {0}
            /\ \A i \in 1..(Len(turns) - 1) : new[i] = turns[i]
            /\ new[Len(turns)].role = turns[Len(turns)].role
            /\ new[Len(turns)].parts = Append(turns[Len(turns)].parts, part)
<1>1. PICK n \in Nat : n = Len(turns) /\ turns \in [1..n -> Turns] /\ DOMAIN turns = 1..n /\ n # 0
  BY LenProperties, EmptySeq
<1>2. turns[n] \in Turns /\ n \in 1..n
  BY <1>1
<1>3. turns[n].parts \in Seq(Parts) /\ turns[n] = [role |-> turns[n].role, parts |-> turns[n].parts]
  BY <1>2 DEF Turns
<1>4. PICK longer : longer = Append(turns[n].parts, part)
  OBVIOUS
<1>5. longer \in Seq(Parts)
  BY <1>3, <1>4, AppendProperties
<1>6. PICK last : last = [turns[n] EXCEPT !.parts = longer]
  OBVIOUS
<1>7. last \in Turns /\ last.role = turns[n].role /\ last.parts = longer
  BY <1>2, <1>3, <1>5, <1>6 DEF Turns
<1>8. Joined(turns, part) = [turns EXCEPT ![n] = last]
  BY <1>1, <1>4, <1>6 DEF Joined
<1>9. Joined(turns, part) \in [1..n -> Turns] /\ Joined(turns, part)[n] = last
      /\ \A i \in 1..(n - 1) : Joined(turns, part)[i] = turns[i]
  <2>1. [turns EXCEPT ![n] = last] \in [1..n -> Turns] /\ [turns EXCEPT ![n] = last][n] = last
    BY <1>1, <1>2, <1>7
  <2>2. \A i \in 1..(n - 1) : i \in 1..n /\ i # n
    OBVIOUS
  <2>3. \A i \in 1..(n - 1) : [turns EXCEPT ![n] = last][i] = turns[i]
    BY <1>1, <2>2
  <2> QED
    BY <1>8, <2>1, <2>3
<1>10. Joined(turns, part) \in Seq(Turns)
  <2>1. [1..n -> Turns] \subseteq Seq(Turns)
    BY SeqDef
  <2> QED
    BY <1>9, <2>1
<1>11. Len(Joined(turns, part)) = n
  BY <1>9, <1>10, LenProperties
<1> QED
  BY <1>1, <1>4, <1>7, <1>9, <1>10, <1>11

-----------------------------------------------------------------------------
(* Anthropic *)

\* A turn of calls, of text before them.
LEMMA AskingTurn ==
  ASSUME NEW protocol, NEW m \in Messages, m.calls # <<>>,
         NEW role \in {"assistant", "model"}, NEW head \in Seq({Text, Image})
  PROVE  LET turn == Turn(role, head \o Each(CallPart, m.calls))
         IN /\ turn \in Turns /\ turn.role # "user"
            /\ CalledBy(protocol, turn) = CallKeys(protocol, m.calls)
<1> DEFINE parts == head \o Each(CallPart, m.calls)
<1>1. m.calls \in Seq(Asking)
  BY DEF Messages, Asking
<1>2. parts \in Seq(Parts) /\ Keys(protocol, OfKind(parts, "call")) = CallKeys(protocol, m.calls)
  BY <1>1, CallTurnFacts
<1> HIDE DEF parts
<1>3. /\ Turn(role, parts) \in Turns /\ Turn(role, parts).role # "user"
      /\ CalledBy(protocol, Turn(role, parts)) = CallKeys(protocol, m.calls)
  BY <1>2 DEF Turn, Turns, CalledBy
<1> QED
  BY <1>3 DEF parts

\* A turn of text and images.
LEMMA SayingTurn ==
  ASSUME NEW role \in {"system", "user", "assistant", "tool", "model"},
         NEW parts \in Seq({Text, Image})
  PROVE  Turn(role, parts) \in Turns /\ OfKind(Turn(role, parts).parts, "call") = <<>>
<1>1. parts \in Seq(Parts) /\ OfKind(parts, "call") = <<>>
  BY PlainFacts
<1> QED
  BY <1>1 DEF Turn, Turns

LEMMA ReplyingTurn ==
  ASSUME NEW part \in Parts
  PROVE  /\ Turn("user", <<part>>) \in Turns /\ Turn("user", <<part>>).role = "user"
         /\ Turn("user", <<part>>).parts = <<part>>
<1>1. <<part>> \in Seq(Parts)
  OBVIOUS
<1> QED
  BY <1>1 DEF Turn, Turns

LEMMA LastTurn ==
  ASSUME NEW turns \in Seq(Turns), turns # <<>>
  PROVE  Last(turns) = turns[Len(turns)] /\ Len(turns) \in 1..Len(turns) /\ Last(turns) \in Turns
<1>1. Len(turns) \in 1..Len(turns)
  BY LenProperties, EmptySeq
<1> QED
  BY <1>1, ElementOfSeq DEF Last

LEMMA AnthropicTurnType ==
  ASSUME NEW turns \in Seq(Turns), NEW m \in Messages
  PROVE  AnthropicTurn(turns, m) \in Seq(Turns)
<1>1. ResultPart(m) \in Parts
  BY PartFacts
<1>2. m.role \in {"system", "user", "assistant", "tool", "model"}
  BY DEF Messages
<1>3. CASE m.role = "system"
  BY <1>3 DEF AnthropicTurn
<1>4. CASE m.role = "tool" /\ turns # <<>> /\ Listed(Last(turns))
  <2>1. Joined(turns, ResultPart(m)) \in Seq(Turns)
    BY <1>1, <1>4, JoinedFacts
  <2> QED
    BY <1>4, <2>1 DEF AnthropicTurn
<1>5. CASE m.role = "tool" /\ ~(turns # <<>> /\ Listed(Last(turns)))
  <2>1. Append(turns, Turn("user", <<ResultPart(m)>>)) \in Seq(Turns)
    BY <1>1, ReplyingTurn, AppendProperties
  <2> QED
    BY <1>5, <2>1 DEF AnthropicTurn
<1>6. CASE m.role = "assistant" /\ m.calls # <<>>
  <2>1. If(m.text, <<Text>>) \in Seq({Text, Image})
    BY HeadFacts
  <2>2. Turn("assistant", If(m.text, <<Text>>) \o Each(CallPart, m.calls)) \in Turns
    BY <1>6, <2>1, AskingTurn
  <2> QED
    BY <1>6, <2>2, AppendProperties DEF AnthropicTurn
<1>7. CASE m.role \notin {"system", "tool"} /\ ~(m.role = "assistant" /\ m.calls # <<>>)
  <2>1. If(m.images, <<Image>>) \o If(m.text \/ ~m.images, <<Text>>) \in Seq({Text, Image})
    BY HeadFacts
  <2>2. Turn(m.role, If(m.images, <<Image>>) \o If(m.text \/ ~m.images, <<Text>>)) \in Turns
    BY <1>2, <2>1, SayingTurn
  <2> QED
    BY <1>7, <2>2, AppendProperties DEF AnthropicTurn
<1> QED
  BY <1>3, <1>4, <1>5, <1>6, <1>7

\* What the row says of the turns before its next result: the calls are last, or
\* the results so far are.
LEMMA RowLast ==
  ASSUME NEW protocol, NEW messages \in Seq(Messages), NEW n \in 1..Len(messages), NEW turns,
         Shape(protocol, messages, turns, n - 1), NEW a, Open(messages, a, n - 1)
  PROVE  /\ turns \in Seq(Turns) /\ turns # <<>> /\ a \in 1..(n - 1)
         /\ n - 1 = a => Last(turns).role # "user"
         /\ n - 1 # a => Last(turns).role = "user" /\ Listed(Last(turns))
<1>1. /\ Row(protocol, messages, turns, a, n - 1 - a) /\ turns \in Seq(Turns)
      /\ a \in 1..(n - 1) /\ Len(turns) \in Nat
  BY LenProperties DEF Shape, Open
<1>2. turns # <<>>
  BY <1>1, EmptySeq DEF Row, CallTurn
<1>3. Last(turns) = turns[Len(turns)]
  BY <1>1, <1>2, LastTurn
<1>4. ASSUME n - 1 = a PROVE Last(turns).role # "user"
  BY <1>1, <1>3, <1>4 DEF Row, CallTurn
<1>5. ASSUME n - 1 # a PROVE Last(turns).role = "user" /\ Listed(Last(turns))
  <2>1. /\ SoFar(protocol, Last(turns), n - 1 - a, CallKeys(protocol, messages[a].calls))
        /\ 1 \in 1..(n - 1 - a)
    BY <1>1, <1>3, <1>5 DEF Row
  <2>2. Last(turns).role = "user" /\ Last(turns).parts[1].kind = "result"
    BY <2>1 DEF SoFar
  <2>3. Last(turns).parts # <<Text>>
    BY <2>2, PartFacts
  <2> QED
    BY <2>2, <2>3 DEF Listed
<1> QED
  BY <1>1, <1>2, <1>4, <1>5

\* The first result of a row opens a user turn, and the next ones join it.
LEMMA ReplyTurns ==
  ASSUME NEW protocol, NEW messages \in Seq(Messages), Conversation(messages),
         NEW n \in 1..Len(messages), NEW turns,
         Shape(protocol, messages, turns, n - 1),
         NEW a, Open(messages, a, n - 1), n - a \in DOMAIN messages[a].calls,
         \A b : Open(messages, b, n - 1) \/ Open(messages, b, n) => b = a,
         NEW part \in Parts, part.kind = "result",
         Key(protocol, part) = CallKeys(protocol, messages[a].calls)[n - a],
         NEW new, new = IF n - 1 = a THEN Append(turns, Turn("user", <<part>>))
                        ELSE Joined(turns, part)
  PROVE  Shape(protocol, messages, new, n)
<1>1. turns \in Seq(Turns) /\ turns # <<>> /\ Len(turns) \in Nat /\ a \in 1..(n - 1)
  BY RowLast, LenProperties
<1>2. CASE n - 1 = a
  <2>1. /\ Turn("user", <<part>>) \in Turns /\ Turn("user", <<part>>).role = "user"
        /\ Turn("user", <<part>>).parts = <<part>>
    BY ReplyingTurn
  <2>2. /\ new \in Seq(Turns) /\ Len(new) = Len(turns) + 1
        /\ new[Len(turns) + 1] = Turn("user", <<part>>)
        /\ \A i \in 1..Len(turns) : new[i] = turns[i]
    BY <1>1, <1>2, <2>1, AppendProperties
  <2>3. CallTurn(turns, n - 1 - a) = Len(turns)
    BY <1>2 DEF CallTurn
  <2>4. /\ Len(new) = CallTurn(turns, n - 1 - a) + 1
        /\ \A i \in 1..CallTurn(turns, n - 1 - a) : new[i] = turns[i]
        /\ new[Len(new)].role = "user"
        /\ new[Len(new)].parts = IF n - 1 = a THEN <<part>>
                                 ELSE Append(turns[Len(turns)].parts, part)
    BY <1>2, <2>1, <2>2, <2>3
  <2>5. new \in Seq(Turns)
    BY <2>2
  <2> QED
    BY <2>4, <2>5, ReplyStep
<1>3. CASE n - 1 # a
  <2>1. /\ new \in Seq(Turns) /\ Len(new) = Len(turns) /\ Len(turns) \in Nat \ {0}
        /\ \A i \in 1..(Len(turns) - 1) : new[i] = turns[i]
        /\ new[Len(turns)].role = turns[Len(turns)].role
        /\ new[Len(turns)].parts = Append(turns[Len(turns)].parts, part)
    BY <1>1, <1>3, JoinedFacts
  <2>2. turns[Len(turns)].role = "user"
    BY <1>1, <1>3, RowLast, LastTurn
  <2>3. CallTurn(turns, n - 1 - a) = Len(turns) - 1
    BY <1>1, <1>3 DEF CallTurn
  <2>4. /\ Len(new) = CallTurn(turns, n - 1 - a) + 1
        /\ \A i \in 1..CallTurn(turns, n - 1 - a) : new[i] = turns[i]
        /\ new[Len(new)].role = "user"
        /\ new[Len(new)].parts = IF n - 1 = a THEN <<part>>
                                 ELSE Append(turns[Len(turns)].parts, part)
    <3>1. /\ Len(new) = (Len(turns) - 1) + 1 /\ new[Len(new)].role = "user"
          /\ new[Len(new)].parts = Append(turns[Len(turns)].parts, part)
      BY <2>1, <2>2
    <3> QED
      BY <1>3, <2>1, <2>3, <3>1
  <2>5. new \in Seq(Turns)
    BY <2>1
  <2> QED
    BY <2>4, <2>5, ReplyStep
<1> QED
  BY <1>2, <1>3

LEMMA AnthropicStep ==
  ASSUME NEW messages \in Seq(Messages), Conversation(messages),
         NEW n \in 1..Len(messages), NEW turns,
         Shape("anthropic", messages, turns, n - 1)
  PROVE  Shape("anthropic", messages, AnthropicTurn(turns, messages[n]), n)
<1> DEFINE m == messages[n]
           new == AnthropicTurn(turns, m)
<1>1. /\ m \in Messages /\ turns \in Seq(Turns)
      /\ m.calls # <<>> => m.role = "assistant"
      /\ m.role \in {"system", "user", "assistant", "tool", "model"}
  BY RowFacts DEF Shape, Messages
<1>2. CASE m.role = "tool"
  <2>1. PICK a \in 1..(n - 1) :
          /\ Open(messages, a, n - 1)
          /\ n - a \in DOMAIN messages[a].calls
          /\ m.answers = messages[a].calls[n - a].id
          /\ \A b : Open(messages, b, n - 1) \/ Open(messages, b, n) => b = a
    BY <1>2, RowFacts
  <2>2. ResultPart(m) \in Parts /\ ResultPart(m).kind = "result" /\ ResultPart(m).id = m.answers
    BY <1>1, PartFacts
  <2>3. Key("anthropic", ResultPart(m)) = CallKeys("anthropic", messages[a].calls)[n - a]
    BY <2>1, <2>2 DEF Key, CallKeys
  <2>4. /\ turns # <<>>
        /\ n - 1 = a => Last(turns).role # "user"
        /\ n - 1 # a => Listed(Last(turns))
    BY <2>1, RowLast
  <2>5. new = IF n - 1 = a THEN Append(turns, Turn("user", <<ResultPart(m)>>))
              ELSE Joined(turns, ResultPart(m))
    BY <1>2, <2>4 DEF AnthropicTurn, Listed
  <2> HIDE DEF new, m
  <2>6. Shape("anthropic", messages, new, n)
    BY <2>1, <2>2, <2>3, <2>5, ReplyTurns
  <2> QED
    BY <2>6 DEF new, m
<1>3. CASE m.calls # <<>>
  <2> DEFINE t == Turn("assistant", If(m.text, <<Text>>) \o Each(CallPart, m.calls))
  <2>1. If(m.text, <<Text>>) \in Seq({Text, Image})
    BY HeadFacts
  <2>2. t \in Turns /\ t.role # "user" /\ CalledBy("anthropic", t) = CallKeys("anthropic", m.calls)
    BY <1>1, <1>3, <2>1, AskingTurn
  <2>3. new = Append(turns, t)
    BY <1>1, <1>3 DEF AnthropicTurn
  <2> HIDE DEF t, new
  <2>4. Shape("anthropic", messages, Append(turns, t), n)
    BY <1>1, <1>3, <2>2, AskStep
  <2> QED
    BY <2>3, <2>4 DEF new
<1>4. CASE m.role # "tool" /\ m.calls = <<>>
  <2>1. CASE m.role = "system"
    <3>1. new = turns
      BY <2>1 DEF AnthropicTurn
    <3> HIDE DEF new
    <3>2. Shape("anthropic", messages, new, n)
      BY <1>4, <3>1, QuietStep
    <3> QED
      BY <3>2 DEF new
  <2>2. CASE m.role # "system"
    <3> DEFINE said == If(m.images, <<Image>>) \o If(m.text \/ ~m.images, <<Text>>)
    <3>1. said \in Seq({Text, Image})
      BY HeadFacts
    <3>2. new = Append(turns, Turn(m.role, said))
      BY <1>4, <2>2 DEF AnthropicTurn
    <3> HIDE DEF said, new
    <3>3. Turn(m.role, said) \in Turns /\ OfKind(Turn(m.role, said).parts, "call") = <<>>
      BY <1>1, <3>1, SayingTurn
    <3>4. Shape("anthropic", messages, new, n)
      BY <1>4, <3>2, <3>3, QuietStep
    <3> QED
      BY <3>4 DEF new
  <2> QED
    BY <2>1, <2>2
<1> QED
  BY <1>2, <1>3, <1>4

\* No turn yet.
LEMMA NoTurns ==
  ASSUME NEW protocol, NEW messages
  PROVE  Shape(protocol, messages, <<>>, 0)
<1>1. <<>> \in Seq(Turns) /\ Len(<<>>) = 0
  OBVIOUS
<1>2. \A a : ~Open(messages, a, 0)
  BY DEF Open
<1> QED
  BY <1>1, <1>2 DEF Shape

\* The turns, as they are after each message.
AnthropicWalk(messages) ==
  \E h : /\ h[0] = <<>> /\ h[Len(messages)] = AnthropicTurns(messages)
         /\ \A k \in 1..Len(messages) : h[k] = AnthropicTurn(h[k - 1], messages[k])

LEMMA AnthropicSteps ==
  ASSUME NEW messages \in Seq(Messages)
  PROVE  AnthropicWalk(messages)
<1> DEFINE Step(x, k) == AnthropicTurn(x, messages[k])
           Iter(g) == g = [k \in 0..Len(messages) |-> IF k = 0 THEN <<>> ELSE Step(g[k - 1], k)]
           iter == CHOOSE g : Iter(g)
<1>0. PICK n \in Nat : n = Len(messages)
  BY LenProperties
<1>1. AnthropicTurns(messages) = iter[n]
  BY <1>0 DEF AnthropicTurns
<1>2. \E g : Iter(g)
  <2> DEFINE step == [k \in 1..n |-> [x \in Seq(Turns) |-> Step(x, k)]]
  <2>1. ASSUME NEW k \in 1..n, NEW x \in Seq(Turns) PROVE step[k][x] \in Seq(Turns)
    <3>1. messages[k] \in Messages
      BY <1>0, ElementOfSeq
    <3>2. Step(x, k) \in Seq(Turns)
      BY <3>1, AnthropicTurnType
    <3> HIDE DEF Step
    <3> QED
      BY <3>2
  <2>2. <<>> \in Seq(Turns)
    OBVIOUS
  <2>3. PICK g \in [0..n -> Seq(Turns)] : Runs(g, n, <<>>, step)
    <3> HIDE DEF step
    <3> QED
      BY <2>1, <2>2, RunExists
  <2>4. ASSUME NEW k \in 0..n, k # 0 PROVE step[k][g[k - 1]] = Step(g[k - 1], k)
    <3>1. k \in 1..n /\ g[k - 1] \in Seq(Turns)
      BY <2>4
    <3> HIDE DEF Step
    <3> QED
      BY <3>1
  <2> HIDE DEF Step, step
  <2>5. g = [k \in 0..n |-> IF k = 0 THEN <<>> ELSE Step(g[k - 1], k)]
    BY <2>3, <2>4 DEF Runs
  <2> QED
    BY <1>0, <2>5
<1>3. Iter(iter)
  <2> HIDE DEF Iter
  <2> QED
    BY <1>2
<1> HIDE DEF iter, Step
<1>4. iter[0] = <<>>
  BY <1>0, <1>3
<1>5. \A k \in 1..n : iter[k] = Step(iter[k - 1], k)
  BY <1>0, <1>3
<1> QED
  BY <1>0, <1>1, <1>4, <1>5 DEF Step, AnthropicWalk

\* Once a conversation ends, its calls are answered.
LEMMA ShapeFollows ==
  ASSUME NEW protocol, protocol # "openai",
         NEW messages \in Seq(Messages), Conversation(messages), NEW turns,
         Shape(protocol, messages, turns, Len(messages))
  PROVE  AnswersFollow(protocol, turns)
<1>1. turns \in Seq(Turns) /\ DOMAIN turns = 1..Len(turns)
  BY LenProperties DEF Shape
<1>2. \A i \in 1..Len(turns) : Settled(protocol, turns, i)
  BY NoneOpen DEF Shape
<1> QED
  BY <1>1, <1>2 DEF AnswersFollow, Settled, AnsweredBy, CalledBy

LEMMA AnthropicAnswers ==
  ASSUME NEW messages \in Seq(Messages), Conversation(messages)
  PROVE  AnswersFollow("anthropic", AnthropicTurns(messages))
<1>1. PICK n \in Nat : n = Len(messages)
  BY LenProperties
<1>2. PICK h : /\ h[0] = <<>> /\ h[n] = AnthropicTurns(messages)
               /\ \A k \in 1..n : h[k] = AnthropicTurn(h[k - 1], messages[k])
  BY <1>1, AnthropicSteps DEF AnthropicWalk
<1> DEFINE P == {k \in 0..n : Shape("anthropic", messages, h[k], k)}
<1>3. 0 \in P
  BY <1>2, NoTurns
<1>4. ASSUME NEW k \in 1..n, k - 1 \in P PROVE k \in P
  <2>1. Shape("anthropic", messages, h[k - 1], k - 1) /\ k \in 1..Len(messages)
    BY <1>1, <1>4
  <2>2. Shape("anthropic", messages, AnthropicTurn(h[k - 1], messages[k]), k)
    BY <2>1, AnthropicStep
  <2> QED
    BY <1>2, <2>2
<1>5. n \in P
  <2>1. P \in SUBSET (0..n) /\ n \in 0..n
    OBVIOUS
  <2> HIDE DEF P
  <2> QED
    BY <1>3, <1>4, <2>1, Climb
<1> QED
  BY <1>1, <1>2, <1>5, ShapeFollows

-----------------------------------------------------------------------------
(* OpenAI *)

LEMMA OpenAiAnswers ==
  ASSUME NEW messages \in Seq(Messages), Conversation(messages),
         NEW first, first = <<>> \/ first = <<Turn("system", <<Text>>)>>
  PROVE  AnswersFollow("openai", first \o OpenAiTurns(messages))
<1> DEFINE later == OpenAiTurns(messages)
           turns == first \o later
<1>1. PICK n \in Nat : /\ n = Len(messages) /\ DOMAIN messages = 1..n
                       /\ \A i \in 1..n : messages[i] \in Messages
  BY LenProperties, ElementOfSeq
<1>2. later = [i \in 1..n |-> OpenAiTurn(messages[i])]
  BY <1>1 DEF OpenAiTurns, Each
<1>3. ASSUME NEW m \in Messages, m.calls # <<>>, m.role = "assistant"
      PROVE  /\ OpenAiTurn(m) \in Turns
             /\ Keys("openai", OfKind(OpenAiTurn(m).parts, "call")) = CallKeys("openai", m.calls)
             /\ DOMAIN OfKind(OpenAiTurn(m).parts, "call") = DOMAIN m.calls
  <2>1. If(m.text, <<Text>>) \in Seq({Text, Image}) /\ m.calls \in Seq(Asking)
    BY HeadFacts DEF Messages, Asking
  <2> DEFINE parts == If(m.text, <<Text>>) \o Each(CallPart, m.calls)
  <2>2. /\ parts \in Seq(Parts) /\ Keys("openai", OfKind(parts, "call")) = CallKeys("openai", m.calls)
        /\ DOMAIN OfKind(parts, "call") = DOMAIN m.calls
    BY <2>1, CallTurnFacts
  <2> HIDE DEF parts
  <2>3. OpenAiTurn(m) = Turn("assistant", parts)
    BY <1>3 DEF OpenAiTurn, parts
  <2> QED
    BY <2>2, <2>3 DEF Turn, Turns
<1>4. ASSUME NEW m \in Messages, m.calls = <<>>, m.role # "tool"
      PROVE  OpenAiTurn(m) \in Turns /\ OfKind(OpenAiTurn(m).parts, "call") = <<>>
  <2> DEFINE said == If(m.text, <<Text>>) \o If(m.images, <<Image>>)
  <2>1. said \in Seq({Text, Image}) /\ m.role \in {"system", "user", "assistant", "tool", "model"}
    BY HeadFacts DEF Messages
  <2>2. OpenAiTurn(m) = Turn(m.role, said)
    BY <1>4 DEF OpenAiTurn
  <2> HIDE DEF said
  <2> QED
    BY <2>1, <2>2, SayingTurn
<1>5. ASSUME NEW m \in Messages, m.role = "tool", m.calls = <<>>
      PROVE  /\ OpenAiTurn(m) \in Turns /\ OpenAiTurn(m).role = "tool"
             /\ OfKind(OpenAiTurn(m).parts, "call") = <<>>
             /\ OpenAiTurn(m).parts[1].id = m.answers
  <2>1. ResultPart(m) \in Parts /\ ResultPart(m).kind = "result" /\ ResultPart(m).id = m.answers
    BY PartFacts
  <2> DEFINE parts == <<ResultPart(m)>>
  <2>2. OpenAiTurn(m) = Turn("tool", parts)
    BY <1>5 DEF OpenAiTurn
  <2>3. parts \in Seq(Parts) /\ DOMAIN parts = 1..1 /\ parts[1] = ResultPart(m)
    BY <2>1
  <2> HIDE DEF parts
  <2>4. (\A i \in DOMAIN parts : parts[i].kind # "call") => OfKind(parts, "call") = <<>>
    BY <2>3, UniformFacts
  <2>5. OfKind(parts, "call") = <<>>
    BY <2>1, <2>3, <2>4
  <2> QED
    BY <2>1, <2>2, <2>3, <2>5 DEF Turn, Turns
<1>6. /\ \A i \in 1..n : later[i] = OpenAiTurn(messages[i])
      /\ later \in Seq(Turns) /\ Len(later) = n
      /\ \A i \in 1..n : messages[i].calls # <<>> => messages[i].role = "assistant"
  <2>1. \A i \in 1..n : messages[i].calls # <<>> => messages[i].role = "assistant"
    BY <1>1 DEF Conversation
  <2>2. \A i \in 1..n : OpenAiTurn(messages[i]) \in Turns
    BY <1>1, <1>3, <1>4, <1>5, <2>1
  <2>3. later \in [1..n -> Turns] /\ DOMAIN later = 1..n
    BY <1>2, <2>2
  <2>4. [1..n -> Turns] \subseteq Seq(Turns)
    BY SeqDef
  <2> HIDE DEF later
  <2> QED
    BY <1>2, <2>1, <2>3, <2>4, LenProperties
<1>7. PICK o \in {0, 1} : /\ first \in Seq(Turns) /\ Len(first) = o
                          /\ \A i \in 1..o : OfKind(first[i].parts, "call") = <<>>
  <2>1. <<Text>> \in Seq({Text, Image})
    OBVIOUS
  <2>2. /\ Turn("system", <<Text>>) \in Turns
        /\ OfKind(Turn("system", <<Text>>).parts, "call") = <<>>
    BY <2>1, SayingTurn
  <2>3. CASE first = <<>>
    BY <2>3
  <2>4. CASE first = <<Turn("system", <<Text>>)>>
    <3>1. first \in Seq(Turns) /\ Len(first) = 1 /\ first[1] = Turn("system", <<Text>>)
      BY <2>2, <2>4
    <3>2. \A i \in 1..1 : OfKind(first[i].parts, "call") = <<>>
      BY <2>2, <3>1
    <3> QED
      BY <3>1, <3>2
  <2> QED
    BY <2>3, <2>4
<1> HIDE DEF later
<1>8. /\ DOMAIN turns = 1..(o + n) /\ Len(turns) = o + n
      /\ \A i \in 1..o : turns[i] = first[i]
      /\ \A i \in 1..n : turns[o + i] = later[i]
  <2>1. /\ turns \in Seq(Turns) /\ Len(turns) = o + n
        /\ \A i \in 1..(o + n) : turns[i] = IF i <= o THEN first[i] ELSE later[i - o]
    <3>1. /\ first \o later \in Seq(Turns) /\ Len(first \o later) = Len(first) + Len(later)
          /\ \A i \in 1..(Len(first) + Len(later)) :
               (first \o later)[i] = IF i <= Len(first) THEN first[i] ELSE later[i - Len(first)]
      BY <1>6, <1>7, ConcatProperties
    <3> QED
      BY <1>6, <1>7, <3>1
  <2> HIDE DEF turns
  <2>2. DOMAIN turns = 1..(o + n)
    BY <2>1, LenProperties
  <2>3. \A i \in 1..o : i \in 1..(o + n) /\ i <= o
    OBVIOUS
  <2>4. \A i \in 1..n : o + i \in 1..(o + n) /\ ~(o + i <= o) /\ (o + i) - o = i
    OBVIOUS
  <2> QED
    BY <2>1, <2>2, <2>3, <2>4
<1> HIDE DEF turns
<1> DEFINE Asks(i) == OfKind(turns[i].parts, "call")
           Reply(i, k) == IF i + k <= Len(turns) /\ turns[i + k].role = "tool"
                          THEN Key("openai", turns[i + k].parts[1]) ELSE "missing"
<1>9. ASSUME NEW i \in 1..(o + n), Asks(i) # <<>>
      PROVE  [k \in DOMAIN Asks(i) |-> Reply(i, k)] = Keys("openai", Asks(i))
  <2>1. i \notin 1..o
    BY <1>7, <1>8, <1>9
  <2>2. PICK j \in 1..n : i = o + j
    <3>1. i - o \in 1..n /\ i = o + (i - o)
      BY <2>1
    <3> QED
      BY <3>1
  <2> DEFINE m == messages[j]
  <2>3. m \in Messages /\ turns[i] = OpenAiTurn(m)
    BY <1>1, <1>6, <1>8, <2>2
  <2>4. m.calls # <<>> /\ m.role = "assistant"
    BY <1>4, <1>5, <1>6, <1>9, <2>3
  <2>5. Keys("openai", Asks(i)) = CallKeys("openai", m.calls) /\ DOMAIN Asks(i) = DOMAIN m.calls
    BY <1>3, <2>3, <2>4
  <2>6. ASSUME NEW k \in DOMAIN m.calls PROVE Reply(i, k) = CallKeys("openai", m.calls)[k]
    <3>1. /\ j + k \in 1..n /\ messages[j + k].role = "tool"
          /\ messages[j + k].answers = m.calls[k].id
      BY <1>1, <2>6 DEF Conversation
    <3>2. PICK r \in 1..n : r = j + k
      BY <3>1
    <3>3. messages[r] \in Messages /\ messages[r].calls = <<>>
      BY <1>1, <1>6, <3>1, <3>2
    <3>4. turns[o + r] = OpenAiTurn(messages[r])
      BY <1>6, <1>8
    <3>5. turns[o + r].role = "tool" /\ turns[o + r].parts[1].id = m.calls[k].id
      BY <1>5, <3>1, <3>2, <3>3, <3>4
    <3>6. i + k = o + r
      <4>1. m.calls \in Seq(Asking)
        BY <2>3 DEF Messages, Asking
      <4>2. k \in Nat
        BY <4>1, LenProperties
      <4> QED
        BY <2>2, <3>2, <4>2
    <3>7. o + r <= Len(turns)
      BY <1>8
    <3> QED
      BY <3>5, <3>6, <3>7 DEF Key, CallKeys
  <2> QED
    BY <2>5, <2>6 DEF CallKeys
<1>10. AnswersFollow("openai", turns)
  BY <1>8, <1>9 DEF AnswersFollow
<1> QED
  BY <1>10 DEF turns, later

-----------------------------------------------------------------------------
(* Gemini *)

Names == UNION {[D -> STRING] : D \in SUBSET STRING}

\* There is a last call with an id.
LEMMA LatestCall ==
  ASSUME NEW calls \in Seq(Asking), NEW id, NEW some \in DOMAIN calls, calls[some].id = id
  PROVE  \E i \in DOMAIN calls :
           /\ calls[i].id = id
           /\ \A j \in DOMAIN calls : calls[j].id = id => j <= i
<1>1. PICK n \in Nat : DOMAIN calls = 1..n
  BY LenProperties
<1> DEFINE S == {i \in 1..n : calls[i].id = id}
           P == {k \in 0..n : \E j \in S : j >= k}
<1>2. SUFFICES ASSUME \A i \in S : \E j \in S : ~(j <= i) PROVE FALSE
  BY <1>1
<1>3. 0 \in P
  BY <1>1
<1>4. ASSUME NEW k \in 1..n, k - 1 \in P PROVE k \in P
  <2>1. PICK j \in S : j >= k - 1
    BY <1>4
  <2>2. PICK i \in S : ~(i <= j)
    BY <1>2
  <2>3. i >= k
    BY <2>1, <2>2
  <2> QED
    BY <2>2, <2>3
<1>5. n \in P
  <2>1. P \in SUBSET (0..n) /\ n \in 0..n
    OBVIOUS
  <2> HIDE DEF P
  <2> QED
    BY <1>3, <1>4, <2>1, Climb
<1>6. PICK j \in S : j >= n
  BY <1>5
<1>7. PICK i \in S : ~(i <= j)
  BY <1>2
<1> QED
  BY <1>6, <1>7

\* The calls so far name their tools, where those of one id are calls of one tool.
LEMMA NamedFacts ==
  ASSUME NEW names \in Names, NEW calls \in Seq(Asking)
  PROVE  /\ Named(names, calls) \in Names
         /\ \A k \in DOMAIN calls :
              (\A j \in DOMAIN calls : calls[j].id = calls[k].id => calls[j].name = calls[k].name)
                => NameOf(Named(names, calls), calls[k].id) = calls[k].name
<1> DEFINE Made(id) == \E i \in DOMAIN calls : calls[i].id = id
           Latest(id) == CHOOSE i \in DOMAIN calls :
                           /\ calls[i].id = id
                           /\ \A j \in DOMAIN calls : calls[j].id = id => j <= i
           D == DOMAIN names \cup {calls[i].id : i \in DOMAIN calls}
<1>1. \A i \in DOMAIN calls : calls[i] \in Asking /\ calls[i].id \in STRING /\ calls[i].name \in STRING
  <2>1. \A i \in DOMAIN calls : calls[i] \in Asking
    BY LenProperties, ElementOfSeq
  <2> QED
    BY <2>1 DEF Asking
<1>2. ASSUME NEW id, Made(id) PROVE Latest(id) \in DOMAIN calls /\ calls[Latest(id)].id = id
  BY <1>2, LatestCall
<1>3. Named(names, calls) = [id \in D |-> IF Made(id) THEN calls[Latest(id)].name ELSE names[id]]
  BY DEF Named
<1>4. PICK E \in SUBSET STRING : names \in [E -> STRING]
  BY DEF Names
<1>5. D \in SUBSET STRING /\ \A id \in D : Made(id) \/ id \in E
  BY <1>1, <1>4
<1> HIDE DEF Latest, D
<1>6. Named(names, calls) \in [D -> STRING]
  <2>1. ASSUME NEW id \in D
        PROVE  (IF Made(id) THEN calls[Latest(id)].name ELSE names[id]) \in STRING
    <3>1. CASE Made(id)
      BY <1>1, <1>2, <3>1
    <3>2. CASE ~Made(id)
      BY <1>4, <1>5, <3>2
    <3> QED
      BY <3>1, <3>2
  <2> HIDE DEF Made
  <2> QED
    BY <1>3, <2>1
<1>7. ASSUME NEW k \in DOMAIN calls,
             \A j \in DOMAIN calls : calls[j].id = calls[k].id => calls[j].name = calls[k].name
      PROVE  NameOf(Named(names, calls), calls[k].id) = calls[k].name
  <2>1. calls[k].id \in D /\ Made(calls[k].id)
    BY DEF D
  <2>2. PICK i \in DOMAIN calls : i = Latest(calls[k].id) /\ calls[i].id = calls[k].id
    BY <1>2, <2>1
  <2>3. Named(names, calls)[calls[k].id] = calls[i].name
    <3> HIDE DEF Made
    <3> QED
      BY <1>3, <2>1, <2>2
  <2>4. DOMAIN Named(names, calls) = D
    BY <1>6
  <2> QED
    BY <1>7, <2>1, <2>2, <2>3, <2>4 DEF NameOf
<1>8. Named(names, calls) \in Names
  BY <1>5, <1>6 DEF Names
<1> QED
  BY <1>7, <1>8

LEMMA NameFacts ==
  ASSUME NEW names \in Names, NEW id \in STRING
  PROVE  NameOf(names, id) \in STRING
<1>1. PICK E \in SUBSET STRING : names \in [E -> STRING]
  BY DEF Names
<1> QED
  BY <1>1 DEF NameOf

\* A result by the name of its call.
NamedResult(names, m) == Part("result", None, NameOf(names, m.answers), m.error)

LEMMA NamedResultFacts ==
  ASSUME NEW names \in Names, NEW m \in Messages
  PROVE  /\ NamedResult(names, m) \in Parts /\ NamedResult(names, m).kind = "result"
         /\ Key("gemini", NamedResult(names, m)) = NameOf(names, m.answers)
<1>1. m.answers \in STRING /\ m.error \in BOOLEAN
  BY DEF Messages
<1>2. NameOf(names, m.answers) \in STRING
  BY <1>1, NameFacts
<1> QED
  BY <1>1, <1>2 DEF NamedResult, Part, Parts, Key

Accumulated == [names : Names, turns : Seq(Turns)]

\* The turn of a message that is no result.
Told(m) ==
  Turn(IF m.role = "assistant" THEN "model" ELSE "user",
       If(m.text, <<Text>>) \o If(m.images, <<Image>>) \o Each(CallPart, m.calls))

LEMMA ToldFacts ==
  ASSUME NEW m \in Messages, m.calls # <<>> => m.role = "assistant"
  PROVE  /\ Told(m) \in Turns
         /\ m.calls = <<>> => OfKind(Told(m).parts, "call") = <<>>
         /\ m.calls # <<>> => /\ Told(m).role # "user"
                              /\ CalledBy("gemini", Told(m)) = CallKeys("gemini", m.calls)
<1> DEFINE head == If(m.text, <<Text>>) \o If(m.images, <<Image>>)
           parts == head \o Each(CallPart, m.calls)
           role == IF m.role = "assistant" THEN "model" ELSE "user"
<1>1. head \in Seq({Text, Image}) /\ m.calls \in Seq(Asking)
  BY HeadFacts DEF Messages, Asking
<1>2. /\ parts \in Seq(Parts)
      /\ Keys("gemini", OfKind(parts, "call")) = CallKeys("gemini", m.calls)
      /\ OfKind(parts, "call") = <<>> <=> m.calls = <<>>
  <2> HIDE DEF head
  <2> QED
    BY <1>1, CallTurnFacts
<1>3. Told(m) = Turn(role, parts) /\ role \in {"model", "user"}
  BY DEF Told
<1>4. m.calls # <<>> => role # "user"
  OBVIOUS
<1> HIDE DEF parts, role
<1> QED
  BY <1>2, <1>3, <1>4 DEF Turn, Turns, CalledBy

LEMMA GeminiTurnMeans ==
  ASSUME NEW acc \in Accumulated, NEW m \in Messages
  PROVE  /\ m.role = "system" => GeminiTurn(acc, m) = acc
         /\ m.role = "tool" /\ acc.turns # <<>> /\ Last(acc.turns).role = "user" =>
              GeminiTurn(acc, m) = [names |-> acc.names,
                                    turns |-> Joined(acc.turns, NamedResult(acc.names, m))]
         /\ m.role = "tool" /\ ~(acc.turns # <<>> /\ Last(acc.turns).role = "user") =>
              GeminiTurn(acc, m) = [names |-> acc.names,
                turns |-> Append(acc.turns, Turn("user", <<NamedResult(acc.names, m)>>))]
         /\ m.role \notin {"system", "tool"} =>
              GeminiTurn(acc, m) = [names |-> Named(acc.names, m.calls),
                                    turns |-> Append(acc.turns, Told(m))]
  BY DEF GeminiTurn, Accumulated, NamedResult, Told

LEMMA GeminiTurnType ==
  ASSUME NEW acc \in Accumulated, NEW m \in Messages, m.calls # <<>> => m.role = "assistant"
  PROVE  GeminiTurn(acc, m) \in Accumulated
<1>1. /\ NamedResult(acc.names, m) \in Parts /\ acc.names \in Names /\ acc.turns \in Seq(Turns)
      /\ m.calls \in Seq(Asking)
  BY NamedResultFacts DEF Accumulated, Messages, Asking
<1>2. CASE m.role = "system"
  BY <1>2, GeminiTurnMeans
<1>3. CASE m.role = "tool" /\ acc.turns # <<>> /\ Last(acc.turns).role = "user"
  <2>1. Joined(acc.turns, NamedResult(acc.names, m)) \in Seq(Turns)
    BY <1>1, <1>3, JoinedFacts
  <2> QED
    <3>1. GeminiTurn(acc, m) = [names |-> acc.names,
                                turns |-> Joined(acc.turns, NamedResult(acc.names, m))]
      BY <1>3, GeminiTurnMeans
    <3> QED
      BY <1>1, <2>1, <3>1 DEF Accumulated
<1>4. CASE m.role = "tool" /\ ~(acc.turns # <<>> /\ Last(acc.turns).role = "user")
  <2>1. Append(acc.turns, Turn("user", <<NamedResult(acc.names, m)>>)) \in Seq(Turns)
    BY <1>1, ReplyingTurn, AppendProperties
  <2> QED
    <3>1. GeminiTurn(acc, m) = [names |-> acc.names,
            turns |-> Append(acc.turns, Turn("user", <<NamedResult(acc.names, m)>>))]
      BY <1>4, GeminiTurnMeans
    <3> QED
      BY <1>1, <2>1, <3>1 DEF Accumulated
<1>5. CASE m.role \notin {"system", "tool"}
  <2>1. Append(acc.turns, Told(m)) \in Seq(Turns) /\ Named(acc.names, m.calls) \in Names
    BY <1>1, ToldFacts, NamedFacts, AppendProperties
  <2> QED
    <3>1. GeminiTurn(acc, m) = [names |-> Named(acc.names, m.calls),
                                turns |-> Append(acc.turns, Told(m))]
      BY <1>5, GeminiTurnMeans
    <3> QED
      BY <2>1, <3>1 DEF Accumulated
<1> QED
  BY <1>2, <1>3, <1>4, <1>5

\* While calls are open, their ids name their tools.
NamesOpen(messages, names, n) ==
  \A a : Open(messages, a, n) =>
    \A j \in DOMAIN messages[a].calls :
      NameOf(names, messages[a].calls[j].id) = messages[a].calls[j].name

LEMMA GeminiStep ==
  ASSUME NEW messages \in Seq(Messages), Conversation(messages),
         NEW n \in 1..Len(messages), NEW acc \in Accumulated,
         Shape("gemini", messages, acc.turns, n - 1), NamesOpen(messages, acc.names, n - 1)
  PROVE  /\ Shape("gemini", messages, GeminiTurn(acc, messages[n]).turns, n)
         /\ NamesOpen(messages, GeminiTurn(acc, messages[n]).names, n)
<1> DEFINE m == messages[n]
           turns == acc.turns
           new == GeminiTurn(acc, m)
<1>1. /\ m \in Messages /\ turns \in Seq(Turns) /\ acc.names \in Names
      /\ m.calls # <<>> => m.role = "assistant"
      /\ m.calls \in Seq(Asking) /\ n \in DOMAIN messages
  <2>1. m \in Messages /\ (m.calls # <<>> => m.role = "assistant")
    BY RowFacts
  <2> QED
    BY <2>1, LenProperties DEF Accumulated, Messages, Asking
<1>2. CASE m.role = "tool"
  <2>1. PICK a \in 1..(n - 1) :
          /\ Open(messages, a, n - 1)
          /\ n - a \in DOMAIN messages[a].calls
          /\ m.answers = messages[a].calls[n - a].id
          /\ \A b : Open(messages, b, n - 1) \/ Open(messages, b, n) => b = a
    BY <1>2, RowFacts
  <2> DEFINE part == NamedResult(acc.names, m)
  <2>2. /\ part \in Parts /\ part.kind = "result"
        /\ Key("gemini", part) = NameOf(acc.names, m.answers)
    BY <1>1, NamedResultFacts
  <2>3. Key("gemini", part) = CallKeys("gemini", messages[a].calls)[n - a]
    BY <2>1, <2>2 DEF NamesOpen, CallKeys
  <2>4. /\ turns # <<>>
        /\ n - 1 = a => Last(turns).role # "user"
        /\ n - 1 # a => Last(turns).role = "user"
    BY <2>1, RowLast
  <2>5. /\ new.names = acc.names
        /\ new.turns = IF n - 1 = a THEN Append(turns, Turn("user", <<part>>))
                       ELSE Joined(turns, part)
    <3>1. CASE n - 1 = a
      <4>1. new = [names |-> acc.names, turns |-> Append(turns, Turn("user", <<part>>))]
        BY <1>1, <1>2, <2>4, <3>1, GeminiTurnMeans
      <4> QED
        BY <3>1, <4>1
    <3>2. CASE n - 1 # a
      <4>1. new = [names |-> acc.names, turns |-> Joined(turns, part)]
        BY <1>1, <1>2, <2>4, <3>2, GeminiTurnMeans
      <4> QED
        BY <3>2, <4>1
    <3> QED
      BY <3>1, <3>2
  <2>6. NamesOpen(messages, new.names, n)
    <3>1. \A b : Open(messages, b, n) => b = a
      BY <2>1
    <3> HIDE DEF new, m
    <3> QED
      BY <2>1, <2>5, <3>1 DEF NamesOpen
  <2>7. Shape("gemini", messages, new.turns, n)
    <3> HIDE DEF new, m, part
    <3>1. Shape("gemini", messages, turns, n - 1)
      OBVIOUS
    <3> HIDE DEF turns
    <3> QED
      BY <2>1, <2>2, <2>3, <2>5, <3>1, ReplyTurns
  <2> QED
    BY <2>6, <2>7
<1>3. CASE m.calls # <<>>
  <2>1. new = [names |-> Named(acc.names, m.calls), turns |-> Append(turns, Told(m))]
    BY <1>1, <1>3, GeminiTurnMeans
  <2>2. /\ Told(m) \in Turns /\ Told(m).role # "user"
        /\ CalledBy("gemini", Told(m)) = CallKeys("gemini", m.calls)
    BY <1>1, <1>3, ToldFacts
  <2>3. Shape("gemini", messages, Append(turns, Told(m)), n)
    BY <1>1, <1>3, <2>2, AskStep
  <2>4. \A j \in DOMAIN m.calls : NameOf(Named(acc.names, m.calls), m.calls[j].id) = m.calls[j].name
    <3>1. \A k \in DOMAIN m.calls :
            \A j \in DOMAIN m.calls : m.calls[j].id = m.calls[k].id => m.calls[j].name = m.calls[k].name
      BY <1>1 DEF Conversation
    <3> HIDE DEF m
    <3> QED
      BY <1>1, <3>1, NamedFacts
  <2>5. \A a : Open(messages, a, n) => a = n
    <3>1. m.role # "tool"
      BY <1>1, <1>3
    <3> QED
      BY <3>1, RowFacts
  <2>6. NamesOpen(messages, Named(acc.names, m.calls), n)
    BY <2>4, <2>5 DEF NamesOpen
  <2> HIDE DEF m, turns
  <2> QED
    BY <2>1, <2>3, <2>6 DEF m
<1>4. CASE m.role # "tool" /\ m.calls = <<>>
  <2>1. \A a : ~Open(messages, a, n)
    <3>1. ASSUME NEW a, Open(messages, a, n) PROVE FALSE
      <4>1. a # n
        BY <1>4, <3>1 DEF Open
      <4> QED
        BY <1>4, <3>1, <4>1, RowFacts
    <3> QED
      BY <3>1
  <2>2. NamesOpen(messages, new.names, n)
    BY <2>1 DEF NamesOpen
  <2>3. Shape("gemini", messages, new.turns, n)
    <3>1. CASE m.role = "system"
      <4>1. new.turns = turns
        BY <1>1, <3>1, GeminiTurnMeans
      <4> HIDE DEF new, turns
      <4>2. Shape("gemini", messages, turns, n - 1)
        BY DEF turns
      <4> QED
        BY <1>4, <4>1, <4>2, QuietStep
    <3>2. CASE m.role # "system"
      <4>1. new = [names |-> Named(acc.names, m.calls), turns |-> Append(turns, Told(m))]
        BY <1>1, <1>4, <3>2, GeminiTurnMeans
      <4>2. new.turns = Append(turns, Told(m))
        BY <4>1
      <4>3. Told(m) \in Turns /\ OfKind(Told(m).parts, "call") = <<>>
        BY <1>1, <1>4, ToldFacts
      <4> HIDE DEF new, turns
      <4>4. Shape("gemini", messages, turns, n - 1)
        BY DEF turns
      <4> QED
        BY <1>4, <4>2, <4>3, <4>4, QuietStep
    <3> QED
      BY <3>1, <3>2
  <2> QED
    BY <2>2, <2>3
<1> QED
  BY <1>2, <1>3, <1>4

\* The turns and names, as they are after each message.
GeminiWalk(messages) ==
  \E h : /\ h[0] = [names |-> <<>>, turns |-> <<>>]
         /\ h[Len(messages)].turns = GeminiTurns(messages)
         /\ \A k \in 0..Len(messages) : h[k] \in Accumulated
         /\ \A k \in 1..Len(messages) : h[k] = GeminiTurn(h[k - 1], messages[k])

LEMMA GeminiSteps ==
  ASSUME NEW messages \in Seq(Messages), Conversation(messages)
  PROVE  GeminiWalk(messages)
<1> DEFINE base == [names |-> <<>>, turns |-> <<>>]
           Step(x, k) == GeminiTurn(x, messages[k])
           Iter(g) == g = [k \in 0..Len(messages) |-> IF k = 0 THEN base ELSE Step(g[k - 1], k)]
           iter == CHOOSE g : Iter(g)
<1>0. PICK n \in Nat : n = Len(messages)
  BY LenProperties
<1>1. GeminiTurns(messages) = iter[n].turns
  BY <1>0 DEF GeminiTurns
<1> DEFINE step == [k \in 1..n |-> [x \in Accumulated |-> Step(x, k)]]
<1>a. ASSUME NEW k \in 1..n, NEW x \in Accumulated PROVE Step(x, k) \in Accumulated
  <2>1. messages[k] \in Messages /\ (messages[k].calls # <<>> => messages[k].role = "assistant")
    BY <1>0, RowFacts
  <2> QED
    BY <2>1, GeminiTurnType
<1>b. ASSUME NEW k \in 1..n, NEW x \in Accumulated
      PROVE  step[k][x] = Step(x, k) /\ step[k][x] \in Accumulated
  <2>1. Step(x, k) \in Accumulated
    BY <1>a
  <2> HIDE DEF Step
  <2> QED
    BY <2>1
<1>c. base \in Accumulated
  <2>1. <<>> \in [{} -> STRING] /\ <<>> \in Seq(Turns)
    OBVIOUS
  <2>2. <<>> \in Names
    BY <2>1 DEF Names
  <2> QED
    BY <2>1, <2>2 DEF Accumulated
<1> HIDE DEF Step, base
<1>2. \E g : Iter(g)
  <2>3. PICK g \in [0..n -> Accumulated] : Runs(g, n, base, step)
    <3> HIDE DEF step
    <3> QED
      BY <1>b, <1>c, RunExists
  <2>4. ASSUME NEW k \in 0..n, k # 0 PROVE step[k][g[k - 1]] = Step(g[k - 1], k)
    <3>1. k \in 1..n /\ g[k - 1] \in Accumulated
      BY <2>4
    <3> HIDE DEF step
    <3> QED
      BY <1>b, <3>1
  <2> HIDE DEF step
  <2>5. g = [k \in 0..n |-> IF k = 0 THEN base ELSE Step(g[k - 1], k)]
    BY <2>3, <2>4 DEF Runs
  <2> QED
    BY <1>0, <2>5
<1>3. Iter(iter)
  <2> HIDE DEF Iter
  <2> QED
    BY <1>2
<1> HIDE DEF iter, step
<1>4. iter[0] = base
  BY <1>0, <1>3
<1>5. \A k \in 1..n : iter[k] = Step(iter[k - 1], k)
  BY <1>0, <1>3
<1>6. \A k \in 0..n : iter[k] \in Accumulated
  <2> DEFINE P == {k \in 0..n : iter[k] \in Accumulated}
  <2>1. 0 \in P
    BY <1>c, <1>4
  <2>2. ASSUME NEW k \in 1..n, k - 1 \in P PROVE k \in P
    BY <1>5, <1>a, <2>2
  <2>3. P \in SUBSET (0..n)
    OBVIOUS
  <2>4. P = 0..n
    <3> HIDE DEF P
    <3> QED
      BY <2>1, <2>2, <2>3, Climb
  <2> QED
    BY <2>4
<1> QED
  BY <1>0, <1>1, <1>4, <1>5, <1>6 DEF Step, base, GeminiWalk

LEMMA GeminiAnswers ==
  ASSUME NEW messages \in Seq(Messages), Conversation(messages)
  PROVE  AnswersFollow("gemini", GeminiTurns(messages))
<1>1. PICK n \in Nat : n = Len(messages)
  BY LenProperties
<1>2. PICK h : /\ h[0] = [names |-> <<>>, turns |-> <<>>] /\ h[n].turns = GeminiTurns(messages)
               /\ \A k \in 0..n : h[k] \in Accumulated
               /\ \A k \in 1..n : h[k] = GeminiTurn(h[k - 1], messages[k])
  BY <1>1, GeminiSteps DEF GeminiWalk
<1> DEFINE P == {k \in 0..n : /\ Shape("gemini", messages, h[k].turns, k)
                              /\ NamesOpen(messages, h[k].names, k)}
<1>3. 0 \in P
  <2>1. h[0].turns = <<>> /\ 0 \in 0..n
    BY <1>2
  <2>2. NamesOpen(messages, h[0].names, 0)
    BY DEF NamesOpen, Open
  <2> QED
    BY <2>1, <2>2, NoTurns
<1>4. ASSUME NEW k \in 1..n, k - 1 \in P PROVE k \in P
  <2>1. /\ Shape("gemini", messages, h[k - 1].turns, k - 1)
        /\ NamesOpen(messages, h[k - 1].names, k - 1) /\ k \in 1..Len(messages)
        /\ h[k - 1] \in Accumulated
    BY <1>1, <1>2, <1>4
  <2>2. /\ Shape("gemini", messages, GeminiTurn(h[k - 1], messages[k]).turns, k)
        /\ NamesOpen(messages, GeminiTurn(h[k - 1], messages[k]).names, k)
    BY <2>1, GeminiStep
  <2> QED
    BY <1>2, <2>2
<1>5. n \in P
  <2>1. P \in SUBSET (0..n) /\ n \in 0..n
    OBVIOUS
  <2> HIDE DEF P
  <2> QED
    BY <1>3, <1>4, <2>1, Climb
<1> QED
  BY <1>1, <1>2, <1>5, ShapeFollows

-----------------------------------------------------------------------------
(* The body of a request *)

\* A profile that cannot see is sent the same conversation.
LEMMA VisibleFacts ==
  ASSUME NEW p, NEW messages \in Seq(Messages), Conversation(messages)
  PROVE  Visible(p, messages) \in Seq(Messages) /\ Conversation(Visible(p, messages))
<1> DEFINE seen == [i \in DOMAIN messages |-> [messages[i] EXCEPT !.images = FALSE]]
<1>1. CASE p.vision
  BY <1>1 DEF Visible
<1>2. CASE ~p.vision
  <2>1. PICK n \in Nat : DOMAIN messages = 1..n
    BY LenProperties
  <2>2. ASSUME NEW i \in 1..n
        PROVE  /\ seen[i] \in Messages /\ seen[i].role = messages[i].role
               /\ seen[i].calls = messages[i].calls /\ seen[i].answers = messages[i].answers
    <3>1. messages[i] \in Messages
      BY <2>1, LenProperties, ElementOfSeq
    <3> QED
      BY <2>1, <3>1 DEF Messages
  <2>3. seen \in [1..n -> Messages] /\ DOMAIN seen = 1..n
    BY <2>1, <2>2
  <2> HIDE DEF seen
  <2>4. seen \in Seq(Messages)
    <3>1. [1..n -> Messages] \subseteq Seq(Messages)
      BY SeqDef
    <3> QED
      BY <2>3, <3>1
  <2>5. Conversation(seen)
    <3> SUFFICES ASSUME NEW i \in DOMAIN seen
                 PROVE  /\ seen[i].calls # <<>> => seen[i].role = "assistant"
                        /\ \A k \in DOMAIN seen[i].calls :
                             /\ i + k \in DOMAIN seen
                             /\ seen[i + k].role = "tool"
                             /\ seen[i + k].answers = seen[i].calls[k].id
                             /\ \A j \in DOMAIN seen[i].calls :
                                  seen[i].calls[j].id = seen[i].calls[k].id
                                    => seen[i].calls[j].name = seen[i].calls[k].name
                        /\ seen[i].role = "tool" =>
                             \E k \in 1..(i - 1) : k \in DOMAIN seen[i - k].calls
      BY DEF Conversation
    <3>0. i \in 1..n
      BY <2>3
    <3>1. /\ messages[i].calls # <<>> => messages[i].role = "assistant"
          /\ \A k \in DOMAIN messages[i].calls :
               /\ i + k \in DOMAIN messages
               /\ messages[i + k].role = "tool"
               /\ messages[i + k].answers = messages[i].calls[k].id
               /\ \A j \in DOMAIN messages[i].calls :
                    messages[i].calls[j].id = messages[i].calls[k].id
                      => messages[i].calls[j].name = messages[i].calls[k].name
          /\ messages[i].role = "tool" =>
               \E k \in 1..(i - 1) : k \in DOMAIN messages[i - k].calls
      BY <2>1, <3>0 DEF Conversation
    <3>2. \A k \in DOMAIN messages[i].calls :
            /\ i + k \in 1..n /\ seen[i + k].role = "tool"
            /\ seen[i + k].answers = messages[i].calls[k].id
      BY <2>1, <2>2, <3>0, <3>1
    <3>3. seen[i].role = "tool" => \E k \in 1..(i - 1) : k \in DOMAIN seen[i - k].calls
      <4> HAVE seen[i].role = "tool"
      <4>1. PICK k \in 1..(i - 1) : k \in DOMAIN messages[i - k].calls
        BY <2>2, <3>0, <3>1
      <4>2. i - k \in 1..n
        BY <3>0, <4>1
      <4> QED
        BY <2>2, <4>1, <4>2
    <3> QED
      BY <2>2, <2>3, <3>0, <3>1, <3>2, <3>3
  <2> QED
    BY <1>2, <2>4, <2>5 DEF Visible, seen
<1> QED
  BY <1>1, <1>2

LEMMA BodyTurns ==
  ASSUME NEW p, NEW request
  PROVE  /\ OpenAiBody(p, request).turns =
              If(request.system, <<Turn("system", <<Text>>)>>)
              \o OpenAiTurns(Visible(p, request.messages))
         /\ AnthropicBody(p, request).turns = AnthropicTurns(Visible(p, request.messages))
         /\ GeminiBody(p, request).turns = GeminiTurns(Visible(p, request.messages))
  BY DEF OpenAiBody, AnthropicBody, GeminiBody, Offered

\* Whatever the protocol and its capabilities, however long the conversation and
\* however many calls its turns make, the turns that are sent answer every call
\* right after the turn that makes it, each once and in order, and answer nothing
\* else (_openai_messages, _anthropic_messages, _gemini_contents).
THEOREM WireHolds == Spec => []WireAnswersCalls
<1>1. ASSUME TypeOK PROVE WireAnswersCalls
  <2> SUFFICES ASSUME NEW c \in Calls
               PROVE  AnswersFollow(profile.protocol, Body(profile, RequestOf[c]).turns)
    BY DEF WireAnswersCalls
  <2>1. profile.protocol \in Protocols
    BY <1>1, GatewayAssumption DEF TypeOK, Profile
  <2> DEFINE messages == Visible(profile, RequestOf[c].messages)
             first == If(RequestOf[c].system, <<Turn("system", <<Text>>)>>)
  <2>2. messages \in Seq(Messages) /\ Conversation(messages)
    <3>1. RequestOf[c].messages \in Seq(Messages) /\ Conversation(RequestOf[c].messages)
      BY GatewayAssumption DEF Request
    <3> QED
      BY <3>1, VisibleFacts
  <2>3. first = <<>> \/ first = <<Turn("system", <<Text>>)>>
    BY DEF If
  <2> HIDE DEF messages, first
  <2>4. CASE profile.protocol = "openai"
    <3>1. Body(profile, RequestOf[c]).turns = first \o OpenAiTurns(messages)
      BY <2>4, BodyTurns DEF Body, messages, first
    <3> QED
      BY <2>2, <2>3, <2>4, <3>1, OpenAiAnswers
  <2>5. CASE profile.protocol = "anthropic"
    <3>1. Body(profile, RequestOf[c]).turns = AnthropicTurns(messages)
      BY <2>5, BodyTurns DEF Body, messages
    <3> QED
      BY <2>2, <2>5, <3>1, AnthropicAnswers
  <2>6. CASE profile.protocol = "gemini"
    <3>1. Body(profile, RequestOf[c]).turns = GeminiTurns(messages)
      BY <2>6, BodyTurns DEF Body, messages
    <3> QED
      BY <2>2, <2>6, <3>1, GeminiAnswers
  <2> QED
    BY <2>1, <2>4, <2>5, <2>6 DEF Protocols
<1> QED
  BY <1>1, TypeCorrect, PTL

-----------------------------------------------------------------------------
(* The blocks of a kind, counted *)

\* How many of the first n blocks are of a kind.
Nth(blocks, kind, n) == Cardinality({j \in 1..n : blocks[j].kind = kind})

LEMMA NthStarts ==
  ASSUME NEW blocks, NEW kind
  PROVE  Nth(blocks, kind, 0) = 0
<1>1. {j \in 1..0 : blocks[j].kind = kind} = {}
  OBVIOUS
<1> QED
  BY <1>1, FS_EmptySet DEF Nth

LEMMA NthNat ==
  ASSUME NEW blocks, NEW kind, NEW n \in Nat
  PROVE  /\ IsFiniteSet({j \in 1..n : blocks[j].kind = kind})
         /\ Nth(blocks, kind, n) \in Nat
<1>1. IsFiniteSet(1..n)
  BY FS_Interval
<1>2. {j \in 1..n : blocks[j].kind = kind} \in SUBSET (1..n)
  OBVIOUS
<1>3. IsFiniteSet({j \in 1..n : blocks[j].kind = kind})
  BY <1>1, <1>2, FS_Subset
<1> QED
  BY <1>3, FS_CardinalityType DEF Nth

LEMMA NthStep ==
  ASSUME NEW blocks, NEW kind, NEW n \in Nat \ {0}
  PROVE  Nth(blocks, kind, n) =
           IF blocks[n].kind = kind THEN Nth(blocks, kind, n - 1) + 1
           ELSE Nth(blocks, kind, n - 1)
<1> DEFINE upto(m) == {j \in 1..m : blocks[j].kind = kind}
<1>1. n - 1 \in Nat /\ IsFiniteSet(upto(n - 1))
  <2>1. n - 1 \in Nat
    OBVIOUS
  <2> QED
    BY <2>1, NthNat
<1>2. CASE blocks[n].kind = kind
  <2>1. upto(n) = upto(n - 1) \cup {n} /\ n \notin upto(n - 1)
    BY <1>2
  <2>2. Cardinality(upto(n - 1) \cup {n}) = Cardinality(upto(n - 1)) + 1
    <3> HIDE DEF upto
    <3> QED
      BY <1>1, <2>1, FS_AddElement
  <2> QED
    BY <1>2, <2>1, <2>2 DEF Nth
<1>3. CASE blocks[n].kind # kind
  <2>1. upto(n) = upto(n - 1)
    BY <1>3
  <2> QED
    BY <1>3, <2>1 DEF Nth
<1> QED
  BY <1>2, <1>3

LEMMA NthMonotone ==
  ASSUME NEW blocks, NEW kind, NEW m \in Nat, NEW n \in Nat, m <= n
  PROVE  Nth(blocks, kind, m) <= Nth(blocks, kind, n)
<1>1. {j \in 1..m : blocks[j].kind = kind} \in SUBSET {j \in 1..n : blocks[j].kind = kind}
  OBVIOUS
<1>2. IsFiniteSet({j \in 1..n : blocks[j].kind = kind})
  BY NthNat
<1> QED
  BY <1>1, <1>2, FS_Subset, Zenon DEF Nth

\* A block of the kind comes before the next one.
LEMMA NthGrows ==
  ASSUME NEW blocks, NEW kind, NEW k \in Nat \ {0}, NEW n \in Nat, k <= n,
         blocks[k].kind = kind
  PROVE  /\ k - 1 \in Nat /\ Nth(blocks, kind, k - 1) \in Nat
         /\ Nth(blocks, kind, n) \in Nat
         /\ Nth(blocks, kind, k - 1) + 1 <= Nth(blocks, kind, n)
<1>1. k - 1 \in Nat
  OBVIOUS
<1>2. Nth(blocks, kind, k) = Nth(blocks, kind, k - 1) + 1
  BY NthStep
<1>3. Nth(blocks, kind, k) <= Nth(blocks, kind, n)
  BY NthMonotone
<1> QED
  BY <1>1, <1>2, <1>3, NthNat

\* Every number up to the count is that of a block.
LEMMA NthReached ==
  ASSUME NEW blocks, NEW kind, NEW n \in Nat, NEW m \in 1..Nth(blocks, kind, n)
  PROVE  \E k \in 1..n : blocks[k].kind = kind /\ m = Nth(blocks, kind, k - 1) + 1
<1> DEFINE Reached(i) == m <= Nth(blocks, kind, i) =>
             \E k \in 1..i : blocks[k].kind = kind /\ m = Nth(blocks, kind, k - 1) + 1
           P == {i \in 0..n : Reached(i)}
<1>0. Nth(blocks, kind, n) \in Nat /\ m \in Nat /\ m >= 1 /\ m <= Nth(blocks, kind, n)
  <2>1. Nth(blocks, kind, n) \in Nat
    BY NthNat
  <2> QED
    BY <2>1
<1>1. 0 \in P
  BY <1>0, NthStarts
<1>2. ASSUME NEW i \in 1..n, i - 1 \in P PROVE i \in P
  <2>1. i - 1 \in Nat /\ Nth(blocks, kind, i - 1) \in Nat
    <3>1. i - 1 \in Nat
      OBVIOUS
    <3> QED
      BY <3>1, NthNat
  <2>2. SUFFICES ASSUME m <= Nth(blocks, kind, i)
                 PROVE  \E k \in 1..i : blocks[k].kind = kind
                                        /\ m = Nth(blocks, kind, k - 1) + 1
    OBVIOUS
  <2>3. CASE m <= Nth(blocks, kind, i - 1)
    <3>1. PICK k \in 1..(i - 1) : blocks[k].kind = kind /\ m = Nth(blocks, kind, k - 1) + 1
      BY <1>2, <2>3
    <3> QED
      BY <2>1, <3>1
  <2>4. CASE ~(m <= Nth(blocks, kind, i - 1))
    <3>1. i \in Nat \ {0}
      OBVIOUS
    <3>2. blocks[i].kind = kind /\ m = Nth(blocks, kind, i - 1) + 1
      BY <1>0, <2>1, <2>2, <2>4, <3>1, NthStep
    <3> QED
      BY <3>1, <3>2
  <2> QED
    BY <2>3, <2>4
<1>3. P = 0..n
  <2>1. P \in SUBSET (0..n)
    OBVIOUS
  <2> HIDE DEF P
  <2> QED
    BY <1>1, <1>2, <2>1, Climb
<1>4. Reached(n)
  BY <1>3
<1> QED
  BY <1>0, <1>4

\* A sequence has a value for each of the first n blocks of a kind, in their order.
Lists(s, blocks, kind, n, value) ==
  /\ DOMAIN s = 1..Nth(blocks, kind, n)
  /\ \A k \in 1..n :
       blocks[k].kind = kind => s[Nth(blocks, kind, k - 1) + 1] = value[k]

\* There is only one.
LEMMA ListsOnce ==
  ASSUME NEW blocks, NEW kind, NEW n \in Nat, NEW value, NEW s, NEW t,
         Lists(s, blocks, kind, n, value), Lists(t, blocks, kind, n, value)
  PROVE  DOMAIN s = DOMAIN t /\ \A m \in DOMAIN s : s[m] = t[m]
<1>1. ASSUME NEW m \in 1..Nth(blocks, kind, n)
      PROVE  s[m] = t[m]
  <2>1. PICK k \in 1..n : blocks[k].kind = kind /\ m = Nth(blocks, kind, k - 1) + 1
    BY NthReached
  <2> QED
    BY <2>1 DEF Lists
<1> QED
  BY <1>1 DEF Lists

LEMMA ListsGrow ==
  ASSUME NEW S, NEW s \in Seq(S), NEW blocks, NEW kind, NEW n \in Nat \ {0}, NEW value,
         Lists(s, blocks, kind, n - 1, value),
         blocks[n].kind = kind => value[n] \in S
  PROVE  LET t == s \o If(blocks[n].kind = kind, <<value[n]>>)
         IN  t \in Seq(S) /\ Lists(t, blocks, kind, n, value)
<1> DEFINE more == If(blocks[n].kind = kind, <<value[n]>>)
           t == s \o more
<1>0. n - 1 \in Nat /\ Nth(blocks, kind, n - 1) \in Nat /\ Len(s) = Nth(blocks, kind, n - 1)
  <2>1. n - 1 \in Nat
    OBVIOUS
  <2>2. Nth(blocks, kind, n - 1) \in Nat
    BY <2>1, NthNat
  <2>3. DOMAIN s = 1..Len(s) /\ Len(s) \in Nat
    BY LenProperties
  <2> QED
    BY <2>1, <2>2, <2>3 DEF Lists
<1>1. CASE blocks[n].kind = kind
  <2>1. more = <<value[n]>> /\ more \in Seq(S) /\ Len(more) = 1 /\ more[1] = value[n]
    BY <1>1 DEF If
  <2> HIDE DEF more
  <2>2. /\ t \in Seq(S) /\ Len(t) = Len(s) + 1
        /\ \A i \in 1..(Len(s) + 1) : t[i] = IF i <= Len(s) THEN s[i] ELSE more[i - Len(s)]
    BY <2>1, ConcatProperties
  <2> HIDE DEF t
  <2>3. Nth(blocks, kind, n) = Nth(blocks, kind, n - 1) + 1
    BY <1>1, NthStep
  <2>4. DOMAIN t = 1..Nth(blocks, kind, n)
    BY <1>0, <2>2, <2>3, LenProperties
  <2>5. ASSUME NEW k \in 1..n, blocks[k].kind = kind
        PROVE  t[Nth(blocks, kind, k - 1) + 1] = value[k]
    <3>1. CASE k = n
      <4>1. t[Len(s) + 1] = more[1]
        BY <1>0, <2>2
      <4> QED
        BY <1>0, <2>1, <3>1, <4>1
    <3>2. CASE k # n
      <4>1. k \in Nat \ {0} /\ k <= n - 1 /\ k \in 1..(n - 1)
        BY <3>2
      <4>2. /\ Nth(blocks, kind, k - 1) \in Nat
            /\ Nth(blocks, kind, k - 1) + 1 <= Nth(blocks, kind, n - 1)
        BY <1>0, <2>5, <4>1, NthGrows
      <4>3. s[Nth(blocks, kind, k - 1) + 1] = value[k]
        BY <2>5, <4>1 DEF Lists
      <4> QED
        BY <1>0, <2>2, <4>2, <4>3
    <3> QED
      BY <3>1, <3>2
  <2> QED
    BY <2>2, <2>4, <2>5 DEF Lists, t, more
<1>2. CASE blocks[n].kind # kind
  <2>1. more = <<>>
    BY <1>2 DEF If
  <2>2. t = s
    BY <2>1, ConcatEmptySeq
  <2>3. Nth(blocks, kind, n) = Nth(blocks, kind, n - 1)
    BY <1>2, NthStep
  <2>4. Lists(s, blocks, kind, n, value)
    <3>1. ASSUME NEW k \in 1..n, blocks[k].kind = kind
          PROVE  s[Nth(blocks, kind, k - 1) + 1] = value[k]
      <4>1. k \in 1..(n - 1)
        BY <1>2, <3>1
      <4> QED
        BY <3>1, <4>1 DEF Lists
    <3> QED
      BY <2>3, <3>1 DEF Lists
  <2> QED
    BY <2>2, <2>4
<1> QED
  BY <1>1, <1>2

LEMMA ListsNone ==
  ASSUME NEW blocks, NEW kind, NEW value
  PROVE  Lists(<<>>, blocks, kind, 0, value)
BY NthStarts DEF Lists

\* OfKind lists the blocks of the kind.
LEMMA OfKindLists ==
  ASSUME NEW E, NEW blocks \in Seq(E), NEW kind
  PROVE  /\ OfKind(blocks, kind) \in Seq(E)
         /\ Lists(OfKind(blocks, kind), blocks, kind, Len(blocks), blocks)
<1>0. PICK n \in Nat : n = Len(blocks)
  BY LenProperties
<1>1. PICK h : /\ h[0] = <<>> /\ h[n] = OfKind(blocks, kind)
               /\ \A k \in 1..n : h[k] = h[k - 1] \o If(blocks[k].kind = kind, <<blocks[k]>>)
  <2>1. KeptWalk(blocks, kind)
    BY OfKindSteps
  <2> QED
    BY <1>0, <2>1 DEF KeptWalk
<1> DEFINE P == {k \in 0..n : h[k] \in Seq(E) /\ Lists(h[k], blocks, kind, k, blocks)}
<1>2. 0 \in P
  <2>1. <<>> \in Seq(E) /\ Lists(<<>>, blocks, kind, 0, blocks)
    BY ListsNone
  <2>2. h[0] \in Seq(E) /\ Lists(h[0], blocks, kind, 0, blocks)
    BY <1>1, <2>1
  <2>3. 0 \in 0..n
    OBVIOUS
  <2> QED
    BY <2>2, <2>3
<1>3. ASSUME NEW k \in 1..n, k - 1 \in P PROVE k \in P
  <2>1. k \in Nat \ {0} /\ blocks[k] \in E
    BY <1>0, ElementOfSeq
  <2>2. h[k - 1] \in Seq(E) /\ Lists(h[k - 1], blocks, kind, k - 1, blocks)
    BY <1>3
  <2>3. LET t == h[k - 1] \o If(blocks[k].kind = kind, <<blocks[k]>>)
        IN  t \in Seq(E) /\ Lists(t, blocks, kind, k, blocks)
    BY <2>1, <2>2, ListsGrow
  <2>4. h[k] \in Seq(E) /\ Lists(h[k], blocks, kind, k, blocks)
    BY <1>1, <2>3
  <2> QED
    BY <2>4
<1>4. P = 0..n
  <2>1. P \in SUBSET (0..n)
    OBVIOUS
  <2> HIDE DEF P
  <2> QED
    BY <1>2, <1>3, <2>1, Climb
<1>5. n \in P
  BY <1>4
<1> QED
  BY <1>0, <1>1, <1>5

\* A growing image of the blocks of a kind is as large and in the same order.
LEMMA ImageCount ==
  ASSUME NEW K \in SUBSET Nat, IsFiniteSet(K), NEW f,
         \A k \in K : f[k] \in Int, \A k, l \in K : k < l => f[k] < f[l]
  PROVE  /\ IsFiniteSet({f[k] : k \in K})
         /\ Cardinality({f[k] : k \in K}) = Cardinality(K)
<1> DEFINE D == {f[k] : k \in K}
           g == [k \in K |-> f[k]]
<1>1. \A k, l \in K : f[k] = f[l] => k = l
  <2> SUFFICES ASSUME NEW k \in K, NEW l \in K, f[k] = f[l] PROVE k = l
    OBVIOUS
  <2>1. ~(k < l) /\ ~(l < k)
    OBVIOUS
  <2> QED
    BY <2>1
<1>2. g \in [K -> D] /\ \A k \in K : g[k] = f[k]
  OBVIOUS
<1>3. \A x \in D : \E k \in K : g[k] = x
  OBVIOUS
<1> HIDE DEF g, D
<1>4. g \in Bijection(K, D)
  BY <1>1, <1>2, <1>3 DEF Bijection, Injection, Surjection, IsInjective
<1>5. ExistsBijection(K, D)
  BY <1>4 DEF ExistsBijection
<1>6. IsFiniteSet(D) /\ Cardinality(D) = Cardinality(K)
  BY <1>5, FS_Bijection
<1> QED
  BY <1>6 DEF D

ImageOf(f, D, blocks, kind, n) ==
  LET K == {k \in 1..n : blocks[k].kind = kind}
  IN  /\ D = {f[k] : k \in K}
      /\ \A k \in K : f[k] \in Int
      /\ \A k, l \in K : k < l => f[k] < f[l]

\* A set has as many numbers as there are blocks of the kind, and they are in order.
Ordered(D, f, blocks, kind, n) ==
  /\ Cardinality(D) = Nth(blocks, kind, n)
  /\ \A k \in 1..n :
       blocks[k].kind = kind => InOrder(D, Nth(blocks, kind, k - 1) + 1) = f[k]

LEMMA ImageInOrder ==
  ASSUME NEW f, NEW D, NEW blocks, NEW kind, NEW n \in Nat, ImageOf(f, D, blocks, kind, n)
  PROVE  Ordered(D, f, blocks, kind, n)
<1> USE DEF ImageOf
<1> DEFINE K == {k \in 1..n : blocks[k].kind = kind}
           Less(x) == {j \in D : j < x}
<1>1. Cardinality(D) = Nth(blocks, kind, n)
  <2>1. K \in SUBSET Nat /\ IsFiniteSet(K) /\ Cardinality(K) = Nth(blocks, kind, n)
    <3>1. K \in SUBSET Nat
      OBVIOUS
    <3>2. IsFiniteSet({j \in 1..n : blocks[j].kind = kind})
      BY NthNat
    <3> QED
      BY <3>1, <3>2, Zenon DEF Nth
  <2>2. Cardinality({f[k] : k \in K}) = Cardinality(K)
    BY <2>1, ImageCount
  <2> QED
    BY <2>1, <2>2
<1>2. ASSUME NEW k \in K PROVE Cardinality(Less(f[k])) = Nth(blocks, kind, k - 1)
  <2> DEFINE L == {l \in 1..(k - 1) : blocks[l].kind = kind}
  <2>1. k - 1 \in Nat /\ k \in 1..n /\ L \in SUBSET Nat
    OBVIOUS
  <2>2. L = {l \in K : l < k}
    BY <2>1
  <2>3. Less(f[k]) = {f[l] : l \in L}
    <3>1. ASSUME NEW j \in Less(f[k]) PROVE j \in {f[l] : l \in L}
      <4>1. PICK l \in K : j = f[l] /\ f[l] < f[k]
        OBVIOUS
      <4>2. l \in Nat /\ k \in Nat /\ ~(k < l) /\ l # k
        BY <4>1
      <4> QED
        BY <2>2, <4>1, <4>2
    <3>2. ASSUME NEW l \in L PROVE f[l] \in Less(f[k])
      BY <2>2
    <3> QED
      BY <3>1, <3>2
  <2>4. IsFiniteSet(L) /\ Cardinality(L) = Nth(blocks, kind, k - 1)
    BY <2>1, NthNat DEF Nth
  <2>5. \A l \in L : f[l] \in Int
    BY <2>2
  <2>6. \A i, l \in L : i < l => f[i] < f[l]
    BY <2>2
  <2> HIDE DEF L, Less
  <2>7. Cardinality({f[l] : l \in L}) = Cardinality(L)
    BY <2>1, <2>4, <2>5, <2>6, ImageCount
  <2> QED
    BY <2>3, <2>4, <2>7
<1>3. ASSUME NEW k \in K, NEW l \in K, Nth(blocks, kind, k - 1) = Nth(blocks, kind, l - 1)
      PROVE  k = l
  <2>1. /\ k \in Nat \ {0} /\ l \in Nat \ {0} /\ k - 1 \in Nat /\ l - 1 \in Nat
        /\ blocks[k].kind = kind /\ blocks[l].kind = kind
    OBVIOUS
  <2>2. Nth(blocks, kind, k - 1) \in Nat
    BY <2>1, NthNat
  <2>3. k <= l - 1 => Nth(blocks, kind, k - 1) + 1 <= Nth(blocks, kind, l - 1)
    BY <2>1, NthGrows
  <2>4. l <= k - 1 => Nth(blocks, kind, l - 1) + 1 <= Nth(blocks, kind, k - 1)
    BY <2>1, NthGrows
  <2> QED
    BY <1>3, <2>1, <2>2, <2>3, <2>4
<1>4. ASSUME NEW k \in K PROVE InOrder(D, Nth(blocks, kind, k - 1) + 1) = f[k]
  <2> DEFINE m == Nth(blocks, kind, k - 1)
             x == InOrder(D, m + 1)
  <2>1. m \in Nat
    <3>1. k - 1 \in Nat
      OBVIOUS
    <3> QED
      BY <3>1, NthNat
  <2>2. f[k] \in D /\ Cardinality(Less(f[k])) = (m + 1) - 1
    BY <1>2, <2>1
  <2>3. x \in D /\ Cardinality(Less(x)) = (m + 1) - 1
    BY <2>2 DEF InOrder
  <2>4. PICK l \in K : x = f[l]
    BY <2>3
  <2>5. Cardinality(Less(f[l])) = Nth(blocks, kind, l - 1)
    BY <1>2
  <2>6. Nth(blocks, kind, l - 1) = m
    <3> HIDE DEF m, x
    <3> QED
      BY <2>1, <2>3, <2>4, <2>5
  <2>7. k = l
    BY <1>3, <2>6
  <2> QED
    BY <2>4, <2>7
<1>5. ASSUME NEW k \in 1..n, blocks[k].kind = kind
      PROVE  InOrder(D, Nth(blocks, kind, k - 1) + 1) = f[k]
  <2>1. k \in K
    BY <1>5
  <2> QED
    BY <1>4, <2>1
<1> HIDE DEF ImageOf
<1> QED
  BY <1>1, <1>5 DEF Ordered

-----------------------------------------------------------------------------
(* An answer, and what is meant by it *)

TextOf(answer) == [k \in DOMAIN answer.blocks |-> answer.blocks[k].text]

CallOf(answer) ==
  [k \in DOMAIN answer.blocks |->
     [id |-> answer.blocks[k].id, name |-> answer.blocks[k].name,
      args |-> answer.blocks[k].args]]

LEMMA BlockFacts ==
  ASSUME NEW answer \in Answer
  PROVE  /\ Len(answer.blocks) \in Nat /\ DOMAIN answer.blocks = 1..Len(answer.blocks)
         /\ \A k \in 1..Len(answer.blocks) :
              /\ answer.blocks[k].kind \in {"text", "thought", "call"}
              /\ answer.blocks[k].text \in STRING
              /\ answer.blocks[k].args \in Seq(STRING)
         /\ answer.blocks \in Seq([kind : {"text", "thought", "call"}, text : STRING,
                                   id : STRING, name : STRING, args : Seq(STRING)])
<1> DEFINE E == [kind : {"text", "thought", "call"}, text : STRING, id : STRING,
                 name : STRING, args : Seq(STRING)]
<1>1. answer.blocks \in Seq(E)
  BY DEF Answer
<1>2. Len(answer.blocks) \in Nat /\ DOMAIN answer.blocks = 1..Len(answer.blocks)
  BY <1>1, LenProperties
<1>3. \A k \in 1..Len(answer.blocks) : answer.blocks[k] \in E
  BY <1>1, ElementOfSeq
<1> QED
  BY <1>1, <1>2, <1>3

LEMMA SaidLists ==
  ASSUME NEW answer \in Answer
  PROVE  Lists(Said(answer), answer.blocks, "text", Len(answer.blocks), TextOf(answer))
<1> DEFINE said == OfKind(answer.blocks, "text")
<1>1. Lists(said, answer.blocks, "text", Len(answer.blocks), answer.blocks)
  BY BlockFacts, OfKindLists
<1>2. Said(answer) = [i \in DOMAIN said |-> said[i].text]
  BY DEF Said, Blocks
<1> HIDE DEF said
<1>3. ASSUME NEW k \in 1..Len(answer.blocks), answer.blocks[k].kind = "text"
      PROVE  Said(answer)[Nth(answer.blocks, "text", k - 1) + 1] = TextOf(answer)[k]
  <2> DEFINE m == Nth(answer.blocks, "text", k - 1) + 1
  <2>1. m \in 1..Nth(answer.blocks, "text", Len(answer.blocks))
    <3>1. k \in Nat \ {0} /\ Len(answer.blocks) \in Nat /\ k <= Len(answer.blocks)
      BY BlockFacts
    <3>2. /\ Nth(answer.blocks, "text", k - 1) \in Nat
          /\ Nth(answer.blocks, "text", Len(answer.blocks)) \in Nat
          /\ Nth(answer.blocks, "text", k - 1) + 1
               <= Nth(answer.blocks, "text", Len(answer.blocks))
      BY <1>3, <3>1, NthGrows
    <3> QED
      BY <3>2
  <2>2. said[m] = answer.blocks[k] /\ m \in DOMAIN said
    BY <1>1, <1>3, <2>1 DEF Lists
  <2> HIDE DEF m
  <2>3. Said(answer)[m] = answer.blocks[k].text
    BY <1>2, <2>2
  <2> QED
    BY <2>3, BlockFacts DEF TextOf, m
<1> QED
  BY <1>1, <1>2, <1>3 DEF Lists

LEMMA AskedLists ==
  ASSUME NEW answer \in Answer
  PROVE  Lists(Asked(answer), answer.blocks, "call", Len(answer.blocks), CallOf(answer))
<1> DEFINE asked == OfKind(answer.blocks, "call")
<1>1. Lists(asked, answer.blocks, "call", Len(answer.blocks), answer.blocks)
  BY BlockFacts, OfKindLists
<1>2. Asked(answer) = [i \in DOMAIN asked |-> [id |-> asked[i].id, name |-> asked[i].name,
                                               args |-> asked[i].args]]
  BY DEF Asked, Blocks
<1> HIDE DEF asked
<1>3. ASSUME NEW k \in 1..Len(answer.blocks), answer.blocks[k].kind = "call"
      PROVE  Asked(answer)[Nth(answer.blocks, "call", k - 1) + 1] = CallOf(answer)[k]
  <2> DEFINE m == Nth(answer.blocks, "call", k - 1) + 1
  <2>1. m \in 1..Nth(answer.blocks, "call", Len(answer.blocks))
    <3>1. k \in Nat \ {0} /\ Len(answer.blocks) \in Nat /\ k <= Len(answer.blocks)
      BY BlockFacts
    <3>2. /\ Nth(answer.blocks, "call", k - 1) \in Nat
          /\ Nth(answer.blocks, "call", Len(answer.blocks)) \in Nat
          /\ Nth(answer.blocks, "call", k - 1) + 1
               <= Nth(answer.blocks, "call", Len(answer.blocks))
      BY <1>3, <3>1, NthGrows
    <3> QED
      BY <3>2
  <2>2. asked[m] = answer.blocks[k] /\ m \in DOMAIN asked
    BY <1>1, <1>3, <2>1 DEF Lists
  <2> HIDE DEF m
  <2>3. Asked(answer)[m] = [id |-> answer.blocks[k].id, name |-> answer.blocks[k].name,
                            args |-> answer.blocks[k].args]
    BY <1>2, <2>2
  <2> QED
    BY <2>3, BlockFacts DEF CallOf, m
<1> QED
  BY <1>1, <1>2, <1>3 DEF Lists

\* What an answer costs, as the parsers of the three protocols count it.
Cost(answer) == Usage(answer.cost.input, answer.cost.output, answer.cost.cached)

LEMMA CostFacts ==
  ASSUME NEW answer \in Answer
  PROVE  /\ OpenAiUsage(RawUsage("openai", answer.cost)) = Cost(answer)
         /\ AnthropicUsage(RawUsage("anthropic", answer.cost)) = Cost(answer)
         /\ GeminiUsage(RawUsage("gemini", answer.cost)) = Cost(answer)
<1>1. /\ answer.cost.input \in Nat /\ answer.cost.cached \in Nat
      /\ answer.cost.output \in Nat /\ answer.cost.thoughts \in Nat
  BY DEF Answer
<1>2. ~(answer.cost.input + answer.cost.cached < answer.cost.cached)
      /\ (answer.cost.input + answer.cost.cached) - answer.cost.cached = answer.cost.input
      /\ (answer.cost.output - answer.cost.thoughts) + answer.cost.thoughts = answer.cost.output
  BY <1>1
<1> QED
  BY <1>1, <1>2 DEF OpenAiUsage, AnthropicUsage, GeminiUsage, RawUsage, Fresh, Cost, Usage

\* A call's arguments as every parser leaves them.
LEMMA ArgumentFacts ==
  ASSUME NEW raw
  PROVE  /\ LET args == IF IsJson(raw) THEN raw ELSE EmptyObject
            IN  IsObject(args) => args = SafeObject(raw)
         /\ LET args == IF raw = EmptyList THEN EmptyObject ELSE raw
            IN  IsObject(args) => args = SafeObject(raw)
         /\ IsObject(raw) => raw = SafeObject(raw)
<1>1. ~IsObject(EmptyList)
  BY DEF IsObject, EmptyList
<1> QED
  BY <1>1 DEF IsJson, SafeObject

\* An answer without blocks says nothing and asks for nothing.
LEMMA EmptyMeans ==
  ASSUME NEW answer, answer.blocks = <<>>
  PROVE  Said(answer) = <<>> /\ Asked(answer) = <<>>
<1>1. ASSUME NEW kind PROVE Blocks(answer, kind) = <<>>
  <2>1. PICK h : h[0] = <<>> /\ h[Len(answer.blocks)] = OfKind(answer.blocks, kind)
    <3>1. answer.blocks \in Seq({})
      OBVIOUS
    <3>2. KeptWalk(answer.blocks, kind)
      BY <3>1, OfKindSteps
    <3> QED
      BY <3>2 DEF KeptWalk
  <2>2. Len(answer.blocks) = 0
    OBVIOUS
  <2> QED
    BY <2>1, <2>2 DEF Blocks
<1> QED
  BY <1>1 DEF Said, Asked

\* Text and calls as they are meant.
SaysAll(answer, read) == read.text = Meant(answer).text /\ read.calls = Meant(answer).calls

\* A body that is not refused says what is meant, at the cost that is meant but for
\* Anthropic's that was cut before its first block.
LEMMA ParseMeans ==
  ASSUME NEW answer \in Answer, NEW protocol \in Protocols,
         NEW parsed, parsed = Parse(protocol, ReplyBody(protocol, answer)), parsed # Refused
  PROVE  /\ SaysAll(answer, parsed)
         /\ parsed.usage = Meant(answer).usage
              \/ (protocol = "anthropic" /\ answer.blocks = <<>>)
<1> DEFINE body == ReplyBody(protocol, answer)
           asked == Asked(answer)
           Means(calls) == calls = [i \in DOMAIN asked |-> [asked[i] EXCEPT !.args = SafeObject(@)]]
<1>1. /\ body.blocks = answer.blocks /\ body.usage = RawUsage(protocol, answer.cost)
      /\ Said(body) = Said(answer) /\ Asked(body) = asked
  BY DEF ReplyBody, Said, Asked, Blocks
<1>2. \A i \in DOMAIN asked : asked[i] = [id |-> asked[i].id, name |-> asked[i].name,
                                          args |-> asked[i].args]
  BY DEF Asked
<1>0. /\ Meant(answer).text = Said(answer) /\ Meant(answer).usage = Cost(answer)
      /\ Means(Meant(answer).calls)
  BY DEF Meant, Cost
<1> HIDE DEF asked, body
<1>3. ASSUME NEW calls, NEW finish, NEW usage,
             parsed = Response(Said(answer), calls, finish, usage),
             (\A i \in DOMAIN calls : IsObject(calls[i].args)) => Means(calls)
      PROVE  SaysAll(answer, parsed) /\ parsed.usage = usage
  <2>1. /\ \A i \in DOMAIN calls : IsObject(calls[i].args)
        /\ parsed.text = Said(answer) /\ parsed.calls = calls /\ parsed.usage = usage
    BY <1>3 DEF Response
  <2> QED
    BY <1>0, <1>3, <2>1 DEF SaysAll
<1>4. CASE protocol = "openai"
  <2> DEFINE calls == [i \in DOMAIN asked |->
               [asked[i] EXCEPT !.args = IF IsJson(@) THEN @ ELSE EmptyObject]]
  <2>1. parsed = Response(Said(answer), calls, Finish("openai", body.code), Cost(answer))
    BY <1>1, <1>4, CostFacts DEF Parse, ParseOpenAi, body
  <2>2. ASSUME \A i \in DOMAIN calls : IsObject(calls[i].args) PROVE Means(calls)
    <3>1. ASSUME NEW i \in DOMAIN asked
          PROVE  [asked[i] EXCEPT !.args = IF IsJson(@) THEN @ ELSE EmptyObject]
                   = [asked[i] EXCEPT !.args = SafeObject(@)]
      <4>1. calls[i].args = IF IsJson(asked[i].args) THEN asked[i].args ELSE EmptyObject
        BY <1>2
      <4> QED
        BY <1>2, <2>2, <4>1, ArgumentFacts
    <3> QED
      BY <3>1
  <2> HIDE DEF calls, Means
  <2> QED
    BY <1>0, <1>3, <2>1, <2>2
<1>5. CASE protocol = "anthropic" /\ answer.blocks # <<>>
  <2>1. parsed = Response(Said(answer), asked, Finish("anthropic", body.code), Cost(answer))
    BY <1>1, <1>5, CostFacts DEF Parse, ParseAnthropic, body
  <2>2. ASSUME \A i \in DOMAIN asked : IsObject(asked[i].args) PROVE Means(asked)
    <3>1. ASSUME NEW i \in DOMAIN asked
          PROVE  asked[i] = [asked[i] EXCEPT !.args = SafeObject(@)]
      BY <1>2, <2>2, ArgumentFacts
    <3>2. asked = [i \in DOMAIN asked |-> asked[i]]
      BY DEF asked, Asked
    <3> QED
      BY <3>1, <3>2
  <2> HIDE DEF Means
  <2> QED
    BY <1>0, <1>3, <2>1, <2>2
<1>7. CASE protocol = "anthropic" /\ answer.blocks = <<>>
  <2>1. parsed = Response(<<>>, <<>>, "max_tokens", NoUsage)
    BY <1>1, <1>7 DEF Parse, ParseAnthropic, body
  <2>2. Said(answer) = <<>> /\ asked = <<>>
    BY <1>7, EmptyMeans DEF asked
  <2>3. Means(<<>>)
    BY <2>2
  <2> HIDE DEF Means
  <2> QED
    BY <1>3, <1>7, <2>1, <2>2, <2>3
<1>6. CASE protocol = "gemini"
  <2> DEFINE calls == [i \in DOMAIN asked |->
               [asked[i] EXCEPT !.args = IF @ = EmptyList THEN EmptyObject ELSE @]]
  <2>1. parsed = Response(Said(answer), calls, Finish("gemini", body.code), Cost(answer))
    BY <1>1, <1>6, CostFacts DEF Parse, ParseGemini, body
  <2>2. ASSUME \A i \in DOMAIN calls : IsObject(calls[i].args) PROVE Means(calls)
    <3>1. ASSUME NEW i \in DOMAIN asked
          PROVE  [asked[i] EXCEPT !.args = IF @ = EmptyList THEN EmptyObject ELSE @]
                   = [asked[i] EXCEPT !.args = SafeObject(@)]
      <4>1. calls[i].args = IF asked[i].args = EmptyList THEN EmptyObject ELSE asked[i].args
        BY <1>2
      <4> QED
        BY <1>2, <2>2, <4>1, ArgumentFacts
    <3> QED
      BY <3>1
  <2> HIDE DEF calls, Means
  <2> QED
    BY <1>0, <1>3, <2>1, <2>2
<1> QED
  BY <1>4, <1>5, <1>6, <1>7 DEF Protocols

-----------------------------------------------------------------------------
(* Deltas and frames *)

LEMMA JoinOne ==
  ASSUME NEW x
  PROVE  <<x>> \o <<>> = <<x>> /\ <<>> \o <<x>> = <<x>> /\ <<>> \o <<>> = <<>>
<1>1. <<x>> \in Seq({x}) /\ <<>> \in Seq({x})
  OBVIOUS
<1> QED
  BY <1>1, ConcatEmptySeq

\* A frame's deltas are folded one after the other.
LEMMA JoinTwo ==
  ASSUME NEW x, NEW y
  PROVE  <<x>> \o <<y>> = <<x, y>>
<1> DEFINE S == {x, y}
<1>1. <<x>> \in Seq(S) /\ Len(<<x>>) = 1 /\ <<y>> \in Seq(S) /\ Len(<<y>>) = 1
  OBVIOUS
<1>2. /\ <<x>> \o <<y>> \in Seq(S) /\ Len(<<x>> \o <<y>>) = 2
      /\ (<<x>> \o <<y>>)[1] = x /\ (<<x>> \o <<y>>)[2] = y
  BY <1>1, ConcatProperties
<1>3. <<x, y>> \in Seq(S) /\ Len(<<x, y>>) = 2 /\ <<x, y>>[1] = x /\ <<x, y>>[2] = y
  OBVIOUS
<1>4. PICK s, t : s = <<x>> \o <<y>> /\ t = <<x, y>>
  OBVIOUS
<1>5. /\ s \in Seq(S) /\ t \in Seq(S) /\ Len(s) = Len(t)
      /\ \A i \in 1..Len(s) : s[i] = t[i]
  <2>1. s \in Seq(S) /\ Len(s) = 2 /\ s[1] = x /\ s[2] = y
    BY <1>2, <1>4, Zenon
  <2>2. t \in Seq(S) /\ Len(t) = 2 /\ t[1] = x /\ t[2] = y
    BY <1>3, <1>4, Zenon
  <2> HIDE DEF S
  <2>3. \A i \in 1..2 : s[i] = t[i]
    <3>1. \A i \in 1..2 : i = 1 \/ i = 2
      OBVIOUS
    <3> QED
      BY <2>1, <2>2, <3>1
  <2> QED
    BY <2>1, <2>2, <2>3
<1>6. s = t
  BY <1>5, SeqEqual
<1> QED
  BY <1>4, <1>6

LEMMA AssembleNone ==
  ASSUME NEW a
  PROVE  Assemble(a, <<>>) = a
<1> DEFINE Iter(g) == g = [n \in 0..Len(<<>>) |-> IF n = 0 THEN a ELSE Update(g[n - 1], <<>>[n])]
           after == CHOOSE g : Iter(g)
<1>1. Assemble(a, <<>>) = after[Len(<<>>)]
  BY DEF Assemble
<1>2. Len(<<>>) = 0 /\ 0..Len(<<>>) = {0}
  OBVIOUS
<1>3. \E g : Iter(g)
  <2> DEFINE g == [n \in 0..0 |-> a]
  <2>1. g = [n \in 0..Len(<<>>) |-> IF n = 0 THEN a ELSE Update(g[n - 1], <<>>[n])]
    BY <1>2
  <2> HIDE DEF g
  <2> QED
    BY <2>1
<1>4. Iter(after)
  <2> HIDE DEF Iter
  <2> QED
    BY <1>3
<1> HIDE DEF after
<1>5. after[0] = a
  BY <1>2, <1>4
<1> QED
  BY <1>1, <1>2, <1>5

LEMMA AssembleOne ==
  ASSUME NEW a, NEW x
  PROVE  Assemble(a, <<x>>) = Update(a, x)
<1> DEFINE Iter(g) == g = [n \in 0..Len(<<x>>) |-> IF n = 0 THEN a ELSE Update(g[n - 1], <<x>>[n])]
           after == CHOOSE g : Iter(g)
<1>1. Assemble(a, <<x>>) = after[Len(<<x>>)]
  BY DEF Assemble
<1>2. Len(<<x>>) = 1 /\ 0..Len(<<x>>) = {0, 1} /\ <<x>>[1] = x
  OBVIOUS
<1>3. \E g : Iter(g)
  <2> DEFINE g == [n \in {0, 1} |-> IF n = 0 THEN a ELSE Update(a, x)]
  <2>1. \A n \in {0, 1} : (IF n = 0 THEN a ELSE Update(g[n - 1], <<x>>[n])) = g[n]
    BY <1>2
  <2>2. g = [n \in {0, 1} |-> g[n]]
    OBVIOUS
  <2> HIDE DEF g
  <2>3. g = [n \in {0, 1} |-> IF n = 0 THEN a ELSE Update(g[n - 1], <<x>>[n])]
    BY <2>1, <2>2
  <2> QED
    BY <1>2, <2>3
<1>4. Iter(after)
  <2> HIDE DEF Iter
  <2> QED
    BY <1>3
<1> HIDE DEF after
<1>5. after[0] = a
  BY <1>2, <1>4
<1>6. after[1] = Update(after[0], <<x>>[1])
  BY <1>2, <1>4
<1> QED
  BY <1>1, <1>2, <1>5, <1>6

LEMMA AssembleTwo ==
  ASSUME NEW a, NEW x, NEW y
  PROVE  Assemble(a, <<x, y>>) = Update(Update(a, x), y)
<1> DEFINE Iter(g) == g = [n \in 0..Len(<<x, y>>) |->
                             IF n = 0 THEN a ELSE Update(g[n - 1], <<x, y>>[n])]
           after == CHOOSE g : Iter(g)
<1>1. Assemble(a, <<x, y>>) = after[Len(<<x, y>>)]
  BY DEF Assemble
<1>2. Len(<<x, y>>) = 2 /\ 0..Len(<<x, y>>) = {0, 1, 2} /\ <<x, y>>[1] = x /\ <<x, y>>[2] = y
  OBVIOUS
<1>3. \E g : Iter(g)
  <2> DEFINE g == [n \in {0, 1, 2} |-> IF n = 0 THEN a ELSE IF n = 1 THEN Update(a, x)
                                       ELSE Update(Update(a, x), y)]
  <2>1. \A n \in {0, 1, 2} : (IF n = 0 THEN a ELSE Update(g[n - 1], <<x, y>>[n])) = g[n]
    BY <1>2
  <2>2. g = [n \in {0, 1, 2} |-> g[n]]
    OBVIOUS
  <2> HIDE DEF g
  <2>3. g = [n \in {0, 1, 2} |-> IF n = 0 THEN a ELSE Update(g[n - 1], <<x, y>>[n])]
    BY <2>1, <2>2
  <2> QED
    BY <1>2, <2>3
<1>4. Iter(after)
  <2> HIDE DEF Iter
  <2> QED
    BY <1>3
<1> HIDE DEF after
<1>5. after[0] = a
  BY <1>2, <1>4
<1>6. after[1] = Update(after[0], <<x, y>>[1])
  BY <1>2, <1>4
<1>7. after[2] = Update(after[1], <<x, y>>[2])
  BY <1>2, <1>4
<1> QED
  BY <1>1, <1>2, <1>5, <1>6, <1>7

\* An assembler has the fields it started with.
Assembled(d) ==
  d = [text |-> d.text, calls |-> d.calls, usage |-> d.usage, finish |-> d.finish]

Holds(e, text, calls, usage) ==
  Assembled(e) /\ e.text = text /\ e.calls = calls /\ e.usage = usage

LEMMA UpdateFacts ==
  ASSUME NEW d, Assembled(d)
  PROVE  /\ \A t : Holds(Update(d, TextDelta(t)), d.text \o t, d.calls, d.usage)
         /\ \A f : Holds(Update(d, CallDelta(f)), d.text, Gather(d.calls, f), d.usage)
         /\ \A u : Holds(Update(d, UsageDelta(u)), d.text, d.calls, u)
         /\ \A r : Holds(Update(d, FinishDelta(r)), d.text, d.calls, d.usage)
BY DEF Holds, Assembled, Update, TextDelta, CallDelta, UsageDelta, FinishDelta

\* What a parser keeps that matters to the answer.
Parsing(p) == p = [finish |-> p.finish, usage |-> p.usage, index |-> p.index,
                   terminal |-> p.terminal]

Kept(p, q) ==
  Parsing(q) /\ q.usage = p.usage /\ q.index = p.index /\ q.terminal = p.terminal

CallDeltas(calls) == [i \in DOMAIN calls |-> CallDelta(calls[i])]

\* The deltas of a frame of content.
Spoken(f) == If(f.text # <<>>, <<TextDelta(f.text)>>) \o CallDeltas(f.calls)

LEMMA ContentDeltas ==
  ASSUME NEW f
  PROVE  /\ \A t : f.text = <<t>> /\ f.calls = <<>> => Spoken(f) = <<TextDelta(<<t>>)>>
         /\ f.text = <<>> /\ f.calls = <<>> => Spoken(f) = <<>>
         /\ \A g : f.text = <<>> /\ f.calls = <<g>> => Spoken(f) = <<CallDelta(g)>>
<1>1. CallDeltas(<<>>) = <<>> /\ \A g : CallDeltas(<<g>>) = <<CallDelta(g)>>
  BY DEF CallDeltas
<1>2. ASSUME NEW t, f.text = <<t>>, f.calls = <<>> PROVE Spoken(f) = <<TextDelta(<<t>>)>>
  <2>1. If(f.text # <<>>, <<TextDelta(f.text)>>) = <<TextDelta(<<t>>)>>
    BY <1>2 DEF If
  <2> QED
    BY <1>1, <1>2, <2>1, JoinOne DEF Spoken
<1>3. ASSUME f.text = <<>> PROVE Spoken(f) = <<>> \o CallDeltas(f.calls)
  <2>1. If(f.text # <<>>, <<TextDelta(f.text)>>) = <<>>
    BY <1>3 DEF If
  <2> QED
    BY <2>1 DEF Spoken
<1> QED
  BY <1>1, <1>2, <1>3, JoinOne

LEMMA ContentFields ==
  ASSUME NEW type, NEW text, NEW calls
  PROVE  LET f == ContentFrame(type, text, calls)
         IN  /\ f.type = type /\ f.code = None /\ f.usage = <<>>
             /\ f.text = text /\ f.calls = calls
BY DEF ContentFrame, Frame

LEMMA StatusFields ==
  ASSUME NEW type, NEW code, NEW usage
  PROVE  LET f == StatusFrame(type, code, usage)
         IN  /\ f.type = type /\ f.code = code /\ f.usage = usage
             /\ f.text = <<>> /\ f.calls = <<>>
BY DEF StatusFrame, Frame

\* What a frame of content yields.
Yields(read, p, yielded) == Kept(p, read.parser) /\ read.deltas = yielded

\* A frame that yields nothing leaves a parser with a usage.
Left(read, usage, terminal) ==
  /\ Parsing(read.parser) /\ read.parser.usage = usage /\ read.parser.terminal = terminal
  /\ read.deltas = <<>>

UsageDeltas(usages) == [i \in DOMAIN usages |-> UsageDelta(OpenAiUsage(usages[i]))]

LEMMA OpenAiReads ==
  ASSUME NEW p, Parsing(p), NEW f, f.type = "chunk"
  PROVE  Yields(Chunk("openai", p, f), p,
                Spoken(f) \o UsageDeltas(f.usage))
<1>1. Kept(p, Ends(p, "openai", f))
  BY DEF Ends, Kept, Parsing
<1> QED
  BY <1>1 DEF Chunk, OpenAiChunk, Read, Each, CallDeltas, Spoken, Yields,
              UsageDeltas

LEMMA OpenAiSays ==
  ASSUME NEW p, Parsing(p), NEW f, f.type = "chunk", f.usage = <<>>,
         Spoken(f) \o <<>> = Spoken(f)
  PROVE  Yields(Chunk("openai", p, f), p, Spoken(f))
<1>1. UsageDeltas(f.usage) = <<>>
  BY DEF UsageDeltas
<1> QED
  BY <1>1, OpenAiReads

LEMMA OpenAiCounts ==
  ASSUME NEW p, Parsing(p), NEW f, NEW u, f.type = "chunk", f.usage = <<u>>, Spoken(f) = <<>>
  PROVE  Yields(Chunk("openai", p, f), p, <<UsageDelta(OpenAiUsage(u))>>)
<1>1. UsageDeltas(f.usage) = <<UsageDelta(OpenAiUsage(u))>>
  BY DEF UsageDeltas
<1> QED
  BY <1>1, OpenAiReads, JoinOne

LEMMA OpenAiStops ==
  ASSUME NEW p, Parsing(p), NEW f, f.type = "done"
  PROVE  Left(Chunk("openai", p, f), p.usage, TRUE)
BY DEF Chunk, OpenAiChunk, Read, Parsing, Left

LEMMA AnthropicStart ==
  ASSUME NEW p, NEW f, f.type = "content_block_start"
  PROVE  Chunk("anthropic", p, f) = Read(p, CallDeltas(f.calls))
BY DEF Chunk, AnthropicChunk, Each, CallDeltas

LEMMA AnthropicDelta ==
  ASSUME NEW p, NEW f, f.type = "content_block_delta"
  PROVE  Chunk("anthropic", p, f) = Read(p, Spoken(f))
BY DEF Chunk, AnthropicChunk, Each, CallDeltas, Spoken

LEMMA AnthropicOpens ==
  ASSUME NEW p, Parsing(p), NEW f, NEW u, f.type = "message_start", f.usage = <<u>>
  PROVE  Left(Chunk("anthropic", p, f), [AnthropicUsage(u) EXCEPT !.output = 0], p.terminal)
BY DEF Chunk, AnthropicChunk, Read, Parsing, Left

LEMMA AnthropicCounts ==
  ASSUME NEW p, Parsing(p), NEW f, NEW u, f.type = "message_delta", f.usage = <<u>>
  PROVE  Left(Chunk("anthropic", p, f),
              [p.usage EXCEPT !.output = IF u.output > @ THEN u.output ELSE @], p.terminal)
<1> DEFINE read == Chunk("anthropic", p, f)
           q == Ends(p, "anthropic", f)
           most == IF u.output > q.usage.output THEN u.output ELSE q.usage.output
<1>1. Kept(p, q)
  BY DEF Ends, Kept, Parsing
<1>2. read = Read([q EXCEPT !.usage.output = most], <<>>)
  BY DEF Chunk, AnthropicChunk
<1> HIDE DEF q
<1> QED
  BY <1>1, <1>2 DEF Read, Kept, Parsing, Left

LEMMA AnthropicStops ==
  ASSUME NEW p, Parsing(p), NEW f, f.type = "message_stop"
  PROVE  Left(Chunk("anthropic", p, f), p.usage, TRUE)
BY DEF Chunk, AnthropicChunk, Read, Parsing, Left

\* Gemini's calls are numbered as they come.
NumberedDeltas(calls, index) ==
  [i \in DOMAIN calls |-> CallDelta([calls[i] EXCEPT !.index = index + i - 1])]

GeminiLeft(q, p, f) ==
  /\ Parsing(q) /\ q.terminal = (f.code # None)
  /\ q.usage = IF f.usage = <<>> THEN p.usage ELSE GeminiUsage(f.usage[1])
  /\ q.index = p.index + Len(f.calls)

LEMMA GeminiReads ==
  ASSUME NEW p, Parsing(p), NEW f, NEW read, read = Chunk("gemini", p, f)
  PROVE  /\ GeminiLeft(read.parser, p, f)
         /\ read.deltas = If(f.text # <<>>, <<TextDelta(f.text)>>)
                          \o NumberedDeltas(f.calls, p.index)
<1> DEFINE q == Ends(p, "gemini", f)
           after == [q EXCEPT !.usage = IF f.usage = <<>> THEN @ ELSE GeminiUsage(f.usage[1]),
                              !.index = @ + Len(f.calls), !.terminal = f.code # None]
<1>0. Kept(p, q)
  BY DEF Ends, Kept, Parsing
<1>1. /\ Parsing(after) /\ after.terminal = (f.code # None)
      /\ after.usage = IF f.usage = <<>> THEN p.usage ELSE GeminiUsage(f.usage[1])
      /\ after.index = p.index + Len(f.calls)
  <2> DEFINE spent == IF f.usage = <<>> THEN q.usage ELSE GeminiUsage(f.usage[1])
             next == q.index + Len(f.calls)
             ends == f.code # None
             q1 == [q EXCEPT !.usage = spent]
             q2 == [q1 EXCEPT !.index = next]
             q3 == [q2 EXCEPT !.terminal = ends]
  <2>1. after = [q EXCEPT !.usage = spent, !.index = next, !.terminal = ends]
    OBVIOUS
  <2> HIDE DEF after, q, spent, next, ends
  <2>2. after = q3
    BY <2>1, Zenon
  <2>3. Parsing(q) /\ q.usage = p.usage /\ q.index = p.index
    BY <1>0 DEF Kept
  <2>4. Parsing(q1) /\ q1.usage = spent /\ q1.index = q.index
    BY <2>3 DEF Parsing
  <2> HIDE DEF q1
  <2>5. Parsing(q2) /\ q2.usage = spent /\ q2.index = next
    BY <2>4 DEF Parsing
  <2> HIDE DEF q2
  <2>6. Parsing(q3) /\ q3.usage = spent /\ q3.index = next /\ q3.terminal = ends
    BY <2>5 DEF Parsing
  <2> HIDE DEF q3
  <2> QED
    BY <2>2, <2>3, <2>6 DEF spent, next, ends
<1>2. read = Read(after, If(f.text # <<>>, <<TextDelta(f.text)>>)
                         \o NumberedDeltas(f.calls, p.index))
  BY DEF Chunk, GeminiChunk, NumberedDeltas
<1> HIDE DEF after
<1>3. GeminiLeft(after, p, f)
  BY <1>1 DEF GeminiLeft
<1>4. read.parser = after
      /\ read.deltas = If(f.text # <<>>, <<TextDelta(f.text)>>)
                       \o NumberedDeltas(f.calls, p.index)
  <2>1. PICK told : told = If(f.text # <<>>, <<TextDelta(f.text)>>)
                            \o NumberedDeltas(f.calls, p.index)
    OBVIOUS
  <2>2. read = Read(after, told)
    BY <1>2, <2>1, Zenon
  <2>3. Read(after, told).parser = after /\ Read(after, told).deltas = told
    BY DEF Read
  <2>4. read.parser = after
    BY <2>2, <2>3, Zenon
  <2>5. read.deltas = told
    BY <2>2, <2>3, Zenon
  <2> QED
    BY <2>1, <2>4, <2>5, Zenon
<1> QED
  BY <1>3, <1>4

LEMMA GeminiSays ==
  ASSUME NEW p, Parsing(p), p.index \in Int, p.terminal = FALSE,
         NEW f, f.code = None, f.usage = <<>>, f.calls = <<>>
  PROVE  Yields(Chunk("gemini", p, f), p, Spoken(f))
<1>1. PICK read : read = Chunk("gemini", p, f)
  OBVIOUS
<1>2. NumberedDeltas(<<>>, p.index) = <<>> /\ CallDeltas(<<>>) = <<>> /\ Len(<<>>) = 0
  BY DEF NumberedDeltas, CallDeltas
<1>3. GeminiLeft(read.parser, p, f) /\ read.deltas = Spoken(f)
  BY <1>1, <1>2, GeminiReads DEF Spoken
<1>4. read.parser.index = p.index
  BY <1>2, <1>3 DEF GeminiLeft
<1> QED
  BY <1>1, <1>3, <1>4 DEF GeminiLeft, Yields, Kept

\* A call takes the next index.
NumberedCall(read, p, call) ==
  /\ Parsing(read.parser) /\ read.parser.terminal = FALSE
  /\ read.parser.index = p.index + 1
  /\ read.deltas = <<CallDelta([call EXCEPT !.index = p.index])>>

LEMMA GeminiCalls ==
  ASSUME NEW p, Parsing(p), p.index \in Int, NEW call,
         NEW f, f.code = None, f.usage = <<>>, f.text = <<>>, f.calls = <<call>>
  PROVE  NumberedCall(Chunk("gemini", p, f), p, call)
<1>1. PICK read : read = Chunk("gemini", p, f)
  OBVIOUS
<1>2. NumberedDeltas(<<call>>, p.index) = <<CallDelta([call EXCEPT !.index = p.index])>>
  <2>1. p.index + 1 - 1 = p.index
    OBVIOUS
  <2>2. NumberedDeltas(<<call>>, p.index)
          = <<CallDelta([call EXCEPT !.index = p.index + 1 - 1])>>
    BY DEF NumberedDeltas
  <2> QED
    BY <2>1, <2>2
<1>3. If(f.text # <<>>, <<TextDelta(f.text)>>) = <<>>
  BY DEF If
<1>4. GeminiLeft(read.parser, p, f)
      /\ read.deltas = <<>> \o NumberedDeltas(<<call>>, p.index)
  BY <1>1, <1>3, GeminiReads
<1>5. read.deltas = <<CallDelta([call EXCEPT !.index = p.index])>>
  BY <1>2, <1>4, JoinOne
<1>6. Parsing(read.parser) /\ read.parser.terminal = FALSE /\ read.parser.index = p.index + 1
  <2>1. Len(<<call>>) = 1
    OBVIOUS
  <2> QED
    BY <1>4, <2>1 DEF GeminiLeft
<1> QED
  BY <1>1, <1>5, <1>6 DEF NumberedCall

LEMMA GeminiStops ==
  ASSUME NEW p, Parsing(p), NEW f, NEW u, f.code # None, f.usage = <<u>>,
         f.text = <<>>, f.calls = <<>>
  PROVE  Left(Chunk("gemini", p, f), GeminiUsage(u), TRUE)
<1>1. PICK read : read = Chunk("gemini", p, f)
  OBVIOUS
<1>2. NumberedDeltas(<<>>, p.index) = <<>>
  BY DEF NumberedDeltas
<1>3. If(f.text # <<>>, <<TextDelta(f.text)>>) = <<>>
  BY DEF If
<1>4. GeminiLeft(read.parser, p, f) /\ read.deltas = <<>> \o <<>>
  BY <1>1, <1>2, <1>3, GeminiReads
<1>5. read.parser.usage = GeminiUsage(u) /\ read.parser.terminal = TRUE
  <2>1. <<u>> # <<>> /\ <<u>>[1] = u
    OBVIOUS
  <2> QED
    BY <1>4, <2>1 DEF GeminiLeft
<1> QED
  BY <1>1, <1>4, <1>5, JoinOne DEF Left, GeminiLeft

-----------------------------------------------------------------------------
(* The calls of a stream, as they gather *)

\* The index under which the fragments of block k gather.
Number(protocol, answer, k) ==
  IF protocol = "anthropic" THEN k - 1 ELSE Nth(answer.blocks, "call", k - 1)

CallsIn(answer, n) == {k \in 1..n : answer.blocks[k].kind = "call"}

Numbers(protocol, answer, n) == {Number(protocol, answer, k) : k \in CallsIn(answer, n)}

\* A call with the first n fragments of its arguments.
Begun(block, n) == [id |-> block.id, name |-> block.name, args |-> SubSeq(block.args, 1, n)]

\* The calls of the first w blocks are whole; m # 0 says that block w + 1 is a
\* call, of which m - 1 fragments came.
Gathered(protocol, answer, w, m, calls) ==
  /\ DOMAIN calls = Numbers(protocol, answer, IF m = 0 THEN w ELSE w + 1)
  /\ \A k \in CallsIn(answer, w) :
       calls[Number(protocol, answer, k)] = CallOf(answer)[k]
  /\ m # 0 => /\ answer.blocks[w + 1].kind = "call"
              /\ calls[Number(protocol, answer, w + 1)] = Begun(answer.blocks[w + 1], m - 1)

LEMMA NumberFacts ==
  ASSUME NEW protocol, NEW answer, NEW k \in Nat \ {0}, answer.blocks[k].kind = "call"
  PROVE  /\ Number(protocol, answer, k) \in Nat
         /\ \A l \in Nat : answer.blocks[l].kind = "call" /\ k < l =>
              Number(protocol, answer, k) < Number(protocol, answer, l)
<1>1. k - 1 \in Nat
  OBVIOUS
<1>2. Number(protocol, answer, k) \in Nat
  BY <1>1, NthNat DEF Number
<1>3. ASSUME NEW l \in Nat, answer.blocks[l].kind = "call", k < l
      PROVE  Number(protocol, answer, k) < Number(protocol, answer, l)
  <2>1. l - 1 \in Nat /\ k <= l - 1
    BY <1>3
  <2>2. /\ Nth(answer.blocks, "call", k - 1) \in Nat
        /\ Nth(answer.blocks, "call", l - 1) \in Nat
        /\ Nth(answer.blocks, "call", k - 1) + 1 <= Nth(answer.blocks, "call", l - 1)
    BY <2>1, NthGrows
  <2> QED
    BY <1>3, <2>1, <2>2 DEF Number
<1> QED
  BY <1>2, <1>3

\* A block that is no call adds no number, and a call adds one that is new.
LEMMA NumbersGrow ==
  ASSUME NEW protocol, NEW answer, NEW w \in Nat
  PROVE  /\ answer.blocks[w + 1].kind # "call" =>
              /\ CallsIn(answer, w + 1) = CallsIn(answer, w)
              /\ Numbers(protocol, answer, w + 1) = Numbers(protocol, answer, w)
         /\ answer.blocks[w + 1].kind = "call" =>
              /\ CallsIn(answer, w + 1) = CallsIn(answer, w) \cup {w + 1}
              /\ Numbers(protocol, answer, w + 1)
                   = Numbers(protocol, answer, w) \cup {Number(protocol, answer, w + 1)}
              /\ Number(protocol, answer, w + 1) \notin Numbers(protocol, answer, w)
<1>1. answer.blocks[w + 1].kind # "call" => CallsIn(answer, w + 1) = CallsIn(answer, w)
  BY DEF CallsIn
<1>2. answer.blocks[w + 1].kind = "call" =>
        CallsIn(answer, w + 1) = CallsIn(answer, w) \cup {w + 1}
  BY DEF CallsIn
<1>3. ASSUME answer.blocks[w + 1].kind = "call", NEW k \in CallsIn(answer, w)
      PROVE  Number(protocol, answer, k) # Number(protocol, answer, w + 1)
  <2>1. k \in Nat \ {0} /\ answer.blocks[k].kind = "call" /\ w + 1 \in Nat \ {0} /\ k < w + 1
    BY DEF CallsIn
  <2>2. Number(protocol, answer, k) \in Nat /\ Number(protocol, answer, w + 1) \in Nat
        /\ Number(protocol, answer, k) < Number(protocol, answer, w + 1)
    BY <1>3, <2>1, NumberFacts
  <2> QED
    BY <2>2
<1> QED
  BY <1>1, <1>2, <1>3, Zenon DEF Numbers

\* Only call i is another one.
Amended(calls, i, call, more) ==
  /\ DOMAIN more = DOMAIN calls \cup {i} /\ more[i] = call
  /\ \A j \in DOMAIN calls : j # i => more[j] = calls[j]

LEMMA GatherNew ==
  ASSUME NEW calls, NEW i, NEW id, NEW name, NEW args, i \notin DOMAIN calls
  PROVE  Amended(calls, i, [id |-> id, name |-> name, args |-> args],
                 Gather(calls, Fragment(i, id, name, args)))
BY DEF Gather, Fragment, Amended

LEMMA GatherMore ==
  ASSUME NEW calls, NEW i, NEW args, i \in DOMAIN calls
  PROVE  Amended(calls, i, [id |-> calls[i].id, name |-> calls[i].name,
                            args |-> calls[i].args \o args],
                 Gather(calls, Fragment(i, Blank, Blank, args)))
BY DEF Gather, Fragment, Amended

LEMMA GatheredNone ==
  ASSUME NEW protocol, NEW answer
  PROVE  Gathered(protocol, answer, 0, 0, <<>>)
BY DEF Gathered, Numbers, CallsIn

LEMMA GatheredPast ==
  ASSUME NEW protocol, NEW answer, NEW w \in Nat, NEW calls,
         Gathered(protocol, answer, w, 0, calls), answer.blocks[w + 1].kind # "call"
  PROVE  Gathered(protocol, answer, w + 1, 0, calls)
BY NumbersGrow, Zenon DEF Gathered

LEMMA FragmentFacts ==
  ASSUME NEW args \in Seq(STRING)
  PROVE  /\ SubSeq(args, 1, 0) = <<>> /\ SubSeq(args, 1, Len(args)) = args
         /\ \A n \in 1..Len(args) : SubSeq(args, 1, n - 1) \o <<args[n]>> = SubSeq(args, 1, n)
<1>0. Len(args) \in Nat
  BY LenProperties
<1>1. SubSeq(args, 1, 0) = <<>>
  BY <1>0, SubSeqEmpty
<1>2. SubSeq(args, 1, Len(args)) = args
  BY SubSeqFull
<1>3. ASSUME NEW n \in 1..Len(args)
      PROVE  SubSeq(args, 1, n - 1) \o <<args[n]>> = SubSeq(args, 1, n)
  <2>1. /\ SubSeq(args, 1, n - 1) \in Seq(STRING) /\ Len(SubSeq(args, 1, n - 1)) = n - 1
        /\ \A i \in 1..(n - 1) : SubSeq(args, 1, n - 1)[i] = args[i]
    <3>1. n - 1 \in Nat /\ \A i \in 1..(n - 1) : i \in 1..Len(args)
      BY <1>0
    <3> QED
      BY <1>0, <3>1
  <2>2. /\ SubSeq(args, 1, n) \in Seq(STRING) /\ Len(SubSeq(args, 1, n)) = n
        /\ \A i \in 1..n : SubSeq(args, 1, n)[i] = args[i]
    BY <1>0
  <2>3. args[n] \in STRING
    BY ElementOfSeq
  <2> DEFINE s == SubSeq(args, 1, n - 1)
             t == SubSeq(args, 1, n)
  <2> HIDE DEF s, t
  <2>4. s \o <<args[n]>> \in Seq(STRING) /\ Len(s \o <<args[n]>>) = n
        /\ \A i \in 1..n : (s \o <<args[n]>>)[i] = t[i]
    BY <2>1, <2>2, <2>3 DEF s, t
  <2>5. s \o <<args[n]>> = t
    BY <2>2, <2>4, SeqEqual DEF t
  <2> QED
    BY <2>5 DEF s, t
<1> QED
  BY <1>1, <1>2, <1>3

LEMMA GatheredOpens ==
  ASSUME NEW protocol, NEW answer \in Answer, NEW w \in Nat, w + 1 <= Len(answer.blocks),
         NEW calls, Gathered(protocol, answer, w, 0, calls),
         NEW block, block = answer.blocks[w + 1], block.kind = "call", NEW args,
         NEW more, more = Gather(calls, Fragment(Number(protocol, answer, w + 1),
                                                 block.id, block.name, args))
  PROVE  /\ args = <<>> => Gathered(protocol, answer, w, 1, more)
         /\ args = block.args => Gathered(protocol, answer, w + 1, 0, more)
<1> DEFINE i == Number(protocol, answer, w + 1)
<1>0. w + 1 \in 1..Len(answer.blocks) /\ block.args \in Seq(STRING)
  BY BlockFacts
<1>1. DOMAIN calls = Numbers(protocol, answer, w) /\ i \notin DOMAIN calls
  BY NumbersGrow DEF Gathered
<1>2. /\ DOMAIN more = DOMAIN calls \cup {i}
      /\ more[i] = [id |-> block.id, name |-> block.name, args |-> args]
      /\ \A j \in DOMAIN calls : more[j] = calls[j]
  <2>1. more = Gather(calls, Fragment(i, block.id, block.name, args))
    OBVIOUS
  <2> HIDE DEF i
  <2>2. Amended(calls, i, [id |-> block.id, name |-> block.name, args |-> args], more)
    BY <1>1, <2>1, GatherNew
  <2> QED
    BY <1>1, <2>2 DEF Amended
<1>3. DOMAIN more = Numbers(protocol, answer, w + 1)
  BY <1>1, <1>2, NumbersGrow
<1>4. ASSUME NEW k \in CallsIn(answer, w)
      PROVE  more[Number(protocol, answer, k)] = CallOf(answer)[k]
  <2>1. Number(protocol, answer, k) \in DOMAIN calls
    BY <1>1 DEF Numbers
  <2> QED
    BY <1>2, <2>1 DEF Gathered
<1>5. ASSUME args = <<>> PROVE Gathered(protocol, answer, w, 1, more)
  <2>1. more[i] = Begun(block, 1 - 1)
    BY <1>0, <1>2, <1>5, FragmentFacts DEF Begun
  <2> HIDE DEF i
  <2> QED
    BY <1>3, <1>4, <2>1 DEF Gathered, i
<1>6. ASSUME args = block.args PROVE Gathered(protocol, answer, w + 1, 0, more)
  <2>1. more[i] = CallOf(answer)[w + 1]
    BY <1>0, <1>2, <1>6, BlockFacts DEF CallOf
  <2>2. ASSUME NEW k \in CallsIn(answer, w + 1)
        PROVE  more[Number(protocol, answer, k)] = CallOf(answer)[k]
    <3>1. k \in CallsIn(answer, w) \/ k = w + 1
      BY NumbersGrow
    <3> QED
      BY <1>4, <2>1, <3>1
  <2> HIDE DEF i
  <2> QED
    BY <1>3, <2>2 DEF Gathered
<1> QED
  BY <1>5, <1>6

LEMMA GatheredGrows ==
  ASSUME NEW protocol, NEW answer \in Answer, NEW w \in Nat, w + 1 <= Len(answer.blocks),
         NEW calls, NEW m \in 1..Len(answer.blocks[w + 1].args),
         Gathered(protocol, answer, w, m, calls),
         NEW more, more = Gather(calls, Fragment(Number(protocol, answer, w + 1), Blank, Blank,
                                                 <<answer.blocks[w + 1].args[m]>>))
  PROVE  Gathered(protocol, answer, w, m + 1, more)
<1> DEFINE i == Number(protocol, answer, w + 1)
           block == answer.blocks[w + 1]
<1>0. w + 1 \in 1..Len(answer.blocks) /\ block.args \in Seq(STRING) /\ m # 0 /\ m \in Nat
      /\ m + 1 # 0 /\ (m + 1) - 1 = m
  <2>1. block.args \in Seq(STRING) /\ w + 1 \in 1..Len(answer.blocks)
    BY BlockFacts
  <2>2. Len(block.args) \in Nat
    BY <2>1, LenProperties
  <2> HIDE DEF block
  <2> QED
    BY <2>1, <2>2 DEF block
<1>1. /\ DOMAIN calls = Numbers(protocol, answer, w + 1) /\ block.kind = "call"
      /\ calls[i] = Begun(block, m - 1)
  BY <1>0 DEF Gathered
<1>2. /\ i \in DOMAIN calls
      /\ \A k \in CallsIn(answer, w) : Number(protocol, answer, k) \in DOMAIN calls \ {i}
  <2>1. /\ Numbers(protocol, answer, w + 1) = Numbers(protocol, answer, w) \cup {i}
        /\ i \notin Numbers(protocol, answer, w)
    BY <1>1, NumbersGrow
  <2>2. \A k \in CallsIn(answer, w) : Number(protocol, answer, k) \in Numbers(protocol, answer, w)
    BY DEF Numbers
  <2> HIDE DEF i
  <2> QED
    BY <1>1, <2>1, <2>2
<1>3. /\ DOMAIN more = DOMAIN calls
      /\ more[i] = [id |-> calls[i].id, name |-> calls[i].name,
                    args |-> calls[i].args \o <<block.args[m]>>]
      /\ \A j \in DOMAIN calls : j # i => more[j] = calls[j]
  <2>1. more = Gather(calls, Fragment(i, Blank, Blank, <<block.args[m]>>))
    OBVIOUS
  <2> HIDE DEF i, block
  <2>2. Amended(calls, i, [id |-> calls[i].id, name |-> calls[i].name,
                           args |-> calls[i].args \o <<block.args[m]>>], more)
    BY <1>2, <2>1, GatherMore
  <2> QED
    BY <1>2, <2>2 DEF Amended
<1>4. more[i] = Begun(block, m)
  <2>1. SubSeq(block.args, 1, m - 1) \o <<block.args[m]>> = SubSeq(block.args, 1, m)
    BY <1>0, FragmentFacts
  <2>2. /\ calls[i].id = block.id /\ calls[i].name = block.name
        /\ calls[i].args = SubSeq(block.args, 1, m - 1)
    <3> HIDE DEF i
    <3> QED
      BY <1>1 DEF Begun
  <2> HIDE DEF i, block
  <2> QED
    BY <1>3, <2>1, <2>2, Zenon DEF Begun
<1>5. ASSUME NEW k \in CallsIn(answer, w)
      PROVE  more[Number(protocol, answer, k)] = CallOf(answer)[k]
  BY <1>2, <1>3 DEF Gathered
<1> HIDE DEF i, block
<1> QED
  BY <1>0, <1>1, <1>3, <1>4, <1>5 DEF Gathered, i, block

LEMMA GatheredWhole ==
  ASSUME NEW protocol, NEW answer \in Answer, NEW w \in Nat, w + 1 <= Len(answer.blocks),
         NEW calls, Gathered(protocol, answer, w, 1 + Len(answer.blocks[w + 1].args), calls)
  PROVE  Gathered(protocol, answer, w + 1, 0, calls)
<1> DEFINE block == answer.blocks[w + 1]
<1>0. w + 1 \in 1..Len(answer.blocks) /\ block.args \in Seq(STRING)
  BY BlockFacts
<1>1. Len(block.args) \in Nat /\ 1 + Len(block.args) # 0
      /\ (1 + Len(block.args)) - 1 = Len(block.args)
  <2>1. Len(block.args) \in Nat
    BY <1>0, LenProperties
  <2> HIDE DEF block
  <2> QED
    BY <2>1
<1>2. /\ DOMAIN calls = Numbers(protocol, answer, w + 1) /\ block.kind = "call"
      /\ calls[Number(protocol, answer, w + 1)] = Begun(block, Len(block.args))
  BY <1>1 DEF Gathered
<1>3. calls[Number(protocol, answer, w + 1)] = CallOf(answer)[w + 1]
  BY <1>0, <1>2, FragmentFacts, BlockFacts DEF Begun, CallOf
<1>4. ASSUME NEW k \in CallsIn(answer, w + 1)
      PROVE  calls[Number(protocol, answer, k)] = CallOf(answer)[k]
  <2>1. k \in CallsIn(answer, w) \/ k = w + 1
    BY <1>2, NumbersGrow
  <2> QED
    BY <1>3, <2>1 DEF Gathered
<1> QED
  BY <1>2, <1>4 DEF Gathered

\* The calls of the whole answer, built in the order of their numbers.
BuiltCalls(calls) ==
  [k \in 1..Cardinality(DOMAIN calls) |->
     [calls[InOrder(DOMAIN calls, k)] EXCEPT !.args = SafeObject(@)]]

LEMMA GatheredBuild ==
  ASSUME NEW protocol, NEW answer \in Answer, NEW calls,
         Gathered(protocol, answer, Len(answer.blocks), 0, calls)
  PROVE  BuiltCalls(calls) = Meant(answer).calls
<1> DEFINE n == Len(answer.blocks)
           K == CallsIn(answer, n)
           f == [k \in K |-> Number(protocol, answer, k)]
           asked == Asked(answer)
<1>0. n \in Nat
  BY BlockFacts
<1>1. /\ K = {k \in 1..n : answer.blocks[k].kind = "call"}
      /\ \A k \in K : f[k] \in Int
      /\ \A k, l \in K : k < l => f[k] < f[l]
      /\ {f[k] : k \in K} = DOMAIN calls
  <2>1. \A k \in K : k \in Nat \ {0} /\ answer.blocks[k].kind = "call"
    BY <1>0 DEF CallsIn
  <2>2. \A k \in K : Number(protocol, answer, k) \in Nat
    BY <2>1, NumberFacts
  <2>3. \A k, l \in K : k < l => Number(protocol, answer, k) < Number(protocol, answer, l)
    BY <2>1, NumberFacts
  <2>4. DOMAIN calls = {Number(protocol, answer, k) : k \in K}
    BY DEF Gathered, Numbers
  <2>5. K = {k \in 1..n : answer.blocks[k].kind = "call"}
    BY DEF CallsIn
  <2>6. \A k \in K : f[k] = Number(protocol, answer, k)
    OBVIOUS
  <2> HIDE DEF n, K, f
  <2>7. {f[k] : k \in K} = {Number(protocol, answer, k) : k \in K}
    BY <2>6
  <2> QED
    BY <2>2, <2>3, <2>4, <2>5, <2>6, <2>7
<1>2. /\ Cardinality(DOMAIN calls) = Nth(answer.blocks, "call", n)
      /\ \A k \in K : InOrder(DOMAIN calls, Nth(answer.blocks, "call", k - 1) + 1) = f[k]
  <2> HIDE DEF n, K, f
  <2>1. ImageOf(f, DOMAIN calls, answer.blocks, "call", n)
    BY <1>1 DEF ImageOf
  <2>2. Ordered(DOMAIN calls, f, answer.blocks, "call", n)
    BY <1>0, <1>1, <2>1, ImageInOrder
  <2> QED
    BY <1>1, <2>2 DEF Ordered
<1>3. Lists(asked, answer.blocks, "call", n, CallOf(answer))
  BY AskedLists
<1>4. DOMAIN asked = 1..Cardinality(DOMAIN calls)
  BY <1>2, <1>3 DEF Lists
<1>5. ASSUME NEW m \in 1..Cardinality(DOMAIN calls)
      PROVE  calls[InOrder(DOMAIN calls, m)] = asked[m]
  <2>1. PICK k \in 1..n : answer.blocks[k].kind = "call"
                          /\ m = Nth(answer.blocks, "call", k - 1) + 1
    <3> HIDE DEF n
    <3> QED
      BY <1>0, <1>2, NthReached
  <2>2. k \in K
    BY <2>1 DEF CallsIn
  <2>3. InOrder(DOMAIN calls, m) = Number(protocol, answer, k)
    BY <1>2, <2>1, <2>2
  <2>4. calls[Number(protocol, answer, k)] = CallOf(answer)[k]
    BY <2>2 DEF Gathered
  <2>5. asked[m] = CallOf(answer)[k]
    BY <1>3, <2>1 DEF Lists
  <2> QED
    BY <2>3, <2>4, <2>5
<1>6. Meant(answer).calls = [i \in DOMAIN asked |-> [asked[i] EXCEPT !.args = SafeObject(@)]]
  BY DEF Meant
<1> HIDE DEF asked
<1> QED
  BY <1>4, <1>5, <1>6 DEF BuiltCalls

-----------------------------------------------------------------------------
(* What the frames of a block tell *)

\* An assembler has the first w blocks, and the first m frames of a call behind them.
HeardTo(protocol, answer, w, m, d) ==
  /\ Assembled(d) /\ d.text \in Seq(STRING)
  /\ Lists(d.text, answer.blocks, "text", w, TextOf(answer))
  /\ Gathered(protocol, answer, w, m, d.calls)

LEMMA ListsPast ==
  ASSUME NEW s, NEW blocks, NEW kind, NEW w \in Nat, NEW value,
         Lists(s, blocks, kind, w, value), blocks[w + 1].kind # kind
  PROVE  Lists(s, blocks, kind, w + 1, value)
<1>1. Nth(blocks, kind, w + 1) = Nth(blocks, kind, w)
  <2>1. w + 1 \in Nat \ {0} /\ (w + 1) - 1 = w
    OBVIOUS
  <2> QED
    BY <2>1, NthStep
<1>2. ASSUME NEW k \in 1..(w + 1), blocks[k].kind = kind
      PROVE  s[Nth(blocks, kind, k - 1) + 1] = value[k]
  <2>1. k \in 1..w
    BY <1>2
  <2> QED
    BY <1>2, <2>1 DEF Lists
<1> QED
  BY <1>1, <1>2 DEF Lists

LEMMA HeardText ==
  ASSUME NEW protocol, NEW answer \in Answer, NEW w \in Nat, w + 1 <= Len(answer.blocks),
         NEW d, HeardTo(protocol, answer, w, 0, d),
         NEW block, block = answer.blocks[w + 1], block.kind = "text"
  PROVE  HeardTo(protocol, answer, w + 1, 0, Update(d, TextDelta(<<block.text>>)))
<1>0. PICK t : t = <<block.text>>
  OBVIOUS
<1> DEFINE e == Update(d, TextDelta(t))
<1>1. w + 1 \in Nat \ {0} /\ (w + 1) - 1 = w /\ w + 1 \in 1..Len(answer.blocks)
  BY BlockFacts
<1>2. TextOf(answer)[w + 1] = block.text /\ block.text \in STRING
  BY <1>1, BlockFacts DEF TextOf
<1>3. Assembled(e) /\ e.text = d.text \o t /\ e.calls = d.calls
  <2>1. Assembled(d)
    BY DEF HeardTo
  <2>2. Holds(e, d.text \o t, d.calls, d.usage)
    BY <2>1, UpdateFacts
  <2> QED
    BY <2>2 DEF Holds
<1>4. d.text \o t \in Seq(STRING) /\ Lists(d.text \o t, answer.blocks, "text", w + 1, TextOf(answer))
  <2>1. PICK s, blocks, n, value :
          s = d.text /\ blocks = answer.blocks /\ n = w + 1 /\ value = TextOf(answer)
    OBVIOUS
  <2>2. /\ s \in Seq(STRING) /\ n \in Nat \ {0} /\ n - 1 = w
        /\ Lists(s, blocks, "text", n - 1, value)
    BY <1>1, <2>1 DEF HeardTo
  <2>3. blocks[n].kind = "text" /\ value[n] \in STRING /\ <<value[n]>> = t
    BY <1>0, <1>2, <2>1
  <2>4. PICK grown : grown = s \o If(blocks[n].kind = "text", <<value[n]>>)
    OBVIOUS
  <2>5. grown \in Seq(STRING) /\ Lists(grown, blocks, "text", n, value)
    BY <2>2, <2>3, <2>4, ListsGrow
  <2>6. grown = d.text \o t
    BY <2>1, <2>3, <2>4 DEF If
  <2> QED
    BY <2>1, <2>5, <2>6
<1>5. Gathered(protocol, answer, w + 1, 0, d.calls)
  BY GatheredPast DEF HeardTo
<1> HIDE DEF e
<1> QED
  <2>1. /\ e.text \in Seq(STRING)
        /\ Lists(e.text, answer.blocks, "text", w + 1, TextOf(answer))
    BY <1>3, <1>4
  <2>2. HeardTo(protocol, answer, w + 1, 0, e)
    BY <1>3, <1>5, <2>1 DEF HeardTo
  <2> QED
    BY <1>0, <2>2 DEF e

LEMMA HeardPast ==
  ASSUME NEW protocol, NEW answer, NEW w \in Nat,
         NEW d, HeardTo(protocol, answer, w, 0, d), answer.blocks[w + 1].kind = "thought"
  PROVE  HeardTo(protocol, answer, w + 1, 0, d)
<1>1. answer.blocks[w + 1].kind # "text" /\ answer.blocks[w + 1].kind # "call"
  OBVIOUS
<1> QED
  BY <1>1, ListsPast, GatheredPast DEF HeardTo

\* A call from its first frame, which may be its only one, to its last.
LEMMA HeardOpens ==
  ASSUME NEW protocol, NEW answer \in Answer, NEW w \in Nat, w + 1 <= Len(answer.blocks),
         NEW block, block = answer.blocks[w + 1], block.kind = "call",
         NEW d, HeardTo(protocol, answer, w, 0, d), NEW args, NEW f,
         f = Fragment(Number(protocol, answer, w + 1), block.id, block.name, args),
         NEW e, e = Update(d, CallDelta(f))
  PROVE  /\ args = <<>> => HeardTo(protocol, answer, w, 1, e)
         /\ args = block.args => HeardTo(protocol, answer, w + 1, 0, e)
<1>1. Assembled(e) /\ e.text = d.text /\ e.calls = Gather(d.calls, f)
  <2>1. Assembled(d)
    BY DEF HeardTo
  <2>2. Holds(e, d.text, Gather(d.calls, f), d.usage)
    BY <2>1, UpdateFacts
  <2> QED
    BY <2>2 DEF Holds
<1>2. /\ args = <<>> => Gathered(protocol, answer, w, 1, e.calls)
      /\ args = block.args => Gathered(protocol, answer, w + 1, 0, e.calls)
  <2>1. Gathered(protocol, answer, w, 0, d.calls)
    BY DEF HeardTo
  <2> QED
    BY <1>1, <2>1, GatheredOpens
<1>3. Lists(d.text, answer.blocks, "text", w + 1, TextOf(answer))
  <2>1. block.kind # "text"
    OBVIOUS
  <2> QED
    BY <2>1, ListsPast DEF HeardTo
<1> QED
  BY <1>1, <1>2, <1>3 DEF HeardTo

LEMMA HeardMore ==
  ASSUME NEW protocol, NEW answer \in Answer, NEW w \in Nat, w + 1 <= Len(answer.blocks),
         NEW block, block = answer.blocks[w + 1], NEW m \in 1..Len(block.args),
         NEW d, HeardTo(protocol, answer, w, m, d), NEW f,
         f = Fragment(Number(protocol, answer, w + 1), Blank, Blank, <<block.args[m]>>),
         NEW e, e = Update(d, CallDelta(f))
  PROVE  HeardTo(protocol, answer, w, m + 1, e)
<1>1. Assembled(e) /\ e.text = d.text /\ e.calls = Gather(d.calls, f)
  <2>1. Assembled(d)
    BY DEF HeardTo
  <2>2. Holds(e, d.text, Gather(d.calls, f), d.usage)
    BY <2>1, UpdateFacts
  <2> QED
    BY <2>2 DEF Holds
<1>2. Gathered(protocol, answer, w, m + 1, e.calls)
  <2>1. Gathered(protocol, answer, w, m, d.calls)
    BY DEF HeardTo
  <2> QED
    BY <1>1, <2>1, GatheredGrows
<1> QED
  BY <1>1, <1>2 DEF HeardTo

LEMMA HeardClosed ==
  ASSUME NEW protocol, NEW answer \in Answer, NEW w \in Nat, w + 1 <= Len(answer.blocks),
         NEW block, block = answer.blocks[w + 1], block.kind = "call",
         NEW d, HeardTo(protocol, answer, w, 1 + Len(block.args), d)
  PROVE  HeardTo(protocol, answer, w + 1, 0, d)
<1>1. block.kind # "text"
  OBVIOUS
<1> QED
  BY <1>1, ListsPast, GatheredWhole DEF HeardTo

\* The frames of a block, and the deltas a parser has from each.
Count(protocol, block) ==
  IF block.kind = "call" /\ protocol # "gemini" THEN 1 + Len(block.args) ELSE 1

Deltas(protocol, answer, k, i) ==
  LET b == answer.blocks[k]
      Piece(id, name, args) ==
        <<CallDelta(Fragment(Number(protocol, answer, k), id, name, args))>>
  IN  IF b.kind = "text" THEN <<TextDelta(<<b.text>>)>>
      ELSE IF b.kind = "thought" THEN <<>>
      ELSE IF protocol = "gemini" THEN Piece(b.id, b.name, b.args)
      ELSE IF i = 1 THEN Piece(b.id, b.name, <<>>)
      ELSE Piece(Blank, Blank, <<b.args[i - 1]>>)

LEMMA DeltasHeard ==
  ASSUME NEW protocol, NEW answer \in Answer, NEW k \in 1..Len(answer.blocks),
         NEW i \in 1..Count(protocol, answer.blocks[k]),
         NEW d, HeardTo(protocol, answer, k - 1, i - 1, d),
         NEW e, e = Assemble(d, Deltas(protocol, answer, k, i))
  PROVE  IF i + 1 \in 1..Count(protocol, answer.blocks[k])
         THEN HeardTo(protocol, answer, k - 1, i, e)
         ELSE HeardTo(protocol, answer, k, 0, e)
<1> DEFINE block == answer.blocks[k]
           w == k - 1
<1>0. /\ Len(answer.blocks) \in Nat /\ w \in Nat /\ w + 1 = k /\ w + 1 <= Len(answer.blocks)
      /\ block.kind \in {"text", "thought", "call"} /\ block.args \in Seq(STRING)
  BY BlockFacts
<1>1. Len(block.args) \in Nat
  BY <1>0, LenProperties
<1>2. CASE block.kind = "text"
  <2>1. i = 1 /\ Count(protocol, block) = 1
    BY <1>2 DEF Count
  <2>2. e = Update(d, TextDelta(<<block.text>>))
    BY <1>2, AssembleOne DEF Deltas
  <2>3. HeardTo(protocol, answer, w, 0, d)
    BY <2>1
  <2> HIDE DEF block, w
  <2>4. HeardTo(protocol, answer, w + 1, 0, e)
    BY <1>0, <1>2, <2>2, <2>3, HeardText DEF block
  <2> QED
    BY <1>0, <2>1, <2>4 DEF block
<1>3. CASE block.kind = "thought"
  <2>1. i = 1 /\ Count(protocol, block) = 1
    BY <1>3 DEF Count
  <2>2. e = d
    BY <1>3, AssembleNone DEF Deltas
  <2>3. HeardTo(protocol, answer, w, 0, d)
    BY <2>1
  <2> HIDE DEF block, w
  <2>4. HeardTo(protocol, answer, w + 1, 0, e)
    BY <1>0, <1>3, <2>2, <2>3, HeardPast DEF block
  <2> QED
    BY <1>0, <2>1, <2>4 DEF block
<1>4. CASE block.kind = "call" /\ protocol = "gemini"
  <2> DEFINE f == Fragment(Number(protocol, answer, k), block.id, block.name, block.args)
  <2>1. i = 1 /\ Count(protocol, block) = 1
    BY <1>4 DEF Count
  <2>2. e = Update(d, CallDelta(f))
    BY <1>4, AssembleOne DEF Deltas
  <2>3. HeardTo(protocol, answer, w, 0, d)
    BY <2>1
  <2>4. f = Fragment(Number(protocol, answer, w + 1), block.id, block.name, block.args)
        /\ block = answer.blocks[w + 1]
    BY <1>0
  <2> HIDE DEF block, w, f
  <2>5. HeardTo(protocol, answer, w + 1, 0, e)
    BY <1>0, <1>4, <2>2, <2>3, <2>4, HeardOpens
  <2> QED
    BY <1>0, <2>1, <2>5 DEF block
<1>5. CASE block.kind = "call" /\ protocol # "gemini"
  <2>1. Count(protocol, block) = 1 + Len(block.args)
    BY <1>5 DEF Count
  <2>2. HeardTo(protocol, answer, w, i, e)
    <3>1. CASE i = 1
      <4> DEFINE f == Fragment(Number(protocol, answer, k), block.id, block.name, <<>>)
      <4>1. e = Update(d, CallDelta(f))
        BY <1>5, <3>1, AssembleOne DEF Deltas
      <4>2. HeardTo(protocol, answer, w, 0, d)
        BY <3>1
      <4>3. f = Fragment(Number(protocol, answer, w + 1), block.id, block.name, <<>>)
            /\ block = answer.blocks[w + 1]
        BY <1>0
      <4> HIDE DEF block, w, f
      <4> QED
        BY <1>0, <1>5, <3>1, <4>1, <4>2, <4>3, HeardOpens
    <3>2. CASE i # 1
      <4> DEFINE m == i - 1
                 f == Fragment(Number(protocol, answer, k), Blank, Blank, <<block.args[m]>>)
      <4>1. m \in 1..Len(block.args) /\ m + 1 = i
        <5> HIDE DEF block
        <5> QED
          BY <1>1, <2>1, <3>2 DEF block
      <4>2. e = Update(d, CallDelta(f))
        BY <1>5, <3>2, AssembleOne DEF Deltas
      <4>3. HeardTo(protocol, answer, w, m, d)
        OBVIOUS
      <4>4. f = Fragment(Number(protocol, answer, w + 1), Blank, Blank, <<block.args[m]>>)
            /\ block = answer.blocks[w + 1]
        BY <1>0
      <4> HIDE DEF block, w, m, f
      <4>5. HeardTo(protocol, answer, w, m + 1, e)
        BY <1>0, <4>1, <4>2, <4>3, <4>4, HeardMore
      <4> QED
        BY <4>1, <4>5
    <3> QED
      BY <3>1, <3>2
  <2>3. CASE i + 1 \in 1..Count(protocol, block)
    BY <2>2, <2>3
  <2>4. CASE i + 1 \notin 1..Count(protocol, block)
    <3>1. i = 1 + Len(block.args)
      <4> HIDE DEF block
      <4> QED
        BY <1>1, <2>1, <2>4 DEF block
    <3>2. HeardTo(protocol, answer, w, 1 + Len(block.args), e)
      BY <2>2, <3>1
    <3> HIDE DEF block, w
    <3>3. HeardTo(protocol, answer, w + 1, 0, e)
      BY <1>0, <1>5, <3>2, HeardClosed DEF block
    <3> QED
      BY <1>0, <2>4, <3>3 DEF block
  <2> QED
    BY <2>3, <2>4
<1> QED
  BY <1>0, <1>2, <1>3, <1>4, <1>5

\* What a parser has counted when w blocks are read.
Metering(protocol, answer, w, p) ==
  /\ Parsing(p) /\ p.terminal = FALSE
  /\ protocol = "anthropic" => p.usage = Usage(answer.cost.input, 0, answer.cost.cached)
  /\ protocol = "gemini" => p.index = Nth(answer.blocks, "call", w)

\* The calls of frame i of block k.
CallsOf(protocol, answer, k, i) ==
  LET b == answer.blocks[k]
      index == IndexOf(protocol, answer, k)
  IN  IF b.kind # "call" THEN <<>>
      ELSE IF protocol = "gemini" THEN <<Fragment(index, b.id, b.name, b.args)>>
      ELSE IF i = 1 THEN <<Fragment(index, b.id, b.name, <<>>)>>
      ELSE <<Fragment(index, Blank, Blank, <<b.args[i - 1]>>)>>

BlockFrame(protocol, answer, k, i, f) ==
  LET block == answer.blocks[k]
  IN  /\ f.code = None /\ f.usage = <<>>
      /\ f.type = IF protocol # "anthropic" THEN "chunk"
                  ELSE IF block.kind = "call" /\ i = 1 THEN "content_block_start"
                  ELSE "content_block_delta"
      /\ f.text = IF block.kind = "text" THEN <<block.text>> ELSE <<>>
      /\ f.calls = CallsOf(protocol, answer, k, i)

LEMMA BlockFrameFacts ==
  ASSUME NEW protocol \in Protocols, NEW answer \in Answer, NEW k \in 1..Len(answer.blocks),
         NEW block, block = answer.blocks[k], NEW frames, frames = BlockFrames(protocol, answer, k)
  PROVE  /\ DOMAIN frames = 1..Count(protocol, block)
         /\ \A i \in 1..Count(protocol, block) :
              BlockFrame(protocol, answer, k, i, frames[i])
<1> USE DEF BlockFrame
<1> DEFINE delta == IF protocol = "anthropic" THEN "content_block_delta" ELSE "chunk"
           first == IF protocol = "anthropic" THEN "content_block_start" ELSE "chunk"
           Its(i) == CallsOf(protocol, answer, k, i)
<1>0. block.kind \in {"text", "thought", "call"}
  BY BlockFacts
<1>1. CASE block.kind = "text"
  <2>1. frames = <<ContentFrame(delta, <<block.text>>, <<>>)>> /\ Count(protocol, block) = 1
    BY <1>1 DEF BlockFrames, Count
  <2>2. Its(1) = <<>>
    BY <1>1 DEF CallsOf
  <2>3. DOMAIN frames = 1..1 /\ frames[1] = ContentFrame(delta, <<block.text>>, <<>>)
    BY <2>1
  <2> HIDE DEF Its
  <2> QED
    BY <1>1, <2>1, <2>2, <2>3, ContentFields DEF Its
<1>2. CASE block.kind = "thought"
  <2>1. frames = <<ContentFrame(delta, <<>>, <<>>)>> /\ Count(protocol, block) = 1
    BY <1>2 DEF BlockFrames, Count
  <2>2. Its(1) = <<>>
    BY <1>2 DEF CallsOf
  <2>3. DOMAIN frames = 1..1 /\ frames[1] = ContentFrame(delta, <<>>, <<>>)
    BY <2>1
  <2> HIDE DEF Its
  <2> QED
    BY <1>2, <2>1, <2>2, <2>3, ContentFields DEF Its
<1>3. CASE block.kind = "call" /\ protocol = "gemini"
  <2>1. frames = <<ContentFrame(delta, <<>>, Its(1))>> /\ Count(protocol, block) = 1
    BY <1>3 DEF BlockFrames, Count, CallsOf
  <2>2. DOMAIN frames = 1..1 /\ frames[1] = ContentFrame(delta, <<>>, Its(1))
    BY <2>1
  <2>3. \A i \in 1..Count(protocol, block) : i = 1
    BY <2>1
  <2>4. delta = "chunk" /\ protocol # "anthropic" /\ block.kind # "text"
    BY <1>3
  <2> HIDE DEF Its
  <2>5. LET f == frames[1]
        IN  /\ f.code = None /\ f.usage = <<>> /\ f.type = "chunk" /\ f.text = <<>>
            /\ f.calls = Its(1)
    BY <2>2, <2>4, ContentFields
  <2> QED
    BY <2>1, <2>2, <2>3, <2>4, <2>5 DEF Its
<1>4. CASE block.kind = "call" /\ protocol # "gemini"
  <2>1. frames = [i \in 1..Count(protocol, block) |->
                    ContentFrame(IF i = 1 THEN first ELSE delta, <<>>, Its(i))]
    BY <1>4 DEF BlockFrames, Count, CallsOf
  <2> HIDE DEF Its
  <2> QED
    BY <1>4, <2>1, ContentFields DEF Its
<1> QED
  BY <1>0, <1>1, <1>2, <1>3, <1>4

\* A frame of a block is read as the deltas of the block.
LEMMA SpokenFacts ==
  ASSUME NEW protocol \in Protocols, NEW answer \in Answer, NEW k \in 1..Len(answer.blocks),
         NEW i \in 1..Count(protocol, answer.blocks[k]),
         NEW f, f = BlockFrames(protocol, answer, k)[i]
  PROVE  /\ Spoken(f) \o <<>> = Spoken(f)
         /\ protocol # "gemini" => Spoken(f) = Deltas(protocol, answer, k, i)
         /\ answer.blocks[k].kind # "call" =>
              f.calls = <<>> /\ Spoken(f) = Deltas(protocol, answer, k, i)
         /\ answer.blocks[k].kind = "call" => f.text = <<>>
<1> DEFINE block == answer.blocks[k]
<1>0. /\ block.kind \in {"text", "thought", "call"} /\ k - 1 \in Nat
      /\ f.text = IF block.kind = "text" THEN <<block.text>> ELSE <<>>
      /\ f.calls = CallsOf(protocol, answer, k, i)
  <2>1. BlockFrame(protocol, answer, k, i, f)
    BY BlockFrameFacts
  <2> QED
    BY <2>1, BlockFacts DEF BlockFrame
<1>1. CASE block.kind = "text"
  <2>1. f.text = <<block.text>> /\ f.calls = <<>>
    BY <1>0, <1>1 DEF CallsOf
  <2>2. Spoken(f) = <<TextDelta(<<block.text>>)>>
    BY <2>1, ContentDeltas
  <2>3. Deltas(protocol, answer, k, i) = <<TextDelta(<<block.text>>)>>
    BY <1>1 DEF Deltas
  <2> QED
    BY <1>1, <2>1, <2>2, <2>3, JoinOne
<1>2. CASE block.kind = "thought"
  <2>1. f.text = <<>> /\ f.calls = <<>>
    BY <1>0, <1>2 DEF CallsOf
  <2>2. Spoken(f) = <<>>
    BY <2>1, ContentDeltas
  <2>3. Deltas(protocol, answer, k, i) = <<>>
    BY <1>2 DEF Deltas
  <2> QED
    BY <1>2, <2>1, <2>2, <2>3, JoinOne
<1>3. CASE block.kind = "call"
  <2>1. f.text = <<>> /\ \E g : f.calls = <<g>>
    BY <1>0, <1>3 DEF CallsOf
  <2>2. PICK g : f.calls = <<g>>
    BY <2>1
  <2>3. Spoken(f) = <<CallDelta(g)>>
    BY <2>1, <2>2, ContentDeltas
  <2>4. protocol # "gemini" => Deltas(protocol, answer, k, i) = <<CallDelta(g)>>
    <3>1. protocol # "gemini" => IndexOf(protocol, answer, k) = Number(protocol, answer, k)
      BY <1>0 DEF IndexOf, Number, Nth, Protocols
    <3> QED
      BY <1>0, <1>3, <2>2, <3>1 DEF Deltas, CallsOf
  <2> QED
    BY <1>3, <2>1, <2>3, <2>4, JoinOne
<1> QED
  BY <1>0, <1>1, <1>2, <1>3

LEMMA BlockRead ==
  ASSUME NEW protocol \in Protocols, NEW answer \in Answer, NEW k \in 1..Len(answer.blocks),
         NEW i \in 1..Count(protocol, answer.blocks[k]),
         NEW p, Metering(protocol, answer, k - 1, p),
         NEW f, f = BlockFrames(protocol, answer, k)[i],
         NEW read, read = Chunk(protocol, p, f)
  PROVE  /\ read.deltas = Deltas(protocol, answer, k, i)
         /\ Metering(protocol, answer,
                     IF i + 1 \in 1..Count(protocol, answer.blocks[k]) THEN k - 1 ELSE k,
                     read.parser)
<1> DEFINE block == answer.blocks[k]
           w == IF i + 1 \in 1..Count(protocol, block) THEN k - 1 ELSE k
<1>0. /\ f.code = None /\ f.usage = <<>> /\ f.calls = CallsOf(protocol, answer, k, i)
      /\ f.type = IF protocol # "anthropic" THEN "chunk"
                  ELSE IF block.kind = "call" /\ i = 1 THEN "content_block_start"
                  ELSE "content_block_delta"
  <2>1. BlockFrame(protocol, answer, k, i, f)
    BY BlockFrameFacts
  <2> QED
    BY <2>1 DEF BlockFrame
<1>1. /\ Spoken(f) \o <<>> = Spoken(f)
      /\ protocol # "gemini" => Spoken(f) = Deltas(protocol, answer, k, i)
      /\ block.kind # "call" => f.calls = <<>> /\ Spoken(f) = Deltas(protocol, answer, k, i)
      /\ block.kind = "call" => f.text = <<>>
  BY SpokenFacts
<1>2. Parsing(p)
  BY DEF Metering
<1>3. CASE protocol = "openai"
  <2> HIDE DEF block, w
  <2>1. Kept(p, read.parser) /\ read.deltas = Spoken(f)
    <3>1. f.type = "chunk"
      BY <1>0, <1>3
    <3>2. Yields(Chunk("openai", p, f), p, Spoken(f))
      BY <1>0, <1>1, <1>2, <3>1, OpenAiSays
    <3> QED
      BY <1>3, <3>2 DEF Yields
  <2>2. Metering(protocol, answer, w, read.parser)
    BY <1>3, <2>1 DEF Metering, Kept
  <2> QED
    BY <1>1, <1>3, <2>1, <2>2 DEF w, block
<1>4. CASE protocol = "anthropic"
  <2>1. read.parser = p /\ read.deltas = Spoken(f)
    <3>1. CASE f.type = "content_block_delta"
      <4> HIDE DEF block, w
      <4> QED
        BY <1>4, <3>1, AnthropicDelta DEF Read
    <3>2. CASE f.type # "content_block_delta"
      <4>1. f.type = "content_block_start" /\ f.text = <<>>
        BY <1>0, <1>1, <1>4, <3>2
      <4> HIDE DEF block, w
      <4>2. read.parser = p /\ read.deltas = CallDeltas(f.calls)
        <5>1. read = Chunk("anthropic", p, f)
          BY <1>4
        <5> QED
          BY <4>1, <5>1, AnthropicStart DEF Read
      <4>3. Spoken(f) = CallDeltas(f.calls)
        <5>1. \E g : f.calls = <<g>>
          BY <1>0, <1>4, <3>2 DEF CallsOf, block
        <5>2. PICK g : f.calls = <<g>>
          BY <5>1
        <5>3. CallDeltas(<<g>>) = <<CallDelta(g)>>
          BY DEF CallDeltas
        <5> QED
          BY <4>1, <5>2, <5>3, ContentDeltas
      <4> QED
        BY <4>2, <4>3
    <3> QED
      BY <3>1, <3>2
  <2> HIDE DEF block, w
  <2>2. Metering(protocol, answer, w, read.parser)
    BY <1>4, <2>1 DEF Metering
  <2> QED
    BY <1>1, <1>4, <2>1, <2>2 DEF w, block
<1>5. CASE protocol = "gemini"
  <2>1. i = 1 /\ w = k /\ Count(protocol, block) = 1
    BY <1>5 DEF Count
  <2>2. /\ p.index = Nth(answer.blocks, "call", k - 1) /\ p.index \in Int
        /\ k \in Nat \ {0} /\ k - 1 \in Nat
    <3>1. k \in Nat \ {0} /\ k - 1 \in Nat
      OBVIOUS
    <3> QED
      <4>1. p.index = Nth(answer.blocks, "call", k - 1)
        BY <1>5 DEF Metering
      <4> QED
        <5>1. Nth(answer.blocks, "call", k - 1) \in Nat
          BY <3>1, NthNat
        <5> QED
          BY <3>1, <4>1, <5>1
  <2>3. CASE block.kind # "call"
    <3>1. Nth(answer.blocks, "call", k) = Nth(answer.blocks, "call", k - 1)
      BY <2>2, <2>3, NthStep
    <3> HIDE DEF block, w
    <3>2. Kept(p, read.parser) /\ read.deltas = Spoken(f)
      <4>1. f.calls = <<>> /\ p.terminal = FALSE
        BY <1>1, <2>3 DEF Metering
      <4>2. Yields(Chunk("gemini", p, f), p, Spoken(f))
        BY <1>0, <1>2, <2>2, <4>1, GeminiSays
      <4> QED
        BY <1>5, <4>2 DEF Yields
    <3>3. Metering(protocol, answer, k, read.parser)
      BY <1>5, <2>2, <3>1, <3>2 DEF Metering, Kept
    <3> QED
      BY <1>1, <2>1, <2>3, <3>2, <3>3 DEF w, block
  <2>4. CASE block.kind = "call"
    <3>1. Nth(answer.blocks, "call", k) = Nth(answer.blocks, "call", k - 1) + 1
      BY <2>2, <2>4, NthStep
    <3> DEFINE g == Fragment(IndexOf(protocol, answer, k), block.id, block.name, block.args)
    <3>2. f.calls = <<g>>
      BY <1>0, <1>5, <2>4 DEF CallsOf
    <3>3. <<CallDelta([g EXCEPT !.index = p.index])>> = Deltas(protocol, answer, k, i)
      <4>1. [g EXCEPT !.index = p.index] = Fragment(p.index, block.id, block.name, block.args)
        BY DEF Fragment
      <4>2. Number(protocol, answer, k) = p.index
        BY <1>5, <2>2 DEF Number
      <4> HIDE DEF g
      <4> QED
        BY <1>5, <2>4, <4>1, <4>2 DEF Deltas
    <3> HIDE DEF block, w, g
    <3>4. NumberedCall(read, p, g)
      <4>1. f.text = <<>>
        BY <1>1, <2>4
      <4>2. NumberedCall(Chunk("gemini", p, f), p, g)
        BY <1>0, <1>2, <2>2, <3>2, <4>1, GeminiCalls
      <4> QED
        BY <1>5, <4>2
    <3>5. Metering(protocol, answer, k, read.parser)
      <4>1. /\ Parsing(read.parser) /\ read.parser.terminal = FALSE
            /\ read.parser.index = p.index + 1
        BY <3>4 DEF NumberedCall
      <4> QED
        BY <1>5, <2>2, <3>1, <4>1 DEF Metering
    <3> QED
      BY <2>1, <3>3, <3>4, <3>5 DEF w, block, NumberedCall
  <2> QED
    BY <2>3, <2>4
<1> QED
  BY <1>3, <1>4, <1>5 DEF Protocols

-----------------------------------------------------------------------------
(* From one place of a stream to the next *)

\* Before the blocks, inside one, behind them, and at the end: what the parser and
\* the assembler have of the answer there.
AtStart(protocol, answer, at, p, d) ==
  /\ protocol = "anthropic" /\ at = Place(0, 1)
  /\ Parsing(p) /\ p.terminal = FALSE /\ HeardTo(protocol, answer, 0, 0, d)

InBlock(protocol, answer, k, i, at, p, d) ==
  /\ at = Place(k, i)
  /\ Metering(protocol, answer, k - 1, p) /\ HeardTo(protocol, answer, k - 1, i - 1, d)

AtClosing(protocol, answer, at, p, d) ==
  /\ at = Place(Len(answer.blocks) + 1, 1)
  /\ Metering(protocol, answer, Len(answer.blocks), p)
  /\ HeardTo(protocol, answer, Len(answer.blocks), 0, d)

Counting(protocol, answer, at, p, d) ==
  /\ HeardTo(protocol, answer, Len(answer.blocks), 0, d)
  /\ Parsing(p) /\ p.terminal = FALSE
  /\ \/ protocol = "openai" /\ at = Place(Len(answer.blocks) + 1, 2)
     \/ /\ protocol = "openai" /\ at = Place(Len(answer.blocks) + 1, 3)
        /\ d.usage = Cost(answer)
     \/ /\ protocol = "anthropic" /\ at = Place(Len(answer.blocks) + 1, 2)
        /\ p.usage = Cost(answer)

AtEnd(protocol, answer, at, p, d) ==
  /\ at = Ending(answer)
  /\ HeardTo(protocol, answer, Len(answer.blocks), 0, d)
  /\ Parsing(p) /\ p.terminal = TRUE
  /\ protocol = "openai" => d.usage = Cost(answer)
  /\ protocol # "openai" => p.usage = Cost(answer)

Followed(protocol, answer, at, p, d) ==
  \/ AtStart(protocol, answer, at, p, d)
  \/ \E k \in 1..Len(answer.blocks) : \E i \in 1..Count(protocol, answer.blocks[k]) :
       InBlock(protocol, answer, k, i, at, p, d)
  \/ AtClosing(protocol, answer, at, p, d)
  \/ Counting(protocol, answer, at, p, d)
  \/ AtEnd(protocol, answer, at, p, d)

LEMMA PlaceFacts ==
  ASSUME NEW k, NEW i, NEW l, NEW j
  PROVE  /\ Place(k, i).group = k /\ Place(k, i).frame = i
         /\ Place(k, i) = Place(l, j) <=> k = l /\ i = j
<1>1. Place(k, i).group = k /\ Place(k, i).frame = i /\ Place(l, j).group = l /\ Place(l, j).frame = j
  BY DEF Place
<1> QED
  BY <1>1

\* The frame at a place of a group, and the place behind it.
Leads(stream, group, k, i) ==
  /\ FrameAt(stream, Place(k, i)) = group[i]
  /\ Onward(stream, Place(k, i))
       = IF i + 1 \in DOMAIN group THEN Place(k, i + 1) ELSE Place(k + 1, 1)

LEMMA StreamFacts ==
  ASSUME NEW protocol, NEW answer \in Answer, NEW k \in 0..(Len(answer.blocks) + 1), NEW i,
         NEW stream, stream = Stream(protocol, answer), NEW group, group = Group(protocol, answer, k)
  PROVE  Leads(stream, group, k, i)
<1>1. stream[k] = group
  BY BlockFacts DEF Stream
<1> QED
  BY <1>1, PlaceFacts DEF FrameAt, Onward, Leads

\* Behind a group is the first frame of the next one.
LEMMA NextGroup ==
  ASSUME NEW protocol, NEW answer \in Answer, NEW k \in 0..Len(answer.blocks), NEW p, NEW d,
         Metering(protocol, answer, k, p), HeardTo(protocol, answer, k, 0, d)
  PROVE  Followed(protocol, answer, Place(k + 1, 1), p, d)
<1>0. Len(answer.blocks) \in Nat
  BY BlockFacts
<1>1. CASE k < Len(answer.blocks)
  <2>1. k + 1 \in 1..Len(answer.blocks) /\ (k + 1) - 1 = k /\ 1 - 1 = 0
    BY <1>0, <1>1
  <2>2. 1 \in 1..Count(protocol, answer.blocks[k + 1])
    <3>1. answer.blocks[k + 1].args \in Seq(STRING)
      BY <2>1, BlockFacts
    <3>2. Len(answer.blocks[k + 1].args) \in Nat
      BY <3>1, LenProperties
    <3> QED
      BY <3>2 DEF Count
  <2>3. InBlock(protocol, answer, k + 1, 1, Place(k + 1, 1), p, d)
    BY <2>1 DEF InBlock
  <2> QED
    BY <2>1, <2>2, <2>3 DEF Followed
<1>2. CASE ~(k < Len(answer.blocks))
  <2>1. k = Len(answer.blocks)
    BY <1>0, <1>2
  <2> QED
    BY <2>1 DEF Followed, AtClosing
<1> QED
  BY <1>1, <1>2

\* A step of a reader: the frame at a place is read, and the place moves on.
Stepped(protocol, answer, at, p, d) ==
  LET stream == Stream(protocol, answer)
      read   == Chunk(protocol, p, FrameAt(stream, at))
  IN  Followed(protocol, answer, Onward(stream, at), read.parser, Assemble(d, read.deltas))

LEMMA StartStep ==
  ASSUME NEW protocol, NEW answer \in Answer, NEW at, NEW p, NEW d,
         AtStart(protocol, answer, at, p, d)
  PROVE  Stepped(protocol, answer, at, p, d)
<1> DEFINE raw == RawUsage(protocol, answer.cost)
           f == StatusFrame("message_start", None, <<raw>>)
           stream == Stream(protocol, answer)
           read == Chunk(protocol, p, f)
<1>0. /\ protocol = "anthropic" /\ at = Place(0, 1) /\ Parsing(p) /\ p.terminal = FALSE
      /\ HeardTo(protocol, answer, 0, 0, d)
      /\ Len(answer.blocks) \in Nat /\ 0 \in 0..(Len(answer.blocks) + 1)
  BY BlockFacts DEF AtStart
<1>1. FrameAt(stream, at) = f /\ Onward(stream, at) = Place(0 + 1, 1)
  <2>1. Group(protocol, answer, 0) = <<f>>
    BY DEF Group
  <2>2. <<f>>[1] = f /\ 1 + 1 \notin DOMAIN <<f>>
    OBVIOUS
  <2> HIDE DEF f, stream
  <2> QED
    BY <1>0, <2>1, <2>2, StreamFacts DEF stream, Leads
<1>2. /\ Parsing(read.parser) /\ read.parser.terminal = FALSE /\ read.deltas = <<>>
      /\ read.parser.usage = [AnthropicUsage(raw) EXCEPT !.output = 0]
  <2>1. f.type = "message_start" /\ f.usage = <<raw>>
    BY StatusFields
  <2>2. read = Chunk("anthropic", p, f)
    BY <1>0
  <2> HIDE DEF f, raw, read
  <2>3. Left(read, [AnthropicUsage(raw) EXCEPT !.output = 0], p.terminal)
    BY <1>0, <2>1, <2>2, AnthropicOpens
  <2> QED
    BY <1>0, <2>3 DEF Left
<1>3. read.parser.usage = Usage(answer.cost.input, 0, answer.cost.cached)
  <2>1. AnthropicUsage(raw) = Cost(answer)
    BY <1>0, CostFacts
  <2> HIDE DEF raw, read
  <2> QED
    BY <1>2, <2>1 DEF Cost, Usage
<1> HIDE DEF f, stream, read
<1>4. Metering(protocol, answer, 0, read.parser)
  BY <1>0, <1>2, <1>3 DEF Metering
<1>5. Assemble(d, read.deltas) = d
  BY <1>2, AssembleNone
<1>6. Followed(protocol, answer, Place(0 + 1, 1), read.parser, d)
  BY <1>0, <1>4, NextGroup
<1> QED
  BY <1>1, <1>5, <1>6 DEF Stepped, stream, read

LEMMA BlockStep ==
  ASSUME NEW protocol \in Protocols, NEW answer \in Answer, NEW k \in 1..Len(answer.blocks),
         NEW i \in 1..Count(protocol, answer.blocks[k]), NEW at, NEW p, NEW d,
         InBlock(protocol, answer, k, i, at, p, d)
  PROVE  Stepped(protocol, answer, at, p, d)
<1> DEFINE stream == Stream(protocol, answer)
           f == BlockFrames(protocol, answer, k)[i]
           read == Chunk(protocol, p, f)
           e == Assemble(d, read.deltas)
           more == i + 1 \in 1..Count(protocol, answer.blocks[k])
<1>0. /\ at = Place(k, i) /\ Metering(protocol, answer, k - 1, p)
      /\ HeardTo(protocol, answer, k - 1, i - 1, d)
      /\ Len(answer.blocks) \in Nat /\ k \in 0..(Len(answer.blocks) + 1) /\ (i + 1) - 1 = i
  BY BlockFacts DEF InBlock
<1>1. FrameAt(stream, at) = f
      /\ Onward(stream, at) = IF more THEN Place(k, i + 1) ELSE Place(k + 1, 1)
  <2>1. Group(protocol, answer, k) = BlockFrames(protocol, answer, k)
    BY <1>0 DEF Group
  <2>2. DOMAIN BlockFrames(protocol, answer, k) = 1..Count(protocol, answer.blocks[k])
    BY BlockFrameFacts
  <2>3. PICK group : group = Group(protocol, answer, k)
    OBVIOUS
  <2>4. stream = Stream(protocol, answer)
    OBVIOUS
  <2> HIDE DEF stream
  <2>5. Leads(stream, group, k, i)
    BY <1>0, <2>3, <2>4, StreamFacts
  <2> QED
    BY <1>0, <2>1, <2>2, <2>3, <2>5 DEF Leads
<1>2. /\ read.deltas = Deltas(protocol, answer, k, i)
      /\ Metering(protocol, answer, IF more THEN k - 1 ELSE k, read.parser)
  <2> HIDE DEF f
  <2> QED
    BY <1>0, BlockRead DEF f
<1>3. IF more THEN HeardTo(protocol, answer, k - 1, i, e) ELSE HeardTo(protocol, answer, k, 0, e)
  <2>1. e = Assemble(d, Deltas(protocol, answer, k, i))
    BY <1>2
  <2> HIDE DEF read, e
  <2> QED
    BY <1>0, <2>1, DeltasHeard
<1> HIDE DEF f, read, e, stream
<1>4. CASE more
  <2>1. InBlock(protocol, answer, k, i + 1, Place(k, i + 1), read.parser, e)
    BY <1>0, <1>2, <1>3, <1>4 DEF InBlock
  <2> QED
    BY <1>1, <1>4, <2>1 DEF Stepped, Followed, stream, read, e
<1>5. CASE ~more
  <2>1. k \in 0..Len(answer.blocks)
    BY <1>0
  <2>2. Followed(protocol, answer, Place(k + 1, 1), read.parser, e)
    BY <1>2, <1>3, <1>5, <2>1, NextGroup
  <2> QED
    BY <1>1, <1>5, <2>2 DEF Stepped, stream, read, e
<1> QED
  BY <1>4, <1>5

\* The frames behind the blocks.
Closes(stream, group, answer, at, i) ==
  /\ FrameAt(stream, at) = group[i]
  /\ Onward(stream, at) = IF i + 1 \in DOMAIN group
                          THEN Place(Len(answer.blocks) + 1, i + 1) ELSE Ending(answer)

LEMMA ClosingFacts ==
  ASSUME NEW protocol, NEW answer \in Answer, NEW i \in Nat,
         NEW at, at = Place(Len(answer.blocks) + 1, i),
         NEW stream, stream = Stream(protocol, answer),
         NEW group, group = Group(protocol, answer, Len(answer.blocks) + 1)
  PROVE  Closes(stream, group, answer, at, i)
<1>1. PICK k \in Nat : k = Len(answer.blocks) + 1
  BY BlockFacts
<1>2. k \in 0..(Len(answer.blocks) + 1) /\ k + 1 = Len(answer.blocks) + 2
  BY <1>1, BlockFacts
<1>3. Leads(stream, group, k, i)
  BY <1>1, <1>2, StreamFacts
<1> QED
  BY <1>1, <1>2, <1>3 DEF Ending, Leads, Closes

OpenAiEnd(raw, code) ==
  <<StatusFrame("chunk", code, <<>>), StatusFrame("chunk", None, <<raw>>),
    StatusFrame("done", None, <<>>)>>

AnthropicEnd(raw, code) ==
  <<StatusFrame("message_delta", code, <<raw>>), StatusFrame("message_stop", None, <<>>)>>

GeminiEnd(raw, code) == <<StatusFrame("chunk", code, <<raw>>)>>

LEMMA ClosingFrames ==
  ASSUME NEW answer \in Answer
  PROVE  /\ Group("openai", answer, Len(answer.blocks) + 1)
              = OpenAiEnd(RawUsage("openai", answer.cost), StopCode("openai", answer.why))
         /\ Group("anthropic", answer, Len(answer.blocks) + 1)
              = AnthropicEnd(RawUsage("anthropic", answer.cost), StopCode("anthropic", answer.why))
         /\ Group("gemini", answer, Len(answer.blocks) + 1)
              = GeminiEnd(RawUsage("gemini", answer.cost), StopCode("gemini", answer.why))
<1>1. PICK n \in Nat : n = Len(answer.blocks)
  BY BlockFacts
<1>2. n + 1 # 0 /\ ~(n + 1 <= n)
  OBVIOUS
<1> QED
  BY <1>1, <1>2 DEF Group, OpenAiEnd, AnthropicEnd, GeminiEnd

LEMMA StatusSpoken ==
  ASSUME NEW type, NEW code, NEW usage, NEW f, f = StatusFrame(type, code, usage)
  PROVE  Spoken(f) = <<>>
BY StatusFields, ContentDeltas

LEMMA HeardSame ==
  ASSUME NEW protocol, NEW answer, NEW w, NEW m, NEW d, HeardTo(protocol, answer, w, m, d),
         NEW u
  PROVE  /\ HeardTo(protocol, answer, w, m, Update(d, UsageDelta(u)))
         /\ Update(d, UsageDelta(u)).usage = u
<1>1. Assembled(d)
  BY DEF HeardTo
<1>2. Holds(Update(d, UsageDelta(u)), d.text, d.calls, u)
  BY <1>1, UpdateFacts
<1> QED
  BY <1>2 DEF HeardTo, Holds

\* A place is reached by any parser with that usage.
Awaits(protocol, answer, at, d, usage, terminal) ==
  \A q : Parsing(q) /\ q.usage = usage /\ q.terminal = terminal
           => Followed(protocol, answer, at, q, d)

\* What a frame that says nothing leads to.
LEMMA LeftStep ==
  ASSUME NEW protocol, NEW answer, NEW at, NEW p, NEW d, NEW usage, NEW terminal,
         NEW f, f = FrameAt(Stream(protocol, answer), at),
         Left(Chunk(protocol, p, f), usage, terminal),
         NEW next, next = Onward(Stream(protocol, answer), at),
         Awaits(protocol, answer, next, d, usage, terminal)
  PROVE  Stepped(protocol, answer, at, p, d)
<1>1. PICK read : read = Chunk(protocol, p, f)
  OBVIOUS
<1>2. Followed(protocol, answer, next, read.parser, d) /\ read.deltas = <<>>
  BY <1>1 DEF Left, Awaits
<1>3. Assemble(d, read.deltas) = d
  BY <1>2, AssembleNone
<1>4. Followed(protocol, answer, next, read.parser, Assemble(d, read.deltas))
  BY <1>2, <1>3
<1> QED
  BY <1>1, <1>4 DEF Stepped

LEMMA OpenAiClosing ==
  ASSUME NEW answer \in Answer, NEW at, NEW p, NEW d,
         AtClosing("openai", answer, at, p, d) \/ Counting("openai", answer, at, p, d)
  PROVE  Stepped("openai", answer, at, p, d)
<1> DEFINE n == Len(answer.blocks)
           stream == Stream("openai", answer)
           raw == RawUsage("openai", answer.cost)
           code == StopCode("openai", answer.why)
           group == Group("openai", answer, n + 1)
           f == FrameAt(stream, at)
           next == Onward(stream, at)
<1>1. /\ DOMAIN group = 1..3 /\ group[1] = StatusFrame("chunk", code, <<>>)
      /\ group[2] = StatusFrame("chunk", None, <<raw>>)
      /\ group[3] = StatusFrame("done", None, <<>>)
  <2>1. group = OpenAiEnd(raw, code)
    BY ClosingFrames, Zenon
  <2> HIDE DEF group
  <2> QED
    BY <2>1 DEF OpenAiEnd
<1>2. ASSUME NEW i \in Nat, at = Place(n + 1, i)
      PROVE  f = group[i] /\ next = IF i + 1 \in DOMAIN group THEN Place(n + 1, i + 1)
                                    ELSE Ending(answer)
  <2>1. Closes(stream, group, answer, at, i)
    <3>1. /\ group = Group("openai", answer, Len(answer.blocks) + 1)
          /\ stream = Stream("openai", answer) /\ at = Place(Len(answer.blocks) + 1, i)
      BY <1>2
    <3> HIDE DEF group, stream
    <3> QED
      BY <3>1, ClosingFacts
  <2> QED
    BY <2>1 DEF Closes
<1>3. HeardTo("openai", answer, n, 0, d) /\ Parsing(p) /\ p.terminal = FALSE
  BY DEF AtClosing, Counting, Metering
<1> HIDE DEF n, stream, raw, code, group, f, next
<1>4. CASE AtClosing("openai", answer, at, p, d)
  <2>1. f = StatusFrame("chunk", code, <<>>) /\ next = Place(n + 1, 2)
    <3>1. at = Place(n + 1, 1)
      BY <1>4 DEF AtClosing, n
    <3> QED
      BY <1>1, <1>2, <3>1
  <2>2. Left(Chunk("openai", p, f), p.usage, FALSE)
    <3>1. Spoken(f) = <<>> /\ f.type = "chunk" /\ f.usage = <<>>
      BY <2>1, StatusSpoken, StatusFields
    <3>2. Spoken(f) \o <<>> = Spoken(f)
      BY <3>1, JoinOne
    <3>3. Yields(Chunk("openai", p, f), p, Spoken(f))
      BY <1>3, <3>1, <3>2, OpenAiSays
    <3> QED
      BY <1>3, <3>1, <3>3 DEF Yields, Kept, Left
  <2>3. ASSUME NEW q, Parsing(q), q.terminal = FALSE
        PROVE  Followed("openai", answer, next, q, d)
    <3>1. Counting("openai", answer, next, q, d)
      BY <1>3, <2>1, <2>3 DEF Counting, n
    <3> QED
      BY <3>1 DEF Followed
  <2>4. Awaits("openai", answer, next, d, p.usage, FALSE)
    BY <2>3 DEF Awaits
  <2>5. Awaits("openai", answer, next, d, p.usage, FALSE)
    BY <2>4 DEF Awaits
  <2> QED
    BY <2>2, <2>5, LeftStep DEF f, next, stream
<1>5. CASE Counting("openai", answer, at, p, d) /\ at = Place(n + 1, 2)
  <2>1. f = StatusFrame("chunk", None, <<raw>>) /\ next = Place(n + 1, 3)
    BY <1>1, <1>2, <1>5
  <2>2. PICK read : read = Chunk("openai", p, f)
    OBVIOUS
  <2>3. Kept(p, read.parser) /\ read.deltas = <<UsageDelta(Cost(answer))>>
    <3>1. Spoken(f) = <<>> /\ f.type = "chunk" /\ f.usage = <<raw>>
      BY <2>1, StatusSpoken, StatusFields
    <3>2. Yields(read, p, <<UsageDelta(OpenAiUsage(raw))>>)
      BY <1>3, <2>2, <3>1, OpenAiCounts
    <3>3. OpenAiUsage(raw) = Cost(answer)
      BY CostFacts DEF raw
    <3> QED
      BY <3>2, <3>3 DEF Yields
  <2>4. PICK e : e = Update(d, UsageDelta(Cost(answer)))
    OBVIOUS
  <2>5. Assemble(d, read.deltas) = e
    BY <2>3, <2>4, AssembleOne
  <2>6. HeardTo("openai", answer, n, 0, e) /\ e.usage = Cost(answer)
    BY <1>3, <2>4, HeardSame
  <2>7. Counting("openai", answer, next, read.parser, e)
    BY <1>3, <2>1, <2>3, <2>6 DEF Counting, n, Kept
  <2>8. Followed("openai", answer, next, read.parser, e)
    BY <2>7 DEF Followed
  <2> QED
    BY <2>2, <2>5, <2>8 DEF Stepped, f, next, stream
<1>6. CASE Counting("openai", answer, at, p, d) /\ at = Place(n + 1, 3)
  <2>1. f = StatusFrame("done", None, <<>>) /\ next = Ending(answer)
    BY <1>1, <1>2, <1>6
  <2>2. Left(Chunk("openai", p, f), p.usage, TRUE)
    <3>1. f.type = "done"
      BY <2>1, StatusFields
    <3> QED
      BY <1>3, <3>1, OpenAiStops
  <2>3. d.usage = Cost(answer)
    <3>1. at # Place(n + 1, 2)
      BY <1>6, PlaceFacts
    <3> QED
      BY <1>6, <3>1 DEF Counting, n
  <2>4. ASSUME NEW q, Parsing(q), q.terminal = TRUE
        PROVE  Followed("openai", answer, next, q, d)
    <3>1. AtEnd("openai", answer, next, q, d)
      BY <1>3, <2>1, <2>3, <2>4 DEF AtEnd, n
    <3> QED
      BY <3>1 DEF Followed
  <2>5. Awaits("openai", answer, next, d, p.usage, TRUE)
    BY <2>4 DEF Awaits
  <2> QED
    BY <2>2, <2>5, LeftStep DEF f, next, stream
<1> QED
  BY <1>4, <1>5, <1>6 DEF Counting, n

LEMMA AnthropicClosing ==
  ASSUME NEW answer \in Answer, NEW at, NEW p, NEW d,
         AtClosing("anthropic", answer, at, p, d) \/ Counting("anthropic", answer, at, p, d)
  PROVE  Stepped("anthropic", answer, at, p, d)
<1> DEFINE n == Len(answer.blocks)
           stream == Stream("anthropic", answer)
           raw == RawUsage("anthropic", answer.cost)
           code == StopCode("anthropic", answer.why)
           group == Group("anthropic", answer, n + 1)
           f == FrameAt(stream, at)
           next == Onward(stream, at)
<1>1. /\ DOMAIN group = 1..2 /\ group[1] = StatusFrame("message_delta", code, <<raw>>)
      /\ group[2] = StatusFrame("message_stop", None, <<>>)
  <2>1. group = AnthropicEnd(raw, code)
    BY ClosingFrames, Zenon
  <2> HIDE DEF group
  <2> QED
    BY <2>1 DEF AnthropicEnd
<1>2. ASSUME NEW i \in Nat, at = Place(n + 1, i)
      PROVE  f = group[i] /\ next = IF i + 1 \in DOMAIN group THEN Place(n + 1, i + 1)
                                    ELSE Ending(answer)
  <2>1. Closes(stream, group, answer, at, i)
    <3>1. /\ group = Group("anthropic", answer, Len(answer.blocks) + 1)
          /\ stream = Stream("anthropic", answer) /\ at = Place(Len(answer.blocks) + 1, i)
      BY <1>2
    <3> HIDE DEF group, stream
    <3> QED
      BY <3>1, ClosingFacts
  <2> QED
    BY <2>1 DEF Closes
<1>3. HeardTo("anthropic", answer, n, 0, d) /\ Parsing(p) /\ p.terminal = FALSE
  BY DEF AtClosing, Counting, Metering
<1>4. CASE AtClosing("anthropic", answer, at, p, d)
  <2>1. f = StatusFrame("message_delta", code, <<raw>>) /\ next = Place(n + 1, 2)
    <3>1. at = Place(n + 1, 1)
      BY <1>4 DEF AtClosing
    <3> HIDE DEF n, stream, raw, code, group, f, next
    <3> QED
      BY <1>1, <1>2, <3>1
  <2>2. Left(Chunk("anthropic", p, f),
             [p.usage EXCEPT !.output = IF raw.output > @ THEN raw.output ELSE @], FALSE)
    <3> HIDE DEF n, stream, raw, code, group, f, next
    <3>1. f.type = "message_delta" /\ f.usage = <<raw>>
      BY <2>1, StatusFields
    <3>2. Left(Chunk("anthropic", p, f),
               [p.usage EXCEPT !.output = IF raw.output > @ THEN raw.output ELSE @], p.terminal)
      BY <1>3, <3>1, AnthropicCounts
    <3> QED
      BY <1>3, <3>2
  <2>3. [p.usage EXCEPT !.output = IF raw.output > @ THEN raw.output ELSE @] = Cost(answer)
    <3>1. p.usage = Usage(answer.cost.input, 0, answer.cost.cached)
      BY <1>4 DEF AtClosing, Metering
    <3>2. raw.output = answer.cost.output /\ answer.cost.output \in Nat
      BY DEF RawUsage, Answer
    <3>3. (IF answer.cost.output > 0 THEN answer.cost.output ELSE 0) = answer.cost.output
      BY <3>2
    <3> HIDE DEF raw
    <3> QED
      BY <3>1, <3>2, <3>3 DEF Usage, Cost
  <2> HIDE DEF n, stream, raw, code, group, f, next
  <2>4. Left(Chunk("anthropic", p, f), Cost(answer), FALSE)
    BY <2>2, <2>3
  <2>5. ASSUME NEW q, Parsing(q), q.usage = Cost(answer), q.terminal = FALSE
        PROVE  Followed("anthropic", answer, next, q, d)
    <3>1. Counting("anthropic", answer, next, q, d)
      BY <1>3, <2>1, <2>5 DEF Counting, n
    <3> QED
      BY <3>1 DEF Followed
  <2>6. Awaits("anthropic", answer, next, d, Cost(answer), FALSE)
    BY <2>5 DEF Awaits
  <2> QED
    BY <2>4, <2>6, LeftStep DEF f, next, stream
<1>5. CASE Counting("anthropic", answer, at, p, d)
  <2>0. at = Place(n + 1, 2) /\ p.usage = Cost(answer)
    BY <1>5 DEF Counting
  <2> HIDE DEF n, stream, raw, code, group, f, next
  <2>1. f = StatusFrame("message_stop", None, <<>>) /\ next = Ending(answer)
    BY <1>1, <1>2, <2>0
  <2>2. Left(Chunk("anthropic", p, f), p.usage, TRUE)
    <3>1. f.type = "message_stop"
      BY <2>1, StatusFields
    <3> QED
      BY <1>3, <3>1, AnthropicStops
  <2>3. ASSUME NEW q, Parsing(q), q.usage = p.usage, q.terminal = TRUE
        PROVE  Followed("anthropic", answer, next, q, d)
    <3>1. AtEnd("anthropic", answer, next, q, d)
      BY <1>3, <2>0, <2>1, <2>3 DEF AtEnd, n
    <3> QED
      BY <3>1 DEF Followed
  <2>4. Awaits("anthropic", answer, next, d, p.usage, TRUE)
    BY <2>3 DEF Awaits
  <2>5. Awaits("anthropic", answer, next, d, p.usage, TRUE)
    BY <2>4 DEF Awaits
  <2> QED
    BY <2>2, <2>5, LeftStep DEF f, next, stream
<1> QED
  BY <1>4, <1>5

LEMMA GeminiClosing ==
  ASSUME NEW answer \in Answer, NEW at, NEW p, NEW d,
         AtClosing("gemini", answer, at, p, d)
  PROVE  Stepped("gemini", answer, at, p, d)
<1> DEFINE n == Len(answer.blocks)
           stream == Stream("gemini", answer)
           raw == RawUsage("gemini", answer.cost)
           code == StopCode("gemini", answer.why)
           group == Group("gemini", answer, n + 1)
           f == FrameAt(stream, at)
           next == Onward(stream, at)
<1>1. DOMAIN group = 1..1 /\ group[1] = StatusFrame("chunk", code, <<raw>>)
  <2>1. group = GeminiEnd(raw, code)
    BY ClosingFrames, Zenon
  <2> HIDE DEF group
  <2> QED
    BY <2>1 DEF GeminiEnd
<1>2. at = Place(n + 1, 1) /\ HeardTo("gemini", answer, n, 0, d) /\ Parsing(p)
  BY DEF AtClosing, Metering
<1>3. f = StatusFrame("chunk", code, <<raw>>) /\ next = Ending(answer)
  <2>1. Closes(stream, group, answer, at, 1)
    <3>1. /\ group = Group("gemini", answer, Len(answer.blocks) + 1)
          /\ stream = Stream("gemini", answer) /\ at = Place(Len(answer.blocks) + 1, 1)
      BY <1>2
    <3> HIDE DEF group, stream
    <3> QED
      BY <3>1, ClosingFacts
  <2> HIDE DEF group, stream
  <2> QED
    BY <1>1, <2>1 DEF Closes
<1>4. code # None
  <2>1. answer.why \in {"done", "calls", "cut"}
    BY DEF Answer
  <2> QED
    BY <2>1 DEF StopCode, None
<1>5. GeminiUsage(raw) = Cost(answer)
  BY CostFacts
<1> HIDE DEF n, stream, raw, code, group, f, next
<1>6. Left(Chunk("gemini", p, f), Cost(answer), TRUE)
  <2>1. f.code # None /\ f.usage = <<raw>> /\ f.text = <<>> /\ f.calls = <<>>
    BY <1>3, <1>4, StatusFields
  <2> QED
    BY <1>2, <1>5, <2>1, GeminiStops
<1>7. ASSUME NEW q, Parsing(q), q.usage = Cost(answer), q.terminal = TRUE
      PROVE  Followed("gemini", answer, next, q, d)
  <2>1. AtEnd("gemini", answer, next, q, d)
    BY <1>2, <1>3, <1>7 DEF AtEnd, n
  <2> QED
    BY <2>1 DEF Followed
<1>8. Awaits("gemini", answer, next, d, Cost(answer), TRUE)
  BY <1>7 DEF Awaits
<1> QED
  BY <1>6, <1>8, LeftStep DEF f, next, stream

\* A reader follows the stream from its opening, frame by frame.
LEMMA FollowedStarts ==
  ASSUME NEW protocol \in Protocols, NEW answer \in Answer
  PROVE  Followed(protocol, answer, Opening(protocol), Parser, Assembler)
<1>1. HeardTo(protocol, answer, 0, 0, Assembler)
  <2>1. /\ Assembled(Assembler) /\ Assembler.text = <<>> /\ Assembler.calls = <<>>
        /\ <<>> \in Seq(STRING)
    BY DEF Assembled, Assembler
  <2>2. Lists(<<>>, answer.blocks, "text", 0, TextOf(answer))
    BY ListsNone
  <2> QED
    BY <2>1, <2>2, GatheredNone DEF HeardTo
<1>2. Parsing(Parser) /\ Parser.terminal = FALSE /\ Parser.index = 0
  BY DEF Parsing, Parser
<1>3. CASE protocol = "anthropic"
  BY <1>1, <1>2, <1>3 DEF Opening, Followed, AtStart
<1>4. CASE protocol # "anthropic"
  <2>1. Nth(answer.blocks, "call", 0) = 0
    BY NthStarts
  <2>2. Metering(protocol, answer, 0, Parser)
    BY <1>2, <1>4, <2>1 DEF Metering
  <2>3. 0 \in 0..Len(answer.blocks) /\ 0 + 1 = 1
    BY BlockFacts
  <2>4. Followed(protocol, answer, Place(0 + 1, 1), Parser, Assembler)
    BY <1>1, <2>2, <2>3, NextGroup
  <2> QED
    BY <1>4, <2>3, <2>4 DEF Opening
<1> QED
  BY <1>3, <1>4

LEMMA FollowedOn ==
  ASSUME NEW protocol \in Protocols, NEW answer \in Answer, NEW at, NEW p, NEW d,
         Followed(protocol, answer, at, p, d), at # Ending(answer)
  PROVE  Stepped(protocol, answer, at, p, d)
<1>1. CASE AtStart(protocol, answer, at, p, d)
  BY <1>1, StartStep
<1>2. ASSUME NEW k \in 1..Len(answer.blocks), NEW i \in 1..Count(protocol, answer.blocks[k]),
             InBlock(protocol, answer, k, i, at, p, d)
      PROVE  Stepped(protocol, answer, at, p, d)
  BY <1>2, BlockStep
<1>3. CASE AtClosing(protocol, answer, at, p, d)
  BY <1>3, OpenAiClosing, AnthropicClosing, GeminiClosing DEF Protocols
<1>4. CASE Counting(protocol, answer, at, p, d)
  <2>1. protocol = "openai" \/ protocol = "anthropic"
    BY <1>4 DEF Counting
  <2> QED
    BY <1>4, <2>1, OpenAiClosing, AnthropicClosing
<1>5. ~AtEnd(protocol, answer, at, p, d)
  BY DEF AtEnd
<1> QED
  BY <1>1, <1>2, <1>3, <1>4, <1>5 DEF Followed

\* Only the last frame of a stream is terminal, and nothing is behind it.
LEMMA FollowedEnds ==
  ASSUME NEW protocol \in Protocols, NEW answer \in Answer, NEW at, NEW p, NEW d,
         Followed(protocol, answer, at, p, d), p.terminal
  PROVE  AtEnd(protocol, answer, at, p, d)
<1>1. p.terminal # FALSE
  OBVIOUS
<1> QED
  BY <1>1 DEF Followed, AtStart, InBlock, AtClosing, Counting, Metering

LEMMA BuiltMeans ==
  ASSUME NEW protocol \in Protocols, NEW answer \in Answer, NEW at, NEW p, NEW d,
         AtEnd(protocol, answer, at, p, d),
         NEW built, built = Build(Assemble(d, LastDeltas(protocol, p)))
  PROVE  [text |-> built.text, calls |-> built.calls, usage |-> built.usage] = Meant(answer)
<1> DEFINE n == Len(answer.blocks)
           reason == IF p.finish = None THEN "end_turn" ELSE p.finish
<1>0. /\ HeardTo(protocol, answer, n, 0, d)
      /\ protocol = "openai" => d.usage = Cost(answer)
      /\ protocol # "openai" => p.usage = Cost(answer)
  BY DEF AtEnd
<1>1. PICK e : e = Assemble(d, LastDeltas(protocol, p))
  OBVIOUS
<1>2. PICK c : /\ HeardTo(protocol, answer, n, 0, c) /\ c.usage = Cost(answer)
               /\ e = Update(c, FinishDelta(reason))
  <2>1. CASE protocol = "openai"
    <3>1. If(protocol # "openai", <<UsageDelta(p.usage)>>) = <<>>
      BY <2>1 DEF If
    <3>2. LastDeltas(protocol, p) = <<FinishDelta(reason)>>
      BY <3>1, JoinOne DEF LastDeltas
    <3>3. e = Update(d, FinishDelta(reason))
      BY <1>1, <3>2, AssembleOne
    <3> QED
      BY <1>0, <2>1, <3>3
  <2>2. CASE protocol # "openai"
    <3>1. If(protocol # "openai", <<UsageDelta(p.usage)>>) = <<UsageDelta(p.usage)>>
      BY <2>2 DEF If
    <3>2. PICK x, y : x = UsageDelta(p.usage) /\ y = FinishDelta(reason)
      OBVIOUS
    <3>3. LastDeltas(protocol, p) = <<x, y>>
      <4>1. LastDeltas(protocol, p) = <<x>> \o <<y>>
        BY <3>1, <3>2 DEF LastDeltas
      <4> QED
        BY <4>1, JoinTwo
    <3> HIDE DEF reason, n
    <3>4. e = Update(Update(d, UsageDelta(p.usage)), FinishDelta(reason))
      <4>1. e = Assemble(d, <<x, y>>)
        BY <1>1, <3>3
      <4>2. Assemble(d, <<x, y>>) = Update(Update(d, x), y)
        BY AssembleTwo
      <4> QED
        BY <3>2, <4>1, <4>2, Zenon
    <3>5. PICK c : c = Update(d, UsageDelta(p.usage))
      OBVIOUS
    <3>6. HeardTo(protocol, answer, n, 0, c) /\ c.usage = p.usage
      BY <1>0, <3>5, HeardSame
    <3> QED
      BY <1>0, <2>2, <3>4, <3>5, <3>6
  <2> QED
    BY <2>1, <2>2
<1> HIDE DEF reason
<1>3. /\ e.text = c.text /\ e.calls = c.calls /\ e.usage = Cost(answer)
      /\ Lists(c.text, answer.blocks, "text", n, TextOf(answer)) /\ c.text \in Seq(STRING)
      /\ Gathered(protocol, answer, n, 0, c.calls)
  <2>1. Assembled(c)
    BY <1>2 DEF HeardTo
  <2>2. Holds(e, c.text, c.calls, c.usage)
    BY <1>2, <2>1, UpdateFacts
  <2> QED
    BY <1>2, <2>2 DEF HeardTo, Holds
<1>4. built.text = Said(answer)
  <2>1. Said(answer) = [i \in DOMAIN Said(answer) |-> Said(answer)[i]]
    BY DEF Said
  <2>2. c.text = [i \in DOMAIN c.text |-> c.text[i]]
    <3>1. PICK s \in Seq(STRING) : s = c.text
      BY <1>3
    <3>2. s = [i \in DOMAIN s |-> s[i]]
      OBVIOUS
    <3> QED
      BY <3>1, <3>2
  <2>3. n \in Nat /\ Lists(Said(answer), answer.blocks, "text", n, TextOf(answer))
    BY BlockFacts, SaidLists
  <2> HIDE DEF n
  <2>4. DOMAIN Said(answer) = DOMAIN c.text /\ \A i \in DOMAIN Said(answer) : Said(answer)[i] = c.text[i]
    BY <1>3, <2>3, ListsOnce
  <2>5. Said(answer) = c.text
    BY <2>1, <2>2, <2>4
  <2>6. built.text = e.text
    BY <1>1 DEF Build
  <2> QED
    BY <1>3, <2>5, <2>6
<1>5. built.calls = Meant(answer).calls
  <2>1. built.calls = BuiltCalls(c.calls)
    <3>1. built.calls = BuiltCalls(e.calls)
      BY <1>1 DEF Build, BuiltCalls
    <3> QED
      BY <1>3, <3>1
  <2>2. Gathered(protocol, answer, Len(answer.blocks), 0, c.calls)
    BY <1>3
  <2> QED
    BY <2>1, <2>2, GatheredBuild
<1>6. built.usage = Cost(answer)
  BY <1>1, <1>3 DEF Build
<1>7. Meant(answer) = [text |-> Said(answer), calls |-> Meant(answer).calls, usage |-> Cost(answer)]
  BY DEF Meant, Cost
<1> QED
  BY <1>4, <1>5, <1>6, <1>7

-----------------------------------------------------------------------------
(* The answers of the calls *)

\* Who reads no stream has a parser and an assembler as they start.
Unread(c) == pc[c] # "reading" => parser[c] = Parser /\ deltas[c] = Assembler

\* Who reads one has followed it, or has seen it cut before its last frame.
Reads(c) ==
  pc[c] = "reading"
    => /\ profile.streaming
       /\ DOMAIN reply[c] = {"open", "answer", "at"} /\ reply[c].answer \in Answers
       /\ \/ Followed(profile.protocol, reply[c].answer, reply[c].at, parser[c], deltas[c])
          \/ Over(c) /\ ~parser[c].terminal

\* What a result says is what its answer means.
Truthful(got) ==
  /\ SaysAll(got.answer, got)
  /\ got.usage = Meant(got.answer).usage \/ CostDropped(got.answer)

Tells(c) ==
  pc[c] \in {"storing", "returned"} /\ (profile.strict \/ ~profile.streaming)
    => Truthful(result[c])

ReadInv(c) == Unread(c) /\ Reads(c) /\ Tells(c)

\* What is inductive besides IInv.
AnswerInv ==
  /\ DOMAIN parser = Calls /\ DOMAIN deltas = Calls
  /\ \A c \in Calls : ReadInv(c)

\* A call whose own state did not change keeps its part.
LEMMA ReadKept ==
  ASSUME NEW d \in Calls, ReadInv(d), profile' = profile, pc'[d] = pc[d], reply'[d] = reply[d],
         parser'[d] = parser[d], deltas'[d] = deltas[d], result'[d] = result[d]
  PROVE  ReadInv(d)'
<1>1. Unread(d)'
  BY DEF ReadInv, Unread
<1>2. Reads(d)'
  BY DEF ReadInv, Reads, Over
<1>3. Tells(d)'
  BY DEF ReadInv, Tells, Truthful, CostDropped
<1> QED
  BY <1>1, <1>2, <1>3 DEF ReadInv

LEMMA AnswerStep ==
  ASSUME IInv, AnswerInv, NEW c \in Calls, NEW place, pc' = [pc EXCEPT ![c] = place],
         profile' = profile, DOMAIN parser' = Calls, DOMAIN deltas' = Calls,
         \A d \in Calls \ {c} : /\ reply'[d] = reply[d] /\ parser'[d] = parser[d]
                                /\ deltas'[d] = deltas[d] /\ result'[d] = result[d],
         ReadInv(c)'
  PROVE  AnswerInv'
<1>1. ASSUME NEW d \in Calls, d # c
      PROVE  ReadInv(d)'
  <2>1. pc'[d] = pc[d]
    BY <1>1 DEF IInv, TypeOK
  <2> QED
    BY <1>1, <2>1, ReadKept DEF AnswerInv
<1> QED
  BY <1>1 DEF AnswerInv

\* A call that goes on to something else than an answer, with nothing read.
LEMMA ElsewhereStep ==
  ASSUME IInv, AnswerInv, NEW c \in Calls, NEW place, place \notin {"reading", "storing", "returned"},
         pc' = [pc EXCEPT ![c] = place], profile' = profile,
         Drop(c) \/ (pc[c] # "reading" /\ UNCHANGED reading),
         \A d \in Calls \ {c} : result'[d] = result[d]
  PROVE  AnswerInv'
<1>1. DOMAIN parser' = Calls /\ DOMAIN deltas' = Calls
  BY DEF Drop, reading, AnswerInv
<1>2. \A d \in Calls \ {c} : /\ reply'[d] = reply[d] /\ parser'[d] = parser[d]
                             /\ deltas'[d] = deltas[d]
  BY DEF Drop, reading, AnswerInv, IInv
<1>3. parser'[c] = Parser /\ deltas'[c] = Assembler
  <2>1. CASE Drop(c)
    BY <2>1 DEF Drop, AnswerInv
  <2>2. CASE pc[c] # "reading" /\ UNCHANGED reading
    BY <2>2 DEF AnswerInv, ReadInv, Unread, reading
  <2> QED
    BY <2>1, <2>2
<1>4. pc'[c] = place
  BY DEF IInv, TypeOK
<1>5. ReadInv(c)'
  BY <1>3, <1>4 DEF ReadInv, Unread, Reads, Tells
<1> QED
  BY <1>1, <1>2, <1>5, AnswerStep

LEMMA FailAnswers ==
  ASSUME IInv, AnswerInv, NEW c \in Calls, NEW error, Fail(c, error), profile' = profile
  PROVE  AnswerInv'
<1>1. /\ pc' = [pc EXCEPT ![c] = "failed"] /\ Drop(c)
      /\ \A d \in Calls \ {c} : result'[d] = result[d]
  BY DEF Fail, Leave, IInv
<1> QED
  BY <1>1, ElsewhereStep

\* Who has begun no request, or waits for one, has nothing of an answer.
LEMMA LimitedAnswers ==
  ASSUME IInv, AnswerInv, NEW c \in Calls, Submit(c) \/ Limited(c)
  PROVE  AnswerInv'
<1>1. pc[c] # "reading" /\ UNCHANGED <<profile, reading>>
  BY DEF Submit, Limited, Enter, Reserve, Wake, Retry, Ended
<1>2. PICK place : place \notin {"reading", "storing", "returned"} /\ pc' = [pc EXCEPT ![c] = place]
  BY DEF Submit, Limited, Enter, Reserve, Wake, Retry
<1>3. \A d \in Calls \ {c} : result'[d] = result[d]
  BY DEF Submit, Limited, Enter, Reserve, Wake, Retry, IInv
<1> QED
  BY <1>1, <1>2, <1>3, ElsewhereStep

\* What the provider may answer a profile, in frames and parsed.
LEMMA AnsweredFacts ==
  ASSUME IInv, NEW answer \in Answers
  PROVE  /\ answer \in Answer /\ profile \in Profiles /\ profile.protocol \in Protocols
         /\ Streams[profile][answer] = Stream(profile.protocol, answer)
         /\ Parsed[profile][answer] = Parse(profile.protocol, ReplyBody(profile.protocol, answer))
<1>1. answer \in Answer /\ profile \in Profiles
  BY GatewayAssumption DEF IInv, TypeOK
<1>2. profile.protocol \in Protocols
  BY <1>1, GatewayAssumption DEF Profile
<1> QED
  BY <1>1, <1>2 DEF Streams, Parsed

LEMMA ReturnedFacts ==
  ASSUME NEW answer, NEW got
  PROVE  LET r == Returned(answer, got)
         IN  /\ r.answer = answer /\ r.text = got.text
             /\ r.calls = got.calls /\ r.usage = got.usage
BY DEF Returned, NoResult

LEMMA WholeReplyAnswers ==
  ASSUME IInv, AnswerInv, NEW c \in Calls, NEW answer \in Answers, WholeReply(c, answer)
  PROVE  AnswerInv'
<1>1. CASE Parsed[profile][answer] = Refused
  BY <1>1, FailAnswers DEF WholeReply
<1>2. CASE Parsed[profile][answer] # Refused
  <2>1. PICK parsed, got : parsed = Parsed[profile][answer] /\ got = Returned(answer, parsed)
    OBVIOUS
  <2>2. /\ pc[c] = "posting" /\ pc' = [pc EXCEPT ![c] = "storing"]
        /\ result' = [result EXCEPT ![c] = got] /\ UNCHANGED <<profile, reading>>
    BY <1>2, <2>1 DEF WholeReply
  <2>3. Truthful(got)
    <3>1. got.answer = answer /\ got.text = parsed.text /\ got.calls = parsed.calls
          /\ got.usage = parsed.usage
      BY <2>1, ReturnedFacts
    <3>2. /\ parsed = Parse(profile.protocol, ReplyBody(profile.protocol, answer))
          /\ parsed # Refused /\ answer \in Answer /\ profile.protocol \in Protocols
          /\ ~profile.streaming
      BY <1>2, <2>1, AnsweredFacts DEF WholeReply
    <3>3. /\ SaysAll(answer, parsed)
          /\ parsed.usage = Meant(answer).usage
               \/ (profile.protocol = "anthropic" /\ answer.blocks = <<>>)
      BY <3>2, ParseMeans
    <3> QED
      BY <3>1, <3>2, <3>3 DEF Truthful, SaysAll, CostDropped
  <2>4. pc'[c] = "storing" /\ result'[c] = got
    BY <2>2 DEF IInv, TypeOK
  <2>5. ReadInv(c)'
    <3>1. Unread(c)'
      BY <2>2 DEF AnswerInv, ReadInv, Unread, reading
    <3>2. Reads(c)'
      BY <2>4 DEF Reads
    <3>3. Tells(c)'
      BY <2>2, <2>3, <2>4 DEF Tells, Truthful, CostDropped
    <3> QED
      BY <3>1, <3>2, <3>3 DEF ReadInv
  <2>6. /\ DOMAIN parser' = Calls /\ DOMAIN deltas' = Calls
        /\ \A d \in Calls \ {c} : /\ reply'[d] = reply[d] /\ parser'[d] = parser[d]
                                  /\ deltas'[d] = deltas[d] /\ result'[d] = result[d]
    BY <2>2 DEF AnswerInv, IInv, reading
  <2> QED
    BY <2>2, <2>5, <2>6, AnswerStep
<1> QED
  BY <1>1, <1>2

LEMMA OpenStreamAnswers ==
  ASSUME IInv, AnswerInv, NEW c \in Calls, NEW answer \in Answers, OpenStream(c, answer)
  PROVE  AnswerInv'
<1>1. PICK opened : opened = [open |-> TRUE, answer |-> answer, at |-> Opening(profile.protocol)]
  OBVIOUS
<1>2. /\ pc[c] = "posting" /\ profile.streaming /\ pc' = [pc EXCEPT ![c] = "reading"]
      /\ reply' = [reply EXCEPT ![c] = opened] /\ UNCHANGED <<profile, parser, deltas, result>>
  BY <1>1 DEF OpenStream, limiter
<1>3. /\ opened.answer = answer /\ opened.at = Opening(profile.protocol)
      /\ DOMAIN opened = {"open", "answer", "at"}
  BY <1>1
<1>4. parser[c] = Parser /\ deltas[c] = Assembler
  BY <1>2 DEF AnswerInv, ReadInv, Unread
<1>5. Followed(profile.protocol, answer, opened.at, parser[c], deltas[c])
  <2>1. Followed(profile.protocol, answer, Opening(profile.protocol), Parser, Assembler)
    BY AnsweredFacts, FollowedStarts
  <2> QED
    BY <1>3, <1>4, <2>1
<1>6. pc'[c] = "reading" /\ reply'[c] = opened
  BY <1>2 DEF IInv, TypeOK
<1>7. ReadInv(c)'
  <2>1. Unread(c)' /\ Tells(c)'
    BY <1>6 DEF Unread, Tells
  <2>2. Reads(c)'
    BY <1>2, <1>3, <1>5, <1>6 DEF Reads
  <2> QED
    BY <2>1, <2>2 DEF ReadInv
<1>8. /\ DOMAIN parser' = Calls /\ DOMAIN deltas' = Calls
      /\ \A d \in Calls \ {c} : /\ reply'[d] = reply[d] /\ parser'[d] = parser[d]
                                /\ deltas'[d] = deltas[d] /\ result'[d] = result[d]
  BY <1>2 DEF AnswerInv, IInv
<1> QED
  BY <1>2, <1>7, <1>8, AnswerStep

LEMMA ReadFrameAnswers ==
  ASSUME IInv, AnswerInv, NEW c \in Calls, ReadFrame(c)
  PROVE  AnswerInv'
<1>1. PICK answer, at, protocol : answer = reply[c].answer /\ at = reply[c].at
                                  /\ protocol = profile.protocol
  OBVIOUS
<1>2. /\ pc[c] = "reading" /\ at # Ending(answer) /\ profile.streaming /\ answer \in Answers
      /\ Followed(protocol, answer, at, parser[c], deltas[c])
  BY <1>1 DEF ReadFrame, Over, AnswerInv, ReadInv, Reads
<1>3. answer \in Answer /\ protocol \in Protocols
      /\ Streams[profile][answer] = Stream(protocol, answer)
  BY <1>1, <1>2, AnsweredFacts
<1>4. PICK stream, got : /\ stream = Stream(protocol, answer)
                         /\ got = Chunk(protocol, parser[c], FrameAt(stream, at))
  OBVIOUS
<1>5. Followed(protocol, answer, Onward(stream, at), got.parser, Assemble(deltas[c], got.deltas))
  <2>1. Stepped(protocol, answer, at, parser[c], deltas[c])
    BY <1>2, <1>3, FollowedOn
  <2> QED
    BY <1>4, <2>1 DEF Stepped
<1>6. /\ parser' = [parser EXCEPT ![c] = got.parser]
      /\ deltas' = [deltas EXCEPT ![c] = Assemble(@, got.deltas)]
      /\ reply' = [reply EXCEPT ![c].at = Onward(stream, @)]
      /\ UNCHANGED <<profile, pc, result>>
  BY <1>1, <1>3, <1>4 DEF ReadFrame
<1>7. /\ parser'[c] = got.parser /\ deltas'[c] = Assemble(deltas[c], got.deltas)
      /\ DOMAIN parser' = Calls /\ DOMAIN deltas' = Calls
      /\ \A d \in Calls \ {c} : /\ reply'[d] = reply[d] /\ parser'[d] = parser[d]
                                /\ deltas'[d] = deltas[d] /\ result'[d] = result[d]
  BY <1>6 DEF AnswerInv, IInv
<1>8. /\ reply'[c].answer = answer /\ reply'[c].at = Onward(stream, at)
      /\ DOMAIN reply'[c] = {"open", "answer", "at"}
  <2>1. DOMAIN reply[c] = {"open", "answer", "at"}
    BY <1>2 DEF AnswerInv, ReadInv, Reads
  <2> QED
    BY <1>1, <1>6, <2>1 DEF IInv
<1>9. Followed(protocol, answer, reply'[c].at, parser'[c], deltas'[c])
  BY <1>5, <1>7, <1>8
<1>10. ReadInv(c)'
  <2>1. Unread(c)' /\ Tells(c)'
    BY <1>2, <1>6 DEF Unread, Tells
  <2>2. Reads(c)'
    BY <1>1, <1>2, <1>6, <1>8, <1>9 DEF Reads
  <2> QED
    BY <2>1, <2>2 DEF ReadInv
<1>11. pc' = [pc EXCEPT ![c] = "reading"]
  BY <1>2, <1>6 DEF IInv, TypeOK
<1> QED
  BY <1>6, <1>7, <1>10, <1>11, AnswerStep

LEMMA CutStreamAnswers ==
  ASSUME IInv, AnswerInv, NEW c \in Calls, CutStream(c)
  PROVE  AnswerInv'
<1>1. /\ pc[c] = "reading" /\ ~parser[c].terminal
      /\ reply' = [reply EXCEPT ![c].at = Ending(reply[c].answer)]
      /\ UNCHANGED <<profile, pc, parser, deltas, result>>
  BY DEF CutStream
<1>2. /\ DOMAIN reply[c] = {"open", "answer", "at"} /\ reply[c].answer \in Answers
      /\ profile.streaming
  BY <1>1 DEF AnswerInv, ReadInv, Reads
<1>3. /\ reply'[c].answer = reply[c].answer /\ reply'[c].at = Ending(reply[c].answer)
      /\ DOMAIN reply'[c] = {"open", "answer", "at"}
      /\ \A d \in Calls \ {c} : reply'[d] = reply[d]
  BY <1>1, <1>2 DEF IInv
<1>4. ReadInv(c)'
  <2>1. Unread(c)' /\ Tells(c)'
    BY <1>1 DEF Unread, Tells
  <2>2. Reads(c)'
    BY <1>1, <1>2, <1>3 DEF Reads, Over
  <2> QED
    BY <2>1, <2>2 DEF ReadInv
<1>5. pc' = [pc EXCEPT ![c] = "reading"] /\ DOMAIN parser' = Calls /\ DOMAIN deltas' = Calls
  BY <1>1 DEF IInv, TypeOK, AnswerInv
<1> QED
  BY <1>1, <1>3, <1>4, <1>5, AnswerStep

LEMMA EndStreamAnswers ==
  ASSUME IInv, AnswerInv, NEW c \in Calls, EndStream(c)
  PROVE  AnswerInv'
<1>1. CASE ~Complete(c)
  BY <1>1, FailAnswers DEF EndStream
<1>2. CASE Complete(c)
  <2>1. PICK answer, protocol, built, got :
          /\ answer = reply[c].answer /\ protocol = profile.protocol
          /\ built = Build(Assemble(deltas[c], LastDeltas(protocol, parser[c])))
          /\ got = Returned(answer, built)
    OBVIOUS
  <2>2. /\ pc[c] = "reading" /\ pc' = [pc EXCEPT ![c] = "storing"]
        /\ result' = [result EXCEPT ![c] = got] /\ Drop(c) /\ profile' = profile
    BY <1>2, <2>1 DEF EndStream, Leave
  <2>3. profile.streaming /\ answer \in Answers
    BY <2>1, <2>2 DEF AnswerInv, ReadInv, Reads
  <2>4. ASSUME profile.strict
        PROVE  Truthful(got)
    <3>1. parser[c].terminal
      BY <1>2, <2>4 DEF Complete
    <3>2. Followed(protocol, answer, reply[c].at, parser[c], deltas[c])
      BY <2>1, <2>2, <3>1 DEF AnswerInv, ReadInv, Reads
    <3>3. answer \in Answer /\ protocol \in Protocols
      BY <2>1, <2>3, AnsweredFacts
    <3>4. AtEnd(protocol, answer, reply[c].at, parser[c], deltas[c])
      BY <3>1, <3>2, <3>3, FollowedEnds
    <3>5. [text |-> built.text, calls |-> built.calls, usage |-> built.usage] = Meant(answer)
      BY <2>1, <3>3, <3>4, BuiltMeans
    <3>6. got.answer = answer /\ got.text = built.text /\ got.calls = built.calls
          /\ got.usage = built.usage
      BY <2>1, ReturnedFacts
    <3>7. SaysAll(got.answer, got) /\ got.usage = Meant(answer).usage
      <4>1. [text |-> built.text, calls |-> built.calls, usage |-> built.usage].text = built.text
            /\ [text |-> built.text, calls |-> built.calls, usage |-> built.usage].calls = built.calls
            /\ [text |-> built.text, calls |-> built.calls, usage |-> built.usage].usage = built.usage
        OBVIOUS
      <4> QED
        BY <3>5, <3>6, <4>1 DEF SaysAll
    <3> QED
      BY <3>6, <3>7 DEF Truthful
  <2>5. pc'[c] = "storing" /\ result'[c] = got
    BY <2>2 DEF IInv, TypeOK
  <2>6. /\ parser'[c] = Parser /\ deltas'[c] = Assembler
        /\ DOMAIN parser' = Calls /\ DOMAIN deltas' = Calls
        /\ \A d \in Calls \ {c} : /\ reply'[d] = reply[d] /\ parser'[d] = parser[d]
                                  /\ deltas'[d] = deltas[d] /\ result'[d] = result[d]
    BY <2>2 DEF Drop, AnswerInv, IInv
  <2>7. ReadInv(c)'
    <3>1. Unread(c)' /\ Reads(c)'
      BY <2>5, <2>6 DEF Unread, Reads
    <3>2. Tells(c)'
      BY <2>2, <2>3, <2>4, <2>5 DEF Tells, Truthful, CostDropped
    <3> QED
      BY <3>1, <3>2 DEF ReadInv
  <2> QED
    BY <2>2, <2>6, <2>7, AnswerStep
<1> QED
  BY <1>1, <1>2

\* The digest of the stored file is beside what the answer says.
LEMMA StoreAnswerAnswers ==
  ASSUME IInv, AnswerInv, NEW c \in Calls, NEW stored, StoreAnswer(c, stored)
  PROVE  AnswerInv'
<1>1. /\ pc[c] = "storing" /\ pc' = [pc EXCEPT ![c] = "returned"]
      /\ result' = [result EXCEPT ![c].stored = stored] /\ UNCHANGED <<profile, reading>>
  BY DEF StoreAnswer
<1>2. /\ pc'[c] = "returned" /\ result'[c].answer = result[c].answer
      /\ result'[c].text = result[c].text /\ result'[c].calls = result[c].calls
      /\ result'[c].usage = result[c].usage
  BY <1>1 DEF IInv, TypeOK
<1>3. ReadInv(c)'
  <2>1. Unread(c)'
    BY <1>1 DEF AnswerInv, ReadInv, Unread, reading
  <2>2. Reads(c)'
    BY <1>2 DEF Reads
  <2>3. Tells(c)'
    BY <1>1, <1>2 DEF AnswerInv, ReadInv, Tells, Truthful, SaysAll, CostDropped
  <2> QED
    BY <2>1, <2>2, <2>3 DEF ReadInv
<1>4. /\ DOMAIN parser' = Calls /\ DOMAIN deltas' = Calls
      /\ \A d \in Calls \ {c} : /\ reply'[d] = reply[d] /\ parser'[d] = parser[d]
                                /\ deltas'[d] = deltas[d] /\ result'[d] = result[d]
  BY <1>1 DEF AnswerInv, IInv, reading
<1> QED
  BY <1>1, <1>3, <1>4, AnswerStep

LEMMA CancelAnswers ==
  ASSUME IInv, AnswerInv, NEW c \in Calls, Cancel(c)
  PROVE  AnswerInv'
<1>1. /\ pc' = [pc EXCEPT ![c] = "cancelled"] /\ Drop(c) /\ profile' = profile
      /\ \A d \in Calls \ {c} : result'[d] = result[d]
  BY DEF Cancel, IInv
<1> QED
  BY <1>1, ElsewhereStep

LEMMA RepliedAnswers ==
  ASSUME IInv, AnswerInv, NEW c \in Calls, Replied(c)
  PROVE  AnswerInv'
<1>1. CASE KeyMissing(c)
  BY <1>1, FailAnswers DEF KeyMissing
<1>2. ASSUME NEW error, TransientReply(c, error)
      PROVE  AnswerInv'
  <2>1. pc[c] = "posting" /\ profile' = profile
    BY <1>2 DEF TransientReply
  <2>2. CASE MayRetry(c)
    <3>1. pc' = [pc EXCEPT ![c] = "backoff"] /\ UNCHANGED <<reading, result>>
      BY <1>2, <2>2 DEF TransientReply
    <3> QED
      BY <2>1, <3>1, ElsewhereStep
  <2>3. CASE ~MayRetry(c)
    BY <1>2, <2>1, <2>3, FailAnswers DEF TransientReply
  <2> QED
    BY <2>2, <2>3
<1>3. ASSUME NEW error, RefusedReply(c, error)
      PROVE  AnswerInv'
  BY <1>3, FailAnswers DEF RefusedReply
<1> QED
  BY <1>1, <1>2, <1>3, WholeReplyAnswers, OpenStreamAnswers DEF Replied

LEMMA StreamedAnswers ==
  ASSUME IInv, AnswerInv, NEW c \in Calls, Streamed(c)
  PROVE  AnswerInv'
<1>1. ASSUME NEW error, BreakStream(c, error)
      PROVE  AnswerInv'
  BY <1>1, FailAnswers DEF BreakStream
<1> QED
  BY <1>1, ReadFrameAnswers, CutStreamAnswers, EndStreamAnswers DEF Streamed

LEMMA NextAnswers == IInv /\ AnswerInv /\ [Next]_vars => AnswerInv'
<1> SUFFICES ASSUME IInv, AnswerInv, [Next]_vars
             PROVE  AnswerInv'
  OBVIOUS
<1>1. ASSUME NEW c \in Calls, CallStep(c)
      PROVE  AnswerInv'
  <2>1. CASE Stored(c)
    BY <2>1, StoreAnswerAnswers DEF Stored
  <2> QED
    BY <1>1, <2>1, LimitedAnswers, RepliedAnswers, StreamedAnswers, CancelAnswers DEF CallStep
<1>2. CASE Tick \/ UNCHANGED vars
  <2>1. UNCHANGED <<profile, pc, reply, parser, deltas, result>>
    BY <1>2 DEF Tick, vars, reading
  <2>2. \A d \in Calls : ReadInv(d)'
    BY <2>1, ReadKept DEF AnswerInv
  <2> QED
    BY <2>1, <2>2 DEF AnswerInv
<1> QED
  BY <1>1, <1>2 DEF Next, CallStep

LEMMA InitAnswers == Init => AnswerInv
BY DEF Init, AnswerInv, ReadInv, Unread, Reads, Tells

\* What complete() returns, and what a stream returns under strict_stream_completion,
\* is the whole of what the provider said: every text and every call with its
\* arguments, for any answer of any number of blocks, none included, any protocol, and
\* however calls fail, are cut, retried or cancelled around it; and the cost, but for
\* the answer of Anthropic's that complete() reads cut before its first block
\* (_require_stream_terminal, StreamAssembler, _parse_response).
THEOREM AnswersAreWhole == Spec => []AnswerIsWhole
<1>1. AnswerInv => AnswerIsWhole
  BY DEF AnswerInv, ReadInv, Tells, Truthful, SaysAll, AnswerIsWhole
<1>2. Spec => []AnswerInv
  BY Invariance, InitAnswers, NextAnswers, PTL DEF Spec
<1> QED
  BY <1>1, <1>2, PTL
=============================================================================
