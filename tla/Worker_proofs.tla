---------------------------- MODULE Worker_proofs -----------------------------
(***************************************************************************)
(* What the model/tool loop guarantees for any budgets, windows, tool plans *)
(* and providers: requests stay well formed whatever is evicted, carried to *)
(* the next attempt or read back from disk, and the budgets hold.          *)
(***************************************************************************)
EXTENDS Worker, FiniteSetTheorems, WellFoundedInduction, SequenceTheorems, TLAPS

-----------------------------------------------------------------------------
(* Smallest elements *)

\* A set of naturals that is not empty has a smallest element, and Min is it:
\* an interval 0..x that contains no other of the set's belongs to it.
LEMMA MinFacts ==
  ASSUME NEW S \in SUBSET Nat, S # {}
  PROVE  Min(S) \in S /\ \A x \in S : Min(S) <= x
<1>1. PICK n \in S : TRUE
  OBVIOUS
<1> DEFINE Below(x) == 0..x
<1> DEFINE T == {Below(x) : x \in {y \in S : y <= n}}
<1> DEFINE R == StrictSubsetOrdering(0..n)
<1>2. IsWellFoundedOn(R, SUBSET (0..n))
  <2>1. IsFiniteSet(0..n)
    BY <1>1, FS_Interval
  <2>2. FiniteSubsetsOf(0..n) = SUBSET (0..n)
    BY <2>1, FS_FiniteSubsetsOfFinite
  <2> QED
    BY <2>2, FS_StrictSubsetOrderingWellFounded
<1>3. T \subseteq SUBSET (0..n) /\ T # {}
  BY <1>1
<1>4. PICK X \in T : \A Y \in T : <<Y, X>> \notin R
  <2> HIDE DEF R, T
  <2> QED
    BY <1>2, <1>3, WFMin
<1>5. PICK m \in S : m <= n /\ X = Below(m)
  BY <1>4
<1>6. \A x \in S : m <= x
  <2> SUFFICES ASSUME NEW x \in S, x < m  PROVE FALSE
    OBVIOUS
  <2>1. x \in Nat /\ m \in Nat /\ n \in Nat
    BY <1>1, <1>5
  <2>2. Below(x) \in T
    BY <1>5, <2>1
  <2>3. Below(x) \subseteq Below(m) /\ Below(x) # Below(m)
    <3>1. m \in Below(m) /\ m \notin Below(x)
      BY <2>1
    <3> QED
      BY <2>1, <3>1
  <2>4. <<Below(x), X>> \in R
    BY <1>3, <1>5, <2>2, <2>3 DEF StrictSubsetOrdering
  <2> QED
    BY <1>4, <2>2, <2>4
<1> QED
  BY <1>5, <1>6 DEF Min

-----------------------------------------------------------------------------
(* The operators of the conversation *)

LEMMA SizeFacts == \A r \in Roles : Size[r] \in Nat
  BY WorkerAssumption DEF WorkerAssumption

\* What some messages weigh is a number.
LEMMA WeightType ==
  ASSUME NEW m, NEW kept, IsFiniteSet(kept)
  PROVE  Weight(m, kept) \in Nat
<1> DEFINE At(r) == Cardinality({i \in kept : m[i].role = r})
<1>1. \A r : At(r) \in Nat
  <2> SUFFICES ASSUME NEW r  PROVE Cardinality({i \in kept : m[i].role = r}) \in Nat
    OBVIOUS
  <2>1. {i \in kept : m[i].role = r} \subseteq kept
    OBVIOUS
  <2>2. IsFiniteSet({i \in kept : m[i].role = r})
    BY <2>1, FS_Subset
  <2> QED
    BY <2>2, FS_CardinalityType
<1>2. Weight(m, kept) = Size["system"] * At("system") + Size["user"] * At("user")
                        + Size["assistant"] * At("assistant") + Size["tool"] * At("tool")
  BY DEF Weight
<1>3. \A a, b \in Nat : a * b \in Nat
  OBVIOUS
<1>4. \A r \in Roles : Size[r] * At(r) \in Nat
  <2> HIDE DEF At
  <2> QED
    BY <1>1, <1>3, SizeFacts
<1> HIDE DEF At
<1> QED
  BY <1>2, <1>4 DEF Roles

LEMMA EstimateType ==
  ASSUME NEW m, Len(m) \in Nat
  PROVE  Estimate(m) \in Nat
  BY FS_Interval, WeightType DEF Estimate

\* The prompt is the system prompt, if any, and the objective.
LEMMA PromptFacts ==
  /\ Prompt \in Seq(Message) /\ Len(Prompt) \in {1, 2}
  /\ Len(Prompt) = 2 => Prompt[1] = Turn("system", 0) /\ Prompt[2] = Turn("user", 0)
  /\ Len(Prompt) = 1 => Prompt[1] = Turn("user", 0)
<1>1. Turn("system", 0) \in Message /\ Turn("user", 0) \in Message
  BY DEF Turn, Message, Roles
<1>2. CASE SystemPrompt
  <2> DEFINE a == <<Turn("system", 0)>>
             b == <<Turn("user", 0)>>
  <2>1. a \in Seq(Message) /\ Len(a) = 1 /\ a[1] = Turn("system", 0)
    BY <1>1
  <2>2. b \in Seq(Message) /\ Len(b) = 1 /\ b[1] = Turn("user", 0)
    BY <1>1
  <2>3. Prompt = a \o b
    BY <1>2 DEF Prompt
  <2> HIDE DEF a, b
  <2>4. /\ a \o b \in Seq(Message) /\ Len(a \o b) = Len(a) + Len(b)
        /\ \A i \in 1..(Len(a) + Len(b)) :
             (a \o b)[i] = IF i <= Len(a) THEN a[i] ELSE b[i - Len(a)]
    BY <2>1, <2>2, ConcatProperties
  <2> QED
    BY <2>1, <2>2, <2>3, <2>4
<1>3. CASE ~SystemPrompt
  <2>1. Prompt = <<Turn("user", 0)>>
    <3>1. \A y : <<>> \o <<y>> = <<y>>
      OBVIOUS
    <3> QED
      BY <1>3, <3>1 DEF Prompt
  <2> QED
    BY <1>1, <2>1
<1> QED
  BY <1>2, <1>3

\* The systems that open a conversation, counted.
LEMMA SystemsFacts ==
  ASSUME NEW m, Len(m) \in Nat
  PROVE  LET opens == {i \in 0..Len(m) : i = Len(m) \/ m[i + 1].role # "system"}
         IN  Min(opens) \in opens /\ \A i \in opens : Min(opens) <= i
<1> DEFINE opens == {i \in 0..Len(m) : i = Len(m) \/ m[i + 1].role # "system"}
<1>1. opens \in SUBSET Nat /\ Len(m) \in opens
  OBVIOUS
<1> HIDE DEF opens
<1>2. Min(opens) \in opens /\ \A i \in opens : Min(opens) <= i
  BY <1>1, MinFacts
<1> QED
  BY <1>2 DEF opens

LEMMA PinnedType ==
  ASSUME NEW m, Len(m) \in Nat
  PROVE  Pinned(m) \in 0..Len(m)
<1> DEFINE systems == Min({i \in 0..Len(m) : i = Len(m) \/ m[i + 1].role # "system"})
<1>1. systems \in 0..Len(m)
  BY SystemsFacts
<1>2. Pinned(m) = IF systems < Len(m) /\ m[systems + 1].role = "user"
                  THEN systems + 1 ELSE systems
  BY DEF Pinned
<1> HIDE DEF systems
<1> QED
  BY <1>1, <1>2

LEMMA SpanStartsType ==
  ASSUME NEW m, Len(m) \in Nat
  PROVE  SpanStarts(m) \subseteq (Pinned(m) + 1)..Len(m)
  BY DEF SpanStarts

\* An eviction shifts what is kept behind the pinned prefix.
LEMMA EvictFacts ==
  ASSUME NEW m \in Seq(Message), NEW s \in (Pinned(m) + 1)..(Len(m) + 1)
  PROVE  LET e == EvictBefore(m, s)
             d == s - Pinned(m) - 1
         IN  /\ e \in Seq(Message)
             /\ Len(e) = Len(m) - d
             /\ \A i \in 1..Len(e) : e[i] = IF i <= Pinned(m) THEN m[i] ELSE m[i + d]
<1> DEFINE p == Pinned(m)
           a == SubSeq(m, 1, p)
           b == SubSeq(m, s, Len(m))
<1>1. p \in 0..Len(m) /\ Len(m) \in Nat /\ s \in (p + 1)..(Len(m) + 1)
  BY PinnedType
<1> HIDE DEF p
<1>2. a \in Seq(Message) /\ Len(a) = p /\ \A i \in 1..p : a[i] = m[i]
  <2>1. CASE p = 0
    BY <2>1
  <2>2. CASE p # 0
    BY <1>1, <2>2, SubSeqProperties
  <2> QED
    BY <2>1, <2>2
<1>3. /\ b \in Seq(Message) /\ Len(b) = Len(m) - s + 1
      /\ \A i \in 1..(Len(m) - s + 1) : b[i] = m[s + i - 1]
  <2>1. CASE s = Len(m) + 1
    BY <1>1, <2>1
  <2>2. CASE s <= Len(m)
    BY <1>1, <2>2, SubSeqProperties
  <2> QED
    BY <1>1, <2>1, <2>2
<1> HIDE DEF a, b
<1>4. /\ a \o b \in Seq(Message) /\ Len(a \o b) = Len(a) + Len(b)
      /\ \A i \in 1..(Len(a) + Len(b)) :
           (a \o b)[i] = IF i <= Len(a) THEN a[i] ELSE b[i - Len(a)]
  BY <1>2, <1>3, ConcatProperties
<1>5. EvictBefore(m, s) = a \o b
  BY DEF EvictBefore, a, b, p
<1>6. Len(a \o b) = Len(m) - (s - p - 1)
  BY <1>1, <1>2, <1>3, <1>4
<1>7. ASSUME NEW i \in 1..Len(a \o b)
      PROVE  (a \o b)[i] = IF i <= p THEN m[i] ELSE m[i + (s - p - 1)]
  <2>1. CASE i <= p
    BY <1>1, <1>2, <1>3, <1>4, <2>1
  <2>2. CASE i > p
    <3>1. i - p \in 1..(Len(m) - s + 1) /\ s + (i - p) - 1 = i + (s - p - 1)
      BY <1>1, <1>6, <2>2
    <3>2. (a \o b)[i] = b[i - p]
      BY <1>1, <1>2, <1>3, <1>4, <2>2
    <3>3. b[i - p] = m[s + (i - p) - 1]
      BY <1>3, <3>1
    <3> QED
      BY <1>1, <2>2, <3>1, <3>2, <3>3
  <2> QED
    BY <1>1, <2>1, <2>2
<1> QED
  BY <1>4, <1>5, <1>6, <1>7 DEF p

\* Compaction leaves the conversation alone or evicts up to the start of a span.
LEMMA CompactEvicts ==
  ASSUME NEW m \in Seq(Message)
  PROVE  \/ Compact(m) = m
         \/ \E s \in SpanStarts(m) \cup {Len(m) + 1} : Compact(m) = EvictBefore(m, s)
<1> DEFINE starts == SpanStarts(m)
           Enough(s) == \/ Weight(m, (1..Pinned(m)) \cup (s..Len(m))) * 100 <= Window * 62
                        \/ Cardinality({r \in starts : r >= s}) <= MinRetained
           cuts == {s \in starts \cup {Len(m) + 1} : Enough(s)}
<1>1. Len(m) \in Nat /\ Pinned(m) \in 0..Len(m)
  BY PinnedType
<1>2. starts \subseteq (Pinned(m) + 1)..Len(m)
  BY <1>1, SpanStartsType
<1>3. {r \in starts : r >= Len(m) + 1} = {}
  BY <1>1, <1>2
<1>4. Enough(Len(m) + 1)
  <2>1. Cardinality({r \in starts : r >= Len(m) + 1}) = 0
    BY <1>3, FS_EmptySet
  <2>2. MinRetained \in Nat
    BY WorkerAssumption DEF WorkerAssumption
  <2> QED
    BY <2>1, <2>2
<1>5. cuts \in SUBSET Nat /\ cuts # {}
  <2>1. Len(m) + 1 \in cuts
    BY <1>4
  <2>2. cuts \subseteq starts \cup {Len(m) + 1}
    OBVIOUS
  <2> HIDE DEF cuts
  <2> QED
    BY <1>1, <1>2, <2>1, <2>2
<1>6. Min(cuts) \in starts \cup {Len(m) + 1}
  <2>1. Min(cuts) \in cuts
    <3> HIDE DEF cuts
    <3> QED
      BY <1>5, MinFacts
  <2> QED
    BY <2>1
<1>7. Compact(m) = IF Estimate(m) * 100 <= Window * 78 THEN m
                   ELSE EvictBefore(m, Min(cuts))
  BY DEF Compact
<1> HIDE DEF cuts
<1> QED
  BY <1>6, <1>7

LEMMA CompactType ==
  ASSUME NEW m \in Seq(Message)
  PROVE  Compact(m) \in Seq(Message)
<1>1. Len(m) \in Nat /\ Pinned(m) \in 0..Len(m)
  BY PinnedType
<1>2. SpanStarts(m) \cup {Len(m) + 1} \subseteq (Pinned(m) + 1)..(Len(m) + 1)
  BY <1>1, SpanStartsType
<1> QED
  BY <1>2, CompactEvicts, EvictFacts

-----------------------------------------------------------------------------
(* Well-formed conversations *)

\* The prompt heads the conversation, and is nowhere else in it.
Headed(m) ==
  /\ Len(m) >= Len(Prompt)
  /\ \A i \in 1..Len(Prompt) : m[i] = Prompt[i]
  /\ \A i \in (Len(Prompt) + 1)..Len(m) :
       m[i] # Turn("user", 0) /\ m[i].role # "system"

WellFormed(m) == m \in Seq(Message) /\ Headed(m) /\ Paired(m)

\* Of a headed conversation, exactly the prompt is pinned.
LEMMA PinnedPrompt ==
  ASSUME NEW m \in Seq(Message), Headed(m)
  PROVE  Pinned(m) = Len(Prompt)
<1> DEFINE opens == {i \in 0..Len(m) : i = Len(m) \/ m[i + 1].role # "system"}
<1>1. Min(opens) \in opens /\ \A i \in opens : Min(opens) <= i
  <2>1. Len(m) \in Nat
    OBVIOUS
  <2> QED
    BY <2>1, SystemsFacts
<1>2. Pinned(m) = IF Min(opens) < Len(m) /\ m[Min(opens) + 1].role = "user"
                  THEN Min(opens) + 1 ELSE Min(opens)
  BY DEF Pinned
<1>3. Len(m) \in Nat /\ Len(m) >= Len(Prompt)
  BY DEF Headed
<1>4. CASE Len(Prompt) = 1
  <2>1. m[1].role = "user"
    BY <1>4, PromptFacts DEF Headed, Turn
  <2>2. 0 \in opens
    BY <1>3, <2>1
  <2>3. Min(opens) = 0
    <3> HIDE DEF opens
    <3>1. Min(opens) \in Nat
      BY <1>1 DEF opens
    <3> QED
      BY <1>1, <2>2, <3>1
  <2> HIDE DEF opens
  <2> QED
    BY <1>2, <1>3, <1>4, <2>1, <2>3
<1>5. CASE Len(Prompt) = 2
  <2>1. m[1].role = "system" /\ m[2].role = "user"
    BY <1>5, PromptFacts DEF Headed, Turn
  <2>2. 0 \notin opens /\ 1 \in opens
    BY <1>3, <1>5, <2>1
  <2>3. Min(opens) = 1
    <3>1. Min(opens) \in Nat
      BY <1>1
    <3> HIDE DEF opens
    <3> QED
      BY <1>1, <2>2, <3>1
  <2> HIDE DEF opens
  <2> QED
    BY <1>2, <1>3, <1>5, <2>1, <2>3
<1> QED
  BY <1>4, <1>5, PromptFacts

\* Evicting up to the start of a span never parts a result from its call.
LEMMA EvictWellFormed ==
  ASSUME NEW m, WellFormed(m), NEW s \in SpanStarts(m) \cup {Len(m) + 1}
  PROVE  WellFormed(EvictBefore(m, s))
<1> DEFINE e == EvictBefore(m, s)
           p == Len(Prompt)
           d == s - p - 1
<1>1. m \in Seq(Message) /\ Headed(m) /\ Paired(m) /\ Len(m) \in Nat
  BY DEF WellFormed
<1>2. Pinned(m) = p /\ p \in {1, 2} /\ p <= Len(m)
  BY <1>1, PinnedPrompt, PromptFacts DEF Headed
<1>3. s \in (p + 1)..(Len(m) + 1)
  BY <1>1, <1>2, SpanStartsType
<1>4. s = p + 1 \/ s = Len(m) + 1 \/ m[s].role # "tool"
  BY <1>1, <1>2 DEF SpanStarts
<1>5. /\ e \in Seq(Message) /\ Len(e) = Len(m) - d /\ d \in Nat
      /\ \A i \in 1..Len(e) : e[i] = IF i <= p THEN m[i] ELSE m[i + d]
  <2>1. s \in (Pinned(m) + 1)..(Len(m) + 1)
    BY <1>2, <1>3
  <2>2. /\ e \in Seq(Message) /\ Len(e) = Len(m) - (s - Pinned(m) - 1)
        /\ \A i \in 1..Len(e) :
             e[i] = IF i <= Pinned(m) THEN m[i] ELSE m[i + (s - Pinned(m) - 1)]
    BY <1>1, <2>1, EvictFacts
  <2>3. d \in Nat
    BY <1>1, <1>2, <1>3
  <2> QED
    BY <1>2, <2>2, <2>3
<1> HIDE DEF e
<1>6. \A i \in 1..p : e[i] = m[i]
  <2>1. \A i \in 1..p : i \in 1..Len(e) /\ i <= p
    BY <1>1, <1>2, <1>3, <1>5
  <2> HIDE DEF p, d
  <2> QED
    BY <1>5, <2>1
<1>7. \A i \in (p + 1)..Len(e) : e[i] = m[i + d] /\ i + d \in (p + 1)..Len(m)
  BY <1>1, <1>2, <1>3, <1>5
<1>8. Len(e) >= p
  BY <1>1, <1>2, <1>3, <1>5
<1>9. \A i \in 1..p : m[i].role \in {"system", "user"}
  BY <1>1, <1>2, PromptFacts DEF Headed, Turn
<1>10. Headed(e)
  <2> HIDE DEF p, d
  <2>1. \A i \in 1..Len(Prompt) : e[i] = Prompt[i]
    BY <1>1, <1>6 DEF Headed, p
  <2>2. \A i \in (Len(Prompt) + 1)..Len(e) :
          e[i] # Turn("user", 0) /\ e[i].role # "system"
    BY <1>1, <1>7 DEF Headed, p
  <2> QED
    BY <1>8, <2>1, <2>2 DEF Headed, p
<1>11. ASSUME NEW i \in 1..Len(e), e[i].role = "assistant", NEW k \in 1..e[i].n
       PROVE  i + k <= Len(e) /\ e[i + k] = Turn("tool", k)
  <2>1. i \in (p + 1)..Len(e) /\ i \in Nat /\ k \in Nat
    <3>1. i \in Nat /\ Len(e) \in Nat
      BY <1>1, <1>2, <1>3, <1>5
    <3>2. i \notin 1..p
      BY <1>6, <1>9, <1>11
    <3>3. i \in (p + 1)..Len(e)
      <4> HIDE DEF p
      <4> QED
        BY <1>2, <3>1, <3>2
    <3>4. k \in Nat
      <4>1. e[i] \in Message
        BY <1>5, ElementOfSeq
      <4>2. e[i].n \in Nat
        BY <4>1 DEF Message
      <4> QED
        BY <4>2
    <3> QED
      BY <3>1, <3>3, <3>4
  <2>2. e[i] = m[i + d] /\ i + d \in 1..Len(m)
    BY <1>2, <1>7, <2>1
  <2>3. (i + d) + k <= Len(m) /\ m[(i + d) + k] = Turn("tool", k)
    BY <1>1, <1>11, <2>2 DEF Paired
  <2>4. i + k <= Len(e) /\ i + k \in (p + 1)..Len(e)
    BY <1>1, <1>2, <1>3, <1>5, <2>1, <2>3, SMTT(30)
  <2>5. e[i + k] = m[(i + k) + d] /\ (i + k) + d = (i + d) + k
    BY <1>1, <1>3, <1>5, <1>7, <2>1, <2>4
  <2> QED
    BY <2>3, <2>4, <2>5
<1>12. ASSUME NEW i \in 1..Len(e), e[i].role = "tool"
       PROVE  /\ e[i].n < i /\ e[i - e[i].n].role = "assistant"
              /\ e[i].n <= e[i - e[i].n].n
  <2>1. PICK t \in Nat : t = e[i].n
    <3>1. e[i] \in Message
      BY <1>5, ElementOfSeq
    <3> QED
      BY <3>1 DEF Message
  <2>2. i \in (p + 1)..Len(e)
    <3> SUFFICES ASSUME i \in 1..p  PROVE FALSE
      BY <1>2, <1>5
    <3> QED
      BY <1>6, <1>9, <1>12
  <2>3. e[i] = m[i + d] /\ i + d \in 1..Len(m)
    BY <1>2, <1>7, <2>2
  <2>4. PICK c \in Int : c = (i + d) - t
    BY <1>5, <2>1
  <2>5. t < i + d /\ m[c].role = "assistant" /\ t <= m[c].n
    <3> HIDE DEF d
    <3> QED
      BY <1>1, <1>12, <2>1, <2>3, <2>4 DEF Paired
  <2>6. c \in 1..Len(m) /\ c <= i + d
    <3> HIDE DEF d
    <3> QED
      BY <1>1, <1>5, <2>1, <2>3, <2>4, <2>5, SMTT(30)
  <2>7. PICK n \in Nat : n = m[c].n
    <3>1. m[c] \in Message
      BY <1>1, <2>6, ElementOfSeq
    <3> QED
      BY <3>1 DEF Message
  <2>8. c >= s
    <3> SUFFICES ASSUME c < s  PROVE FALSE
      BY <1>3, <2>4
    <3>1. c \notin 1..p
      BY <1>9, <2>5
    <3>2. s # p + 1
      BY <1>2, <2>6, <3>1
    <3>3. s <= i + d /\ s <= Len(m)
      BY <1>1, <1>2, <1>3, <2>2, <2>3
    <3>4. s - c \in 1..n
      <4>1. t <= n /\ t = (i + d) - c /\ i + d \in Int /\ s \in Int /\ t \in Int
        BY <1>3, <2>1, <2>3, <2>4, <2>5, <2>7, SMTT(30)
      <4>2. PICK x \in Int : x = i + d
        BY <4>1
      <4>3. s <= x /\ t = x - c
        BY <3>3, <4>1, <4>2
      <4> HIDE DEF d
      <4>4. s - c \in Int /\ 1 <= s - c
        BY <2>4, <4>1
      <4>5. s - c <= n
        <5>1. t <= n /\ s \in Int /\ t \in Int /\ c \in Int /\ n \in Int
          BY <2>4, <2>7, <4>1
        <5> QED
          BY <4>3, <5>1
      <4> QED
        BY <2>7, <4>4, <4>5
    <3>5. m[c + (s - c)] = Turn("tool", s - c)
      BY <1>1, <2>5, <2>6, <2>7, <3>4 DEF Paired
    <3>6. c + (s - c) = s
      BY <1>3, <2>4
    <3> QED
      BY <1>1, <1>4, <3>2, <3>3, <3>5, <3>6 DEF Turn
  <2>9. i - t \in (p + 1)..Len(e) /\ (i - t) + d = c
    <3>1. s = (p + 1) + d /\ i <= Len(e) /\ Len(e) \in Int
      BY <1>1, <1>2, <1>3, <1>5, <2>2
    <3>2. p \in Int /\ d \in Int /\ i \in Int
      BY <1>2, <1>5
    <3> HIDE DEF p, d
    <3> QED
      BY <2>1, <2>4, <2>8, <3>1, <3>2
  <2>10. e[i - t] = m[c]
    BY <1>7, <2>9
  <2> QED
    BY <1>2, <2>1, <2>5, <2>9, <2>10
<1> QED
  BY <1>5, <1>10, <1>11, <1>12 DEF WellFormed, Paired, e

LEMMA CompactWellFormed ==
  ASSUME NEW m, WellFormed(m)
  PROVE  WellFormed(Compact(m))
<1>1. m \in Seq(Message)
  BY DEF WellFormed
<1> QED
  BY <1>1, CompactEvicts, EvictWellFormed

\* A round under way: the turn with the calls of p, and the first k results.
Open(m, p, k) ==
  LET a == Len(m) - k
  IN  /\ m \in Seq(Message) /\ Headed(m)
      /\ a > Len(Prompt) /\ m[a] = Turn("assistant", Len(p))
      /\ \A j \in 1..k : m[a + j] = Turn("tool", j)
      /\ \A i \in 1..Len(m) : i # a /\ m[i].role = "assistant" =>
           \A j \in 1..m[i].n : i + j <= Len(m) /\ m[i + j] = Turn("tool", j)
      /\ \A i \in 1..Len(m) : m[i].role = "tool" =>
           m[i].n < i /\ m[i - m[i].n].role = "assistant" /\ m[i].n <= m[i - m[i].n].n

LEMMA TurnType ==
  ASSUME NEW role \in Roles, NEW n \in Nat
  PROVE  Turn(role, n) \in Message /\ Turn(role, n).role = role /\ Turn(role, n).n = n
  BY DEF Turn, Message

LEMMA MessageFacts ==
  ASSUME NEW m \in Seq(Message), NEW i \in 1..Len(m)
  PROVE  m[i].role \in Roles /\ m[i].n \in Nat
<1>1. m[i] \in Message
  BY ElementOfSeq
<1> QED
  BY <1>1 DEF Message

\* The prompt heads what extends a headed conversation by no prompt of its own.
LEMMA ExtendHeaded ==
  ASSUME NEW m, Len(m) \in Nat, Headed(m),
         NEW e, Len(e) \in Nat, Len(e) >= Len(m),
         \A i \in 1..Len(m) : e[i] = m[i],
         \A i \in (Len(m) + 1)..Len(e) :
           e[i] # Turn("user", 0) /\ e[i].role # "system"
  PROVE  Headed(e)
<1>1. Len(Prompt) \in Nat /\ Len(Prompt) <= Len(m)
  BY PromptFacts DEF Headed
<1>2. ASSUME NEW i \in 1..Len(Prompt)  PROVE e[i] = Prompt[i]
  <2>1. i \in 1..Len(m)
    BY <1>1
  <2> QED
    BY <2>1 DEF Headed
<1>3. ASSUME NEW i \in (Len(Prompt) + 1)..Len(e)
      PROVE  e[i] # Turn("user", 0) /\ e[i].role # "system"
  <2>1. CASE i \in 1..Len(m)
    <3>1. i \in (Len(Prompt) + 1)..Len(m) /\ e[i] = m[i]
      BY <1>1, <2>1
    <3> QED
      BY <3>1 DEF Headed
  <2>2. CASE i \notin 1..Len(m)
    <3>1. i \in (Len(m) + 1)..Len(e)
      BY <1>1, <2>2
    <3> QED
      BY <3>1
  <2> QED
    BY <2>1, <2>2
<1> QED
  BY <1>1, <1>2, <1>3 DEF Headed

LEMMA PromptWellFormed == WellFormed(Prompt)
<1>1. Prompt \in Seq(Message) /\ Len(Prompt) \in Nat
  BY PromptFacts
<1>2. Headed(Prompt)
  BY <1>1 DEF Headed
<1>3. \A i \in 1..Len(Prompt) : Prompt[i].role \in {"system", "user"}
  BY PromptFacts DEF Turn
<1>4. Paired(Prompt)
  BY <1>3 DEF Paired
<1> QED
  BY <1>1, <1>2, <1>4 DEF WellFormed

LEMMA AppendFacts ==
  ASSUME NEW m \in Seq(Message), NEW x \in Message
  PROVE  /\ Append(m, x) \in Seq(Message) /\ Len(Append(m, x)) = Len(m) + 1
         /\ \A i \in 1..Len(m) : Append(m, x)[i] = m[i]
         /\ Append(m, x)[Len(m) + 1] = x
  OBVIOUS

\* A turn that neither calls a tool nor is the objective may follow anything.
LEMMA AppendWellFormed ==
  ASSUME NEW m, WellFormed(m), NEW x \in {Turn("assistant", 0), Nudge}
  PROVE  WellFormed(Append(m, x))
<1> DEFINE e == Append(m, x)
<1>1. m \in Seq(Message) /\ Headed(m) /\ Paired(m) /\ Len(m) \in Nat
  BY DEF WellFormed
<1>2. /\ x \in Message /\ x # Turn("user", 0)
      /\ x.role # "system" /\ x.role # "tool" /\ (x.role = "assistant" => x.n = 0)
  BY DEF Turn, Nudge, Message, Roles
<1>3. /\ e \in Seq(Message) /\ Len(e) = Len(m) + 1
      /\ \A i \in 1..Len(m) : e[i] = m[i]
      /\ e[Len(m) + 1] = x
  BY <1>1, <1>2, AppendFacts
<1> HIDE DEF e
<1>4. Headed(e)
  <2>1. \A i \in (Len(m) + 1)..Len(e) : e[i] = x
    BY <1>1, <1>3
  <2> QED
    BY <1>1, <1>2, <1>3, <2>1, ExtendHeaded
<1>5. ASSUME NEW i \in 1..Len(e), e[i].role = "assistant", NEW k \in 1..e[i].n
      PROVE  i + k <= Len(e) /\ e[i + k] = Turn("tool", k)
  <2>1. i \in 1..Len(m)
    BY <1>1, <1>2, <1>3, <1>5
  <2>2. m[i].n \in Nat
    BY <1>1, <2>1, MessageFacts
  <2>3. i + k <= Len(m) /\ m[i + k] = Turn("tool", k)
    BY <1>1, <1>3, <1>5, <2>1 DEF Paired
  <2>4. i + k \in 1..Len(m) /\ e[i] = m[i] /\ k \in Nat
    BY <1>1, <1>3, <2>1, <2>2, <2>3
  <2> QED
    BY <1>1, <1>3, <2>3, <2>4
<1>6. ASSUME NEW i \in 1..Len(e), e[i].role = "tool"
      PROVE  /\ e[i].n < i /\ e[i - e[i].n].role = "assistant"
             /\ e[i].n <= e[i - e[i].n].n
  <2>1. i \in 1..Len(m) /\ e[i] = m[i]
    BY <1>1, <1>2, <1>3, <1>6
  <2>2. PICK t \in Nat : t = m[i].n
    BY <1>1, <2>1, MessageFacts
  <2>3. t < i /\ m[i - t].role = "assistant" /\ t <= m[i - t].n
    BY <1>1, <1>6, <2>1, <2>2 DEF Paired
  <2>4. i - t \in 1..Len(m)
    BY <1>1, <2>1, <2>3
  <2> QED
    BY <1>3, <2>1, <2>2, <2>3, <2>4
<1> QED
  BY <1>3, <1>4, <1>5, <1>6 DEF WellFormed, Paired, e

\* A turn with tool calls opens a round.
LEMMA AppendOpens ==
  ASSUME NEW m, WellFormed(m), NEW p, Len(p) \in Nat
  PROVE  Open(Append(m, Turn("assistant", Len(p))), p, 0)
<1> DEFINE x == Turn("assistant", Len(p))
           e == Append(m, x)
<1>1. m \in Seq(Message) /\ Headed(m) /\ Paired(m) /\ Len(m) \in Nat
  BY DEF WellFormed
<1>2. x \in Message /\ x # Turn("user", 0) /\ x.role = "assistant"
  BY DEF Turn, Message, Roles
<1> HIDE DEF x
<1>3. /\ e \in Seq(Message) /\ Len(e) = Len(m) + 1
      /\ \A i \in 1..Len(m) : e[i] = m[i]
      /\ e[Len(m) + 1] = x
  BY <1>1, <1>2, AppendFacts
<1> HIDE DEF e
<1>4. Len(Prompt) \in 1..Len(m)
  BY <1>1, PromptFacts DEF Headed
<1>5. Headed(e)
  <2>1. \A i \in (Len(m) + 1)..Len(e) : e[i] = x
    BY <1>1, <1>3
  <2>2. x.role # "system"
    BY <1>2
  <2> QED
    BY <1>1, <1>2, <1>3, <2>1, <2>2, ExtendHeaded
<1>6. ASSUME NEW i \in 1..Len(e), i # Len(e), e[i].role = "assistant",
             NEW k \in 1..e[i].n
      PROVE  i + k <= Len(e) /\ e[i + k] = Turn("tool", k)
  <2>1. i \in 1..Len(m)
    BY <1>1, <1>3, <1>6
  <2>2. m[i].n \in Nat
    BY <1>1, <2>1, MessageFacts
  <2>3. i + k <= Len(m) /\ m[i + k] = Turn("tool", k)
    BY <1>1, <1>3, <1>6, <2>1 DEF Paired
  <2>4. i + k \in 1..Len(m) /\ e[i] = m[i] /\ k \in Nat
    BY <1>1, <1>3, <2>1, <2>2, <2>3
  <2> QED
    BY <1>1, <1>3, <2>3, <2>4
<1>7. ASSUME NEW i \in 1..Len(e), e[i].role = "tool"
      PROVE  /\ e[i].n < i /\ e[i - e[i].n].role = "assistant"
             /\ e[i].n <= e[i - e[i].n].n
  <2>1. i \in 1..Len(m) /\ e[i] = m[i]
    BY <1>1, <1>2, <1>3, <1>7
  <2>2. PICK t \in Nat : t = m[i].n
    BY <1>1, <2>1, MessageFacts
  <2>3. t < i /\ m[i - t].role = "assistant" /\ t <= m[i - t].n
    BY <1>1, <1>7, <2>1, <2>2 DEF Paired
  <2>4. i - t \in 1..Len(m)
    BY <1>1, <2>1, <2>3
  <2> QED
    BY <1>3, <2>1, <2>2, <2>3, <2>4
<1>8. Len(e) - 0 = Len(e) /\ Len(e) > Len(Prompt) /\ e[Len(e)] = x
  BY <1>1, <1>3, <1>4
<1>9. Open(e, p, 0)
  <2>1. e[Len(e)] = Turn("assistant", Len(p))
    BY <1>8 DEF x
  <2> QED
    BY <1>3, <1>5, <1>6, <1>7, <1>8, <2>1 DEF Open
<1> QED
  BY <1>9 DEF e, x

\* A round whose calls are all answered leaves the conversation well formed.
LEMMA OpenCloses ==
  ASSUME NEW m, NEW p, Len(p) \in Nat, Open(m, p, Len(p))
  PROVE  WellFormed(m)
<1> DEFINE a == Len(m) - Len(p)
<1>1. m \in Seq(Message) /\ Headed(m) /\ Len(m) \in Nat
  BY DEF Open
<1>2. /\ a > Len(Prompt) /\ m[a] = Turn("assistant", Len(p))
      /\ \A j \in 1..Len(p) : m[a + j] = Turn("tool", j)
  BY DEF Open
<1>3. ASSUME NEW k \in 1..Len(p)
      PROVE  a + k <= Len(m) /\ m[a + k] = Turn("tool", k)
  BY <1>1, <1>2
<1>4. m[a].n = Len(p)
  BY <1>2 DEF Turn
<1>5. Paired(m)
  <2> HIDE DEF a
  <2>1. \A i \in 1..Len(m) : m[i].role = "assistant" =>
          \A k \in 1..m[i].n : i + k <= Len(m) /\ m[i + k] = Turn("tool", k)
    BY <1>3, <1>4 DEF Open, a
  <2>2. \A i \in 1..Len(m) : m[i].role = "tool" =>
          m[i].n < i /\ m[i - m[i].n].role = "assistant" /\ m[i].n <= m[i - m[i].n].n
    BY DEF Open
  <2> QED
    BY <2>1, <2>2 DEF Paired
<1> QED
  BY <1>1, <1>5 DEF WellFormed

LEMMA ResultsFacts ==
  ASSUME NEW k \in Nat, NEW last \in Nat, k <= last
  PROVE  LET r == Results(k + 1, last)
         IN  /\ r \in Seq(Message) /\ Len(r) = last - k
             /\ \A i \in 1..(last - k) : r[i] = Turn("tool", k + i)
<1> DEFINE r == Results(k + 1, last)
<1>1. last - (k + 1) + 1 = last - k /\ last - k \in Nat
  OBVIOUS
<1>2. r = [i \in 1..(last - k) |-> Turn("tool", (k + 1) + i - 1)]
  BY <1>1 DEF Results
<1>3. \A i \in 1..(last - k) : (k + 1) + i - 1 = k + i /\ k + i \in Nat
  OBVIOUS
<1>4. \A i \in 1..(last - k) : Turn("tool", k + i) \in Message
  BY <1>3, TurnType DEF Roles
<1>5. \A i \in 1..(last - k) : r[i] = Turn("tool", k + i)
  BY <1>2, <1>3
<1>6. r \in [1..(last - k) -> Message]
  BY <1>2, <1>3, <1>4
<1>7. r \in Seq(Message) /\ Len(r) = last - k
  <2> HIDE DEF r
  <2> QED
    BY <1>1, <1>6
<1> QED
  BY <1>5, <1>7

\* The results of the next batch stand where their calls want them.
LEMMA ResultsKeepOpen ==
  ASSUME NEW m, NEW p, Len(p) \in Nat, NEW k \in Nat, Open(m, p, k),
         NEW last \in k..Len(p)
  PROVE  Open(m \o Results(k + 1, last), p, last)
<1> DEFINE r == Results(k + 1, last)
           e == m \o r
           a == Len(m) - k
<1>1. m \in Seq(Message) /\ Headed(m) /\ Len(m) \in Nat
  BY DEF Open
<1>2. /\ a > Len(Prompt) /\ m[a] = Turn("assistant", Len(p))
      /\ \A j \in 1..k : m[a + j] = Turn("tool", j)
  BY DEF Open
<1>3. /\ \A i \in 1..Len(m) : i # a /\ m[i].role = "assistant" =>
           \A j \in 1..m[i].n : i + j <= Len(m) /\ m[i + j] = Turn("tool", j)
      /\ \A i \in 1..Len(m) : m[i].role = "tool" =>
           m[i].n < i /\ m[i - m[i].n].role = "assistant" /\ m[i].n <= m[i - m[i].n].n
  BY DEF Open
<1>4. /\ r \in Seq(Message) /\ Len(r) = last - k
      /\ \A i \in 1..(last - k) : r[i] = Turn("tool", k + i)
  BY ResultsFacts
<1>5. last \in Nat /\ k <= last /\ last <= Len(p) /\ Len(Prompt) \in {1, 2}
  BY PromptFacts
<1> HIDE DEF r
<1>6. /\ e \in Seq(Message) /\ Len(e) = Len(m) + Len(r)
      /\ \A i \in 1..(Len(m) + Len(r)) :
           e[i] = IF i <= Len(m) THEN m[i] ELSE r[i - Len(m)]
  BY <1>1, <1>4, ConcatProperties
<1> HIDE DEF e
<1>7. Len(e) = Len(m) + (last - k) /\ Len(e) - last = a /\ a \in 1..Len(m)
  BY <1>1, <1>2, <1>4, <1>5, <1>6
<1>8. \A i \in 1..Len(m) : e[i] = m[i]
  <2> SUFFICES ASSUME NEW i \in 1..Len(m)  PROVE e[i] = m[i]
    OBVIOUS
  <2>1. i \in 1..(Len(m) + Len(r)) /\ i <= Len(m)
    BY <1>1, <1>4, <1>5
  <2> QED
    BY <1>6, <2>1
<1>9. ASSUME NEW j \in (k + 1)..last
      PROVE  a + j \in (Len(m) + 1)..Len(e) /\ e[a + j] = Turn("tool", j)
  <2>1. j - k \in 1..(last - k) /\ (a + j) - Len(m) = j - k /\ k + (j - k) = j
    BY <1>1, <1>5
  <2>2. a + j \in (Len(m) + 1)..Len(e)
    BY <1>1, <1>5, <1>7
  <2>3. e[a + j] = r[j - k]
    <3>1. a + j \in 1..(Len(m) + Len(r)) /\ ~(a + j <= Len(m))
      BY <1>1, <1>6, <2>2
    <3> QED
      BY <1>6, <2>1, <3>1
  <2> QED
    BY <1>4, <2>1, <2>2, <2>3
<1>10. ASSUME NEW i \in (Len(m) + 1)..Len(e)
       PROVE  /\ i - a \in (k + 1)..last
              /\ e[i].role = "tool" /\ e[i].n = i - a /\ e[i] # Turn("user", 0)
  <2>1. i - a \in (k + 1)..last /\ a + (i - a) = i
    BY <1>1, <1>5, <1>7
  <2>2. e[i] = Turn("tool", i - a)
    BY <1>9, <2>1
  <2> QED
    BY <2>1, <2>2 DEF Turn
<1> HIDE DEF a
<1>11. Headed(e)
  <2>1. \A i \in (Len(m) + 1)..Len(e) :
          e[i] # Turn("user", 0) /\ e[i].role # "system"
    BY <1>10
  <2>2. Len(e) \in Nat /\ Len(e) >= Len(m)
    BY <1>1, <1>5, <1>7
  <2> QED
    BY <1>1, <1>8, <2>1, <2>2, ExtendHeaded
<1>12. \A j \in 1..last : e[a + j] = Turn("tool", j)
  <2> SUFFICES ASSUME NEW j \in 1..last  PROVE e[a + j] = Turn("tool", j)
    OBVIOUS
  <2>1. CASE j <= k
    <3>1. a + j \in 1..Len(m) /\ j \in 1..k
      BY <1>1, <1>7, <2>1 DEF a
    <3> QED
      BY <1>2, <1>8, <3>1
  <2>2. CASE j > k
    BY <1>9, <1>5, <2>2
  <2> QED
    BY <1>5, <2>1, <2>2
<1>13. e[a] = Turn("assistant", Len(p)) /\ e[a].role = "assistant" /\ e[a].n = Len(p)
  BY <1>2, <1>7, <1>8 DEF Turn
<1>14. ASSUME NEW i \in 1..Len(e), i # a, e[i].role = "assistant",
              NEW j \in 1..e[i].n
       PROVE  i + j <= Len(e) /\ e[i + j] = Turn("tool", j)
  <2>1. i \in 1..Len(m)
    <3> SUFFICES ASSUME i \in (Len(m) + 1)..Len(e)  PROVE FALSE
      BY <1>1, <1>7
    <3> QED
      BY <1>10, <1>14
  <2>2. e[i] = m[i] /\ m[i].n \in Nat /\ j \in Nat
    BY <1>1, <1>8, <2>1, MessageFacts
  <2>3. i + j <= Len(m) /\ m[i + j] = Turn("tool", j)
    BY <1>3, <1>14, <2>1, <2>2
  <2>4. i + j \in 1..Len(m) /\ i + j <= Len(e)
    BY <1>1, <1>5, <1>7, <2>1, <2>2, <2>3
  <2> QED
    BY <1>8, <2>3, <2>4
<1>15. ASSUME NEW i \in 1..Len(e), e[i].role = "tool"
       PROVE  /\ e[i].n < i /\ e[i - e[i].n].role = "assistant"
              /\ e[i].n <= e[i - e[i].n].n
  <2>1. CASE i \in 1..Len(m)
    <3>1. e[i] = m[i]
      BY <1>8, <2>1
    <3>2. PICK t \in Nat : t = m[i].n
      BY <1>1, <2>1, MessageFacts
    <3>3. t < i /\ m[i - t].role = "assistant" /\ t <= m[i - t].n
      BY <1>3, <1>15, <2>1, <3>1, <3>2
    <3>4. i - t \in 1..Len(m)
      BY <1>1, <2>1, <3>3
    <3> QED
      BY <1>8, <3>1, <3>2, <3>3, <3>4
  <2>2. CASE i \in (Len(m) + 1)..Len(e)
    <3>1. i - a \in (k + 1)..last /\ e[i].n = i - a
      BY <1>10, <2>2
    <3>2. i - (i - a) = a /\ i - a < i /\ i - a <= Len(p)
      BY <1>5, <1>7, <2>2, <3>1
    <3> QED
      BY <1>13, <3>1, <3>2
  <2> QED
    BY <1>1, <1>7, <2>1, <2>2
<1>16. a > Len(Prompt)
  BY <1>2 DEF a
<1>17. Open(e, p, last)
  BY <1>6, <1>7, <1>11, <1>12, <1>13, <1>14, <1>15, <1>16 DEF Open
<1> QED
  BY <1>17 DEF e, r

-----------------------------------------------------------------------------
(* The inductive invariant *)

\* What is sent, carried on or read back is well formed; a round under way is open.
Conversations ==
  /\ checkpoint = <<>> \/ WellFormed(checkpoint)
  /\ pc \in {"loop", "call"} => WellFormed(messages)
  /\ pc = "tools" => Open(messages, plan, answered)
  /\ pc = "returned" /\ outcome \in {"provider", "schema", "capability"} =>
       WellFormed(messages)

\* A call is only made with a round, and tokens, left for what it may bring.
Counts ==
  /\ BudgetsHold
  /\ budget.rounds > 0 /\ pc \in {"call", "tools"} => rounds < budget.rounds
  /\ budget.tokens # NoLimit /\ pc = "call" => Available(messages) > 0

Repairs == IF repaired THEN 1 ELSE 0

\* Every call is a round, a truncated turn since the last round, or the repair.
Fused ==
  /\ FuseBoundsCalls
  /\ pc = "loop" => calls <= MaxTruncations * rounds + truncated + Repairs
  /\ pc = "call" => calls <= MaxTruncations * rounds + truncated + Repairs + 1
  /\ pc \in {"loop", "call"} => truncated < MaxTruncations
  /\ pc = "tools" => truncated = 0 /\ calls <= MaxTruncations * (rounds + 1) + Repairs

\* The next batch opens where one may.
Batched == pc = "tools" /\ answered < Len(plan) => Starts(plan, answered + 1)

IInv == TypeOK /\ Conversations /\ Counts /\ Fused /\ Batched

-----------------------------------------------------------------------------
(* Types *)

\* The limits a contract may set, and where the constants range.
LEMMA Constants ==
  /\ \A b \in Budgets : /\ b.calls \in Nat /\ b.rounds \in Nat
                        /\ b.tokens \in Nat \cup {NoLimit} /\ NoLimit \notin Nat
                        /\ b.wall \in BOOLEAN /\ b.schema \in BOOLEAN
  /\ \A u \in Usages : u.over \in Nat /\ u.out \in Nat
  /\ \E u \in Usages : TRUE
  /\ \A p \in ToolPlans \cup {<<>>} : p \in Seq({"read", "write"}) /\ Len(p) \in Nat
  /\ MaxOutput \in Nat \ {0} /\ MaxTruncations \in Nat \ {0} /\ MaxAttempts \in Nat
<1>1. \A p \in ToolPlans \cup {<<>>} : p \in Seq({"read", "write"})
  <2>1. <<>> \in Seq({"read", "write"})
    OBVIOUS
  <2>2. ToolPlans \subseteq Seq({"read", "write"}) \ {<<>>}
    BY WorkerAssumption DEF WorkerAssumption
  <2> QED
    BY <2>1, <2>2
<1>2. \A p \in Seq({"read", "write"}) : Len(p) \in Nat
  OBVIOUS
<1> QED
  BY <1>1, <1>2, WorkerAssumption DEF WorkerAssumption, NoLimit

\* A batch ends within the plan, before the next call that may open one.
LEMMA BatchEndFacts ==
  ASSUME NEW p, Len(p) \in Nat, NEW k \in Nat, k < Len(p)
  PROVE  /\ BatchEnd(p, k) \in (k + 1)..Len(p)
         /\ BatchEnd(p, k) < Len(p) => Starts(p, BatchEnd(p, k) + 1)
         /\ \A i \in (k + 2)..BatchEnd(p, k) : ~Starts(p, i)
<1> DEFINE ends == {j \in (k + 1)..Len(p) : j = Len(p) \/ Starts(p, j + 1)}
<1>1. ends \in SUBSET Nat /\ Len(p) \in ends
  OBVIOUS
<1>2. Min(ends) \in ends /\ \A j \in ends : Min(ends) <= j
  <2> HIDE DEF ends
  <2> QED
    BY <1>1, MinFacts
<1>3. BatchEnd(p, k) = Min(ends)
  BY DEF BatchEnd
<1>4. ASSUME NEW i \in (k + 2)..Min(ends), Starts(p, i)  PROVE FALSE
  <2>1. Min(ends) \in (k + 1)..Len(p)
    BY <1>2
  <2>2. i - 1 \in (k + 1)..Len(p) /\ (i - 1) + 1 = i /\ i - 1 < Min(ends)
    <3> HIDE DEF ends
    <3> QED
      BY <1>4, <2>1
  <2>3. i - 1 \in ends
    BY <1>4, <2>2
  <2> HIDE DEF ends
  <2> QED
    BY <1>2, <2>1, <2>2, <2>3
<1> QED
  BY <1>2, <1>3, <1>4

\* What a call may cost: the estimate, what the provider counts over it, and
\* output for which there was room.
LEMMA CostFacts ==
  ASSUME TypeOK, Available(messages) > 0, Available(messages) \in Int, NEW u \in Usages
  PROVE  /\ Cost(u) \in Nat
         /\ Cost(u) <= Estimate(messages) + u.over + Available(messages)
<1> DEFINE room == {u.out, Available(messages), MaxOutput}
<1>1. room \in SUBSET Nat /\ Available(messages) \in room
  BY Constants
<1>2. Min(room) \in room /\ \A x \in room : Min(room) <= x
  <2> HIDE DEF room
  <2> QED
    BY <1>1, MinFacts
<1>3. Min(room) \in Nat /\ Min(room) <= Available(messages)
  BY <1>1, <1>2
<1>4. Len(messages) \in Nat
  BY DEF TypeOK
<1>5. Estimate(messages) \in Nat /\ u.over \in Nat
  BY <1>4, EstimateType, Constants
<1>6. Cost(u) = Estimate(messages) + u.over + Min(room)
  BY DEF Cost
<1> HIDE DEF room
<1> QED
  BY <1>3, <1>5, <1>6

LEMMA AvailableType ==
  ASSUME NEW m, Len(m) \in Nat, TypeOK  PROVE Available(m) \in Int
<1>1. budget \in Budgets /\ spent \in Nat
  BY DEF TypeOK
<1> QED
  BY <1>1, Constants, EstimateType DEF Available

LEMMA AnswerFacts ==
  ASSUME TypeOK, Counts, NEW u \in Usages, Answer(u)
  PROVE  /\ spent' \in Nat
         /\ budget.tokens # NoLimit => spent' <= budget.tokens + u.over
<1>1. pc = "call" /\ spent \in Nat /\ budget \in Budgets /\ Len(messages) \in Nat
  BY DEF Answer, TypeOK
<1>2. CASE budget.tokens = NoLimit
  BY <1>1, <1>2 DEF Answer
<1>3. CASE budget.tokens # NoLimit
  <2>1. Available(messages) > 0 /\ Available(messages) \in Int
    BY <1>1, <1>3, AvailableType DEF Counts
  <2>2. Cost(u) \in Nat /\ Cost(u) <= Estimate(messages) + u.over + Available(messages)
    BY <2>1, CostFacts
  <2>3. Available(messages) = budget.tokens - spent - Estimate(messages)
    BY <1>3 DEF Available
  <2>4. spent' = spent + Cost(u)
    BY <1>3 DEF Answer
  <2>5. Estimate(messages) \in Nat /\ u.over \in Nat /\ budget.tokens \in Nat
    BY <1>1, <1>3, EstimateType, Constants
  <2> QED
    BY <1>1, <2>2, <2>3, <2>4, <2>5, SMTT(30)
<1> QED
  BY <1>2, <1>3

\* What a response may add to the conversation.
LEMMA WithFinalType ==
  ASSUME messages \in Seq(Message), NEW text
  PROVE  WithFinal(text) \in Seq(Message)
<1>1. Turn("assistant", 0) \in Message
  BY DEF Turn, Message, Roles
<1> QED
  BY <1>1 DEF WithFinal

LEMMA TypeStep ==
  ASSUME TypeOK, Counts, Fused, [Next]_vars
  PROVE  TypeOK'
<1> USE DEF TypeOK
<1>1. /\ Prompt \in Seq(Message) /\ Turn("assistant", 0) \in Message /\ Nudge \in Message
      /\ Compact(messages) \in Seq(Message) /\ Len(messages) \in Nat
  BY PromptFacts, CompactType DEF Turn, Nudge, Message, Roles
<1>2. Len(plan) \in Nat /\ 0 \in 0..MaxTruncations /\ Len(<<>>) = 0 /\ <<>> \in Seq(Message)
  BY Constants
<1>3. ASSUME NEW c \in Seq(Message), Begin(c)  PROVE TypeOK'
  <2>1. attempts' \in 0..MaxAttempts
    BY <1>3, Constants DEF Begin
  <2>2. messages' \in Seq(Message) /\ checkpoint' \in Seq(Message)
    BY <1>1, <1>3 DEF Begin
  <2>3. answered' \in 0..Len(plan') /\ truncated' \in 0..MaxTruncations
    BY <1>2, <1>3 DEF Begin
  <2> QED
    BY <1>3, <2>1, <2>2, <2>3 DEF Begin
<1>4. ASSUME NEW kind \in Failures \cup {"ok"}, NEW c \in Seq(Message), Return(kind, c), Keep
      PROVE  TypeOK'
  BY <1>4 DEF Return, Release, Keep, tally
<1>5. CASE FirstAttempt
  BY <1>2, <1>3, <1>5 DEF FirstAttempt
<1>6. CASE Retry
  <2>1. Carried \in Seq(Message)
    BY <1>2 DEF Carried
  <2> QED
    BY <1>3, <1>6, <2>1 DEF Retry
<1>7. CASE Finish
  BY <1>2, <1>7 DEF Finish, tally
<1>8. CASE Restart
  <2>1. messages' \in Seq(Message) /\ checkpoint' \in Seq(Message)
    BY <1>2, <1>8 DEF Restart
  <2>2. answered' \in 0..Len(plan') /\ truncated' \in 0..MaxTruncations
    BY <1>2, <1>8 DEF Restart
  <2> QED
    BY <1>8, <2>1, <2>2 DEF Restart
<1>9. CASE NoProfile \/ OutOfWallTime \/ OutOfBudget \/ OutOfTokens
  BY <1>1, <1>2, <1>4, <1>9
    DEF NoProfile, OutOfWallTime, OutOfBudget, OutOfTokens, Failures
<1>10. CASE StartCall
  BY <1>1, <1>10 DEF StartCall
<1>11. CASE CallTimesOut \/ CallFails \/ BatchTimesOut
  BY <1>4, <1>11 DEF CallTimesOut, CallFails, BatchTimesOut, Failures, ProviderKinds
<1>12. CASE Respond
  <2>1. PICK u \in Usages :
          \/ \E text \in {"invalid", "empty"} : Repair(u, text)
          \/ \E text \in {"null", "invalid", "empty"} : SchemaFailure(u, text)
          \/ \E text \in {"valid", "empty"} : Final(u, text)
          \/ \E text \in {"valid", "empty"} : Truncated(u, text)
          \/ \E p \in ToolPlans : Calls(u, p)
    BY <1>12 DEF Respond
  <2>2. Answer(u) /\ spent' \in Nat /\ pc = "call"
    <3>1. Answer(u)
      BY <2>1 DEF Repair, SchemaFailure, Final, Truncated, Calls
    <3> QED
      BY <3>1, AnswerFacts DEF Answer
  <2>3. ASSUME NEW text, NEW kind \in Failures \cup {"ok"}, Return(kind, WithFinal(text)),
               UNCHANGED <<plan, answered, calls, rounds, repaired>>,
               truncated' \in 0..MaxTruncations
        PROVE  TypeOK'
    <3>1. WithFinal(text) \in Seq(Message)
      BY WithFinalType
    <3> QED
      BY <2>2, <2>3, <3>1 DEF Return, Release
  <2>4. ASSUME NEW text, Repair(u, text)  PROVE TypeOK'
    <3>1. Append(Append(messages, Turn("assistant", 0)), Nudge) \in Seq(Message)
      BY <1>1
    <3> QED
      BY <2>2, <2>4, <3>1 DEF Repair
  <2>5. ASSUME NEW text, SchemaFailure(u, text)  PROVE TypeOK'
    BY <2>3, <2>5 DEF SchemaFailure, Failures
  <2>6. ASSUME NEW text, Final(u, text)  PROVE TypeOK'
    BY <2>3, <2>6 DEF Final, Failures
  <2>7. ASSUME NEW text, Truncated(u, text)  PROVE TypeOK'
    <3>1. truncated' \in 0..MaxTruncations
      BY <2>2, <2>7, Constants DEF Truncated, Fuse, Fused
    <3>2. Append(WithFinal(text), Nudge) \in Seq(Message)
      BY <1>1, WithFinalType
    <3>3. CASE Return("provider", WithFinal(text))
      BY <2>3, <2>7, <3>1, <3>3 DEF Truncated, Failures
    <3>4. CASE /\ messages' = Append(WithFinal(text), Nudge) /\ pc' = "loop"
               /\ UNCHANGED <<budget, outcome, checkpoint, lease, attempts>>
      BY <2>2, <2>7, <3>1, <3>2, <3>4 DEF Truncated
    <3> QED
      BY <2>7, <3>3, <3>4 DEF Truncated
  <2>8. ASSUME NEW p \in ToolPlans, Calls(u, p)  PROVE TypeOK'
    <3>1. Len(p) \in Nat
      BY Constants
    <3>2. Turn("assistant", Len(p)) \in Message
      BY <3>1 DEF Turn, Message, Roles
    <3> QED
      BY <1>2, <2>2, <2>8, <3>1, <3>2 DEF Calls
  <2> QED
    BY <2>1, <2>4, <2>5, <2>6, <2>7, <2>8
<1>13. CASE RunBatch
  <2> DEFINE last == BatchEnd(plan, answered)
  <2>1. last \in (answered + 1)..Len(plan) /\ answered \in Nat
    BY <1>2, <1>13, BatchEndFacts DEF RunBatch
  <2>2. last \in Nat /\ answered <= last /\ last \in 0..Len(plan)
    BY <1>2, <2>1
  <2>3. messages \o Results(answered + 1, last) \in Seq(Message)
    <3> HIDE DEF last
    <3>1. Results(answered + 1, last) \in Seq(Message)
      BY <2>1, <2>2, ResultsFacts
    <3> QED
      BY <3>1
  <2>4. /\ messages' = messages \o Results(answered + 1, last) /\ answered' = last
        /\ lease' \in BOOLEAN
        /\ UNCHANGED <<budget, pc, outcome, checkpoint, plan, tally, attempts>>
    BY <1>13 DEF RunBatch, Acquire
  <2> HIDE DEF last
  <2> QED
    BY <2>2, <2>3, <2>4 DEF tally
<1>14. CASE EndRound
  BY <1>2, <1>14 DEF EndRound, Checkpoint
<1>15. CASE Sibling
  BY <1>15 DEF Sibling, tally
<1>16. CASE UNCHANGED vars
  BY <1>16 DEF vars, tally
<1> QED
  BY <1>5, <1>6, <1>7, <1>8, <1>9, <1>10, <1>11, <1>12, <1>13, <1>14, <1>15, <1>16
    DEF Next, Attempt

-----------------------------------------------------------------------------
(* Budgets *)

LEMMA CountsStep ==
  ASSUME TypeOK, Counts, [Next]_vars
  PROVE  Counts'
<1> USE DEF Counts, BudgetsHold
<1>1. /\ budget \in Budgets /\ calls \in Nat /\ rounds \in Nat /\ spent \in Nat
      /\ budget.calls \in Nat /\ budget.rounds \in Nat
      /\ budget.tokens \in Nat \cup {NoLimit}
  BY Constants DEF TypeOK
<1>2. ASSUME UNCHANGED budget, calls' = 0, rounds' = 0, spent' = 0,
             pc' \in {"idle", "loop"}
      PROVE  Counts'
  <2>1. ASSUME budget.tokens # NoLimit
        PROVE  \E u \in Usages : 0 <= budget.tokens + u.over
    BY <1>1, <2>1, Constants
  <2> QED
    BY <1>1, <1>2, <2>1
<1>3. ASSUME UNCHANGED <<budget, calls, rounds, spent>>,
             pc' \in {"loop", "returned", "over"} \/ UNCHANGED <<pc, messages>>
                \/ (pc = "tools" /\ pc' = "tools")
      PROVE  Counts'
  BY <1>1, <1>3 DEF Available
<1>4. CASE FirstAttempt \/ Retry \/ Restart
  BY <1>2, <1>4 DEF FirstAttempt, Retry, Restart, Begin
<1>5. CASE Finish \/ Sibling
  BY <1>3, <1>5 DEF Finish, Sibling, tally
<1>6. CASE NoProfile \/ OutOfWallTime \/ OutOfBudget \/ OutOfTokens
  BY <1>3, <1>6
    DEF NoProfile, OutOfWallTime, OutOfBudget, OutOfTokens, Return, Keep, tally
<1>7. CASE StartCall
  <2>1. Available(messages)' > 0 /\ calls' = calls + 1 /\ pc' = "call"
        /\ UNCHANGED <<budget, rounds, spent>>
    BY <1>7 DEF StartCall, Available
  <2>2. /\ budget.calls > 0 => calls < budget.calls
        /\ budget.rounds > 0 => rounds < budget.rounds
    BY <1>1, <1>7 DEF StartCall, Exhausted, Reached
  <2> QED
    BY <1>1, <2>1, <2>2
<1>8. CASE CallTimesOut \/ CallFails \/ BatchTimesOut
  BY <1>3, <1>8 DEF CallTimesOut, CallFails, BatchTimesOut, Return, Keep, tally
<1>9. CASE Respond
  <2>1. PICK u \in Usages : Answer(u) /\ UNCHANGED <<budget, calls, rounds>>
                             /\ pc' \in {"loop", "returned", "tools"}
    BY <1>9 DEF Respond, Repair, SchemaFailure, Final, Truncated, Calls, Return
  <2>2. spent' \in Nat /\ (budget.tokens # NoLimit => spent' <= budget.tokens + u.over)
    BY <2>1, AnswerFacts
  <2>3. pc = "call"
    BY <2>1 DEF Answer
  <2> QED
    BY <1>1, <2>1, <2>2, <2>3
<1>10. CASE RunBatch
  BY <1>3, <1>10 DEF RunBatch, tally
<1>11. CASE EndRound
  <2>1. /\ pc = "tools" /\ pc' = "loop" /\ rounds' = rounds + 1
        /\ UNCHANGED <<budget, calls, spent>>
    BY <1>11 DEF EndRound
  <2> QED
    BY <1>1, <2>1
<1>12. CASE UNCHANGED vars
  BY <1>3, <1>12 DEF vars, tally
<1> QED
  BY <1>4, <1>5, <1>6, <1>7, <1>8, <1>9, <1>10, <1>11, <1>12 DEF Next, Attempt

-----------------------------------------------------------------------------
(* The fuse *)

LEMMA FusedStep ==
  ASSUME TypeOK, Fused, [Next]_vars
  PROVE  Fused'
<1> DEFINE most == MaxTruncations * rounds
<1>1. /\ calls \in Nat /\ rounds \in Nat /\ truncated \in 0..MaxTruncations
      /\ MaxTruncations \in Nat \ {0} /\ repaired \in BOOLEAN /\ Repairs \in {0, 1}
  BY Constants DEF TypeOK, Repairs
<1>2. most \in Nat /\ MaxTruncations * (rounds + 1) = most + MaxTruncations
  BY <1>1
<1>3. ASSUME UNCHANGED <<calls, rounds, repaired>>,
             \/ pc' \in {"returned", "over"}
             \/ UNCHANGED <<pc, truncated>>
      PROVE  Fused'
  BY <1>3 DEF Fused, FuseBoundsCalls, Repairs
<1>4. CASE FirstAttempt \/ Retry \/ Restart
  <2>1. /\ calls' = 0 /\ rounds' = 0 /\ truncated' = 0 /\ repaired' = FALSE
        /\ pc' \in {"idle", "loop"}
    BY <1>4 DEF FirstAttempt, Retry, Restart, Begin
  <2> QED
    BY <1>1, <2>1 DEF Fused, FuseBoundsCalls, Repairs
<1>5. CASE Finish \/ Sibling
  BY <1>3, <1>5 DEF Finish, Sibling, tally
<1>6. CASE NoProfile \/ OutOfWallTime \/ OutOfBudget \/ OutOfTokens
  BY <1>3, <1>6
    DEF NoProfile, OutOfWallTime, OutOfBudget, OutOfTokens, Return, Keep, tally
<1>7. CASE StartCall
  <2>1. /\ pc = "loop" /\ pc' = "call" /\ calls' = calls + 1
        /\ UNCHANGED <<rounds, truncated, repaired>>
    BY <1>7 DEF StartCall
  <2>2. calls <= most + truncated + Repairs /\ truncated < MaxTruncations
    BY <2>1 DEF Fused
  <2>3. Repairs' = Repairs /\ most' = most
    BY <2>1 DEF Repairs
  <2>4. calls' <= most + truncated + Repairs + 1
        /\ calls' <= (most + MaxTruncations) + 1
    <3> HIDE DEF most
    <3> QED
      BY <1>1, <1>2, <2>1, <2>2
  <2> QED
    BY <1>2, <2>1, <2>2, <2>3, <2>4 DEF Fused, FuseBoundsCalls
<1>8. CASE CallTimesOut \/ CallFails \/ BatchTimesOut
  BY <1>3, <1>8 DEF CallTimesOut, CallFails, BatchTimesOut, Return, Keep, tally
<1>9. CASE Respond
  <2>1. PICK u \in Usages :
          \/ \E text \in {"invalid", "empty"} : Repair(u, text)
          \/ \E text \in {"null", "invalid", "empty"} : SchemaFailure(u, text)
          \/ \E text \in {"valid", "empty"} : Final(u, text)
          \/ \E text \in {"valid", "empty"} : Truncated(u, text)
          \/ \E p \in ToolPlans : Calls(u, p)
    BY <1>9 DEF Respond
  <2>2. pc = "call"
    BY <2>1 DEF Repair, SchemaFailure, Final, Truncated, Calls, Answer
  <2>3. /\ calls <= most + truncated + Repairs + 1 /\ truncated < MaxTruncations
        /\ calls <= (most + MaxTruncations) + 1
    BY <1>2, <2>2 DEF Fused, FuseBoundsCalls
  <2>4. ASSUME NEW text, Repair(u, text)  PROVE Fused'
    <3>1. /\ pc' = "loop" /\ ~repaired /\ repaired' /\ Repairs = 0 /\ Repairs' = 1
          /\ UNCHANGED <<calls, rounds, truncated>>
      BY <2>4 DEF Repair, Repairs
    <3>2. calls <= most + truncated + 1
      <4> HIDE DEF most
      <4> QED
        BY <1>1, <1>2, <2>3, <3>1
    <3> QED
      BY <1>2, <2>3, <3>1, <3>2 DEF Fused, FuseBoundsCalls
  <2>5. ASSUME NEW text, SchemaFailure(u, text) \/ Final(u, text)  PROVE Fused'
    BY <1>3, <2>5 DEF SchemaFailure, Final, Return
  <2>6. ASSUME NEW text, Truncated(u, text)  PROVE Fused'
    <3>1. /\ truncated' = truncated + 1 /\ UNCHANGED <<calls, rounds, repaired>>
          /\ Repairs' = Repairs
      BY <2>6 DEF Truncated, Fuse, Repairs
    <3>2. CASE pc' = "returned"
      BY <1>3, <3>1, <3>2
    <3>3. CASE pc' = "loop" /\ ~(truncated' >= MaxTruncations)
      <4>1. calls <= most + truncated' + Repairs /\ truncated' < MaxTruncations
        <5> HIDE DEF most
        <5> QED
          BY <1>1, <1>2, <2>3, <3>1, <3>3
      <4> QED
        BY <1>2, <2>3, <3>1, <3>3, <4>1 DEF Fused, FuseBoundsCalls
    <3> QED
      BY <2>6, <3>2, <3>3 DEF Truncated, Return
  <2>7. ASSUME NEW p, Calls(u, p)  PROVE Fused'
    <3>1. /\ truncated' = 0 /\ pc' = "tools" /\ UNCHANGED <<calls, rounds, repaired>>
          /\ Repairs' = Repairs
      BY <2>7 DEF Calls, Repairs
    <3>2. calls <= (most + MaxTruncations) + Repairs
      <4> HIDE DEF most
      <4> QED
        BY <1>1, <1>2, <2>3
    <3> QED
      BY <1>2, <2>3, <3>1, <3>2 DEF Fused, FuseBoundsCalls
  <2> QED
    BY <2>1, <2>4, <2>5, <2>6, <2>7
<1>10. CASE RunBatch
  BY <1>3, <1>10 DEF RunBatch, tally
<1>11. CASE EndRound
  <2>1. /\ pc = "tools" /\ pc' = "loop" /\ rounds' = rounds + 1
        /\ UNCHANGED <<calls, repaired, truncated>> /\ Repairs' = Repairs
    BY <1>11 DEF EndRound, Repairs
  <2>2. truncated = 0 /\ calls <= (most + MaxTruncations) + Repairs
    BY <1>2, <2>1 DEF Fused
  <2>3. /\ MaxTruncations * rounds' = most + MaxTruncations
        /\ MaxTruncations * (rounds' + 1) = (most + MaxTruncations) + MaxTruncations
    BY <1>1, <1>2, <2>1
  <2>4. calls <= ((most + MaxTruncations) + MaxTruncations) + 1
    <3> HIDE DEF most
    <3> QED
      BY <1>1, <1>2, <2>2
  <2> HIDE DEF most
  <2> QED
    BY <1>1, <1>2, <2>1, <2>2, <2>3, <2>4 DEF Fused, FuseBoundsCalls
<1>12. CASE UNCHANGED vars
  BY <1>3, <1>12 DEF vars, tally
<1> QED
  BY <1>4, <1>5, <1>6, <1>7, <1>8, <1>9, <1>10, <1>11, <1>12 DEF Next, Attempt

-----------------------------------------------------------------------------
(* Conversations *)

LEMMA WithFinalWellFormed ==
  ASSUME WellFormed(messages), NEW text
  PROVE  WellFormed(WithFinal(text))
  BY AppendWellFormed DEF WithFinal

LEMMA ConversationsStep ==
  ASSUME TypeOK, Conversations, [Next]_vars
  PROVE  Conversations'
<1> DEFINE Carries == {"provider", "schema", "capability"}
<1>1. ASSUME NEW c, c = <<>> \/ WellFormed(c), Begin(c)  PROVE Conversations'
  <2>1. WellFormed(messages')
    BY <1>1, PromptWellFormed DEF Begin
  <2>2. checkpoint' = checkpoint /\ pc' = "loop"
    BY <1>1 DEF Begin
  <2> QED
    BY <2>1, <2>2 DEF Conversations
<1>2. ASSUME NEW kind, NEW c, Return(kind, c), kind \in Carries => WellFormed(c)
      PROVE  Conversations'
  <2>1. /\ pc' = "returned" /\ outcome' = kind /\ messages' = c
        /\ checkpoint' = checkpoint
    BY <1>2 DEF Return
  <2> QED
    BY <1>2, <2>1 DEF Conversations
<1>3. CASE FirstAttempt
  BY <1>1, <1>3 DEF FirstAttempt, Conversations
<1>4. CASE Retry
  <2>1. Carried = <<>> \/ WellFormed(Carried)
    BY <1>4 DEF Retry, Retried, Carried, Conversations
  <2> QED
    BY <1>1, <1>4, <2>1 DEF Retry
<1>5. CASE Finish
  <2>1. pc' = "over" /\ checkpoint' \in {<<>>, checkpoint}
    BY <1>5 DEF Finish
  <2> QED
    BY <2>1 DEF Conversations
<1>6. CASE Restart
  <2>1. pc' = "idle" /\ checkpoint' = checkpoint
    BY <1>6 DEF Restart
  <2> QED
    BY <2>1 DEF Conversations
<1>7. CASE NoProfile \/ OutOfWallTime \/ OutOfBudget \/ OutOfTokens
  BY <1>2, <1>7 DEF NoProfile, OutOfWallTime, OutOfBudget, OutOfTokens
<1>8. CASE StartCall
  <2>1. WellFormed(messages)
    BY <1>8 DEF StartCall, Conversations
  <2>2. messages' = Compact(messages) /\ pc' = "call" /\ checkpoint' = checkpoint
    BY <1>8 DEF StartCall
  <2>3. WellFormed(messages')
    BY <2>1, <2>2, CompactWellFormed
  <2> QED
    BY <2>2, <2>3 DEF Conversations
<1>9. CASE CallTimesOut \/ CallFails \/ BatchTimesOut
  BY <1>2, <1>9 DEF CallTimesOut, CallFails, BatchTimesOut, Conversations
<1>10. CASE Respond
  <2>1. PICK u \in Usages :
          \/ \E text \in {"invalid", "empty"} : Repair(u, text)
          \/ \E text \in {"null", "invalid", "empty"} : SchemaFailure(u, text)
          \/ \E text \in {"valid", "empty"} : Final(u, text)
          \/ \E text \in {"valid", "empty"} : Truncated(u, text)
          \/ \E p \in ToolPlans : Calls(u, p)
    BY <1>10 DEF Respond
  <2>2. WellFormed(messages)
    BY <2>1 DEF Conversations, Repair, SchemaFailure, Final, Truncated, Calls, Answer
  <2>3. \A text : WellFormed(WithFinal(text))
    BY <2>2, WithFinalWellFormed
  <2>4. ASSUME pc' = "loop", checkpoint' = checkpoint, WellFormed(messages')
        PROVE  Conversations'
    BY <2>4 DEF Conversations
  <2>5. ASSUME NEW text, Repair(u, text)  PROVE Conversations'
    <3>1. WellFormed(Append(messages, Turn("assistant", 0)))
      BY <2>2, AppendWellFormed
    <3>2. WellFormed(Append(Append(messages, Turn("assistant", 0)), Nudge))
      BY <3>1, AppendWellFormed
    <3> QED
      BY <2>4, <2>5, <3>2 DEF Repair
  <2>6. ASSUME NEW text, SchemaFailure(u, text) \/ Final(u, text)  PROVE Conversations'
    BY <1>2, <2>3, <2>6 DEF SchemaFailure, Final
  <2>7. ASSUME NEW text, Truncated(u, text)  PROVE Conversations'
    <3>1. WellFormed(Append(WithFinal(text), Nudge))
      BY <2>3, AppendWellFormed
    <3> QED
      BY <1>2, <2>3, <2>4, <2>7, <3>1 DEF Truncated
  <2>8. ASSUME NEW p \in ToolPlans, Calls(u, p)  PROVE Conversations'
    <3>1. Open(Append(messages, Turn("assistant", Len(p))), p, 0)
      BY <2>2, AppendOpens, Constants
    <3>2. /\ pc' = "tools" /\ plan' = p /\ answered' = 0 /\ checkpoint' = checkpoint
          /\ messages' = Append(messages, Turn("assistant", Len(p)))
      BY <2>8 DEF Calls
    <3>3. Open(messages', plan', answered')
      BY <3>1, <3>2
    <3> QED
      BY <3>2, <3>3 DEF Conversations
  <2> QED
    BY <2>1, <2>5, <2>6, <2>7, <2>8
<1>11. CASE RunBatch
  <2> DEFINE last == BatchEnd(plan, answered)
  <2>1. /\ Open(messages, plan, answered) /\ pc' = "tools" /\ checkpoint' = checkpoint
        /\ messages' = messages \o Results(answered + 1, last)
        /\ answered' = last /\ plan' = plan
    BY <1>11 DEF RunBatch, Conversations
  <2>2. Len(plan) \in Nat /\ answered \in Nat /\ answered < Len(plan)
    BY <1>11, Constants DEF RunBatch, TypeOK
  <2>3. last \in answered..Len(plan)
    <3>1. last \in (answered + 1)..Len(plan)
      BY <2>2, BatchEndFacts
    <3> HIDE DEF last
    <3> QED
      BY <2>2, <3>1
  <2> HIDE DEF last
  <2>4. Open(messages \o Results(answered + 1, last), plan, last)
    BY <2>1, <2>2, <2>3, ResultsKeepOpen
  <2>5. Open(messages', plan', answered')
    BY <2>1, <2>4
  <2> QED
    BY <2>1, <2>5 DEF Conversations
<1>12. CASE EndRound
  <2>1. Open(messages, plan, Len(plan)) /\ Len(plan) \in Nat
    BY <1>12, Constants DEF EndRound, Conversations, TypeOK
  <2>2. WellFormed(messages)
    BY <2>1, OpenCloses
  <2>3. /\ pc' = "loop" /\ messages' = messages
        /\ checkpoint' \in {messages, checkpoint}
    BY <1>12 DEF EndRound, Checkpoint
  <2> QED
    BY <2>2, <2>3 DEF Conversations
<1>13. CASE Sibling
  BY <1>13 DEF Sibling, Conversations
<1>14. CASE UNCHANGED vars
  BY <1>14 DEF vars, Conversations
<1> QED
  BY <1>3, <1>4, <1>5, <1>6, <1>7, <1>8, <1>9, <1>10, <1>11, <1>12, <1>13, <1>14
    DEF Next, Attempt

-----------------------------------------------------------------------------
(* Batches *)

\* Where the run of reads, or the write, that call i belongs to opens.
RunOpens(p, i) == {j \in 1..i : j = 1 \/ p[j] = "write" \/ p[j - 1] = "write"}

\* From one multiple of n to the next.
LEMMA NextMultiple ==
  ASSUME NEW x \in Nat, NEW n \in Nat \ {0}, x % n = 0
  PROVE  (x + n) % n = 0
<1>1. PICK q \in Int : x = n * q
  <2>1. x = n * (x \div n) + (x % n) /\ x \div n \in Int
    OBVIOUS
  <2> QED
    BY <2>1
<1>2. PICK y \in Int : x + n = n * y + ((x + n) % n) /\ (x + n) % n \in 0..(n - 1)
  <2>1. /\ x + n = n * ((x + n) \div n) + ((x + n) % n) /\ (x + n) \div n \in Int
        /\ (x + n) % n \in 0..(n - 1)
    OBVIOUS
  <2> QED
    BY <2>1
<1>3. PICK r \in 0..(n - 1) : r = (x + n) % n
  BY <1>2
<1>4. PICK d \in Int : d = q + 1 - y
  OBVIOUS
<1>5. n * d = r
  <2>1. n * d = n * q + n - n * y
    BY <1>4
  <2> QED
    BY <1>1, <1>2, <1>3, <2>1
<1>6. d >= 1 => n * d >= n
  OBVIOUS
<1>7. d <= -1 => n * d <= -n
  OBVIOUS
<1>8. d = 0
  BY <1>3, <1>5, <1>6, <1>7
<1> QED
  BY <1>3, <1>5, <1>8

\* The largest of some positions is one of them.
LEMMA MaxFacts ==
  ASSUME NEW i \in Nat, NEW S \in SUBSET (1..i), S # {}
  PROVE  Max(S) \in S /\ \A x \in S : Max(S) >= x
<1> DEFINE T == {i - x : x \in S}
<1>0. \A x \in S : x \in Nat /\ i - x \in Nat
  <2> SUFFICES ASSUME NEW x \in S  PROVE x \in Nat /\ i - x \in Nat
    OBVIOUS
  <2>1. x \in 1..i
    OBVIOUS
  <2> QED
    BY <2>1
<1>1. T \in SUBSET Nat /\ T # {}
  BY <1>0
<1>2. PICK t \in T : \A y \in T : t <= y
  <2> HIDE DEF T
  <2> QED
    BY <1>1, MinFacts
<1>3. PICK x \in S : t = i - x
  BY <1>2
<1>4. ASSUME NEW y \in S  PROVE x >= y
  <2>1. i - x <= i - y
    BY <1>2, <1>3
  <2> QED
    BY <1>0, <2>1
<1> QED
  BY <1>3, <1>4 DEF Max

\* A call may open a batch by position; the first call and every write do, and
\* so does the call behind a write.
LEMMA StartsFacts ==
  ASSUME NEW p, NEW i \in Nat \ {0}
  PROVE  /\ Max(RunOpens(p, i)) \in 1..i
         /\ Starts(p, i) <=> (i - Max(RunOpens(p, i))) % MaxParallel = 0
         /\ i \in RunOpens(p, i) => Starts(p, i)
<1>1. 1 \in RunOpens(p, i) /\ RunOpens(p, i) \in SUBSET (1..i)
  BY DEF RunOpens
<1>2. /\ Max(RunOpens(p, i)) \in RunOpens(p, i)
      /\ \A x \in RunOpens(p, i) : Max(RunOpens(p, i)) >= x
  BY <1>1, MaxFacts
<1>3. Starts(p, i) <=> (i - Max(RunOpens(p, i))) % MaxParallel = 0
  BY DEF Starts, RunOpens
<1>4. ASSUME i \in RunOpens(p, i)  PROVE Starts(p, i)
  <2>1. Max(RunOpens(p, i)) = i
    BY <1>1, <1>2, <1>4
  <2>2. i - i = 0 /\ 0 % MaxParallel = 0
    BY WorkerAssumption DEF WorkerAssumption
  <2> QED
    BY <1>3, <2>1, <2>2
<1> QED
  BY <1>1, <1>2, <1>3, <1>4

\* A batch that opens where one may holds one write, or at most MaxParallel reads.
LEMMA BatchFits ==
  ASSUME NEW p, Len(p) \in Nat, NEW k \in Nat, k < Len(p), Starts(p, k + 1)
  PROVE  LET b == BatchEnd(p, k)
         IN  /\ b - k <= MaxParallel
             /\ \A i \in (k + 1)..b : p[i] = "write" => b = k + 1
<1> DEFINE s == k + 1
<1>1. PICK b \in Nat : b = BatchEnd(p, k)
  BY BatchEndFacts
<1>2. b \in s..Len(p) /\ \A i \in (s + 1)..b : ~Starts(p, i)
  <2>1. k + 2 = s + 1
    OBVIOUS
  <2> QED
    BY <1>1, <2>1, BatchEndFacts
<1>3. MaxParallel \in Nat \ {0}
  BY WorkerAssumption DEF WorkerAssumption
<1>4. ASSUME NEW i \in s..b, p[i] = "write"  PROVE b = s
  <2>1. i \in Nat \ {0} /\ i \in RunOpens(p, i)
    BY <1>4 DEF RunOpens
  <2>2. i = s
    <3>1. Starts(p, i)
      BY <2>1, StartsFacts
    <3> QED
      BY <1>2, <1>4, <3>1
  <2>3. CASE b > s
    <3>1. s + 1 \in RunOpens(p, s + 1)
      BY <1>4, <2>2 DEF RunOpens
    <3>2. Starts(p, s + 1)
      BY <3>1, StartsFacts
    <3>3. s + 1 \in (s + 1)..b
      BY <1>2, <2>3
    <3> QED
      BY <1>2, <3>2, <3>3
  <2> QED
    BY <1>2, <2>3
<1>5. ASSUME \A i \in s..b : p[i] # "write", b - k > MaxParallel  PROVE FALSE
  <2> DEFINE i == s + MaxParallel
  <2>1. i \in (s + 1)..b /\ i \in Nat \ {0} /\ s \in Nat \ {0}
    BY <1>2, <1>3, <1>5
  <2>2. RunOpens(p, i) = RunOpens(p, s)
    <3>1. ASSUME NEW j \in (s + 1)..i
          PROVE  j # 1 /\ p[j] # "write" /\ p[j - 1] # "write"
      <4>1. j \in s..b /\ j - 1 \in s..b
        BY <2>1, <3>1
      <4> QED
        BY <1>5, <4>1
    <3>2. RunOpens(p, i) \subseteq 1..s
      BY <2>1, <3>1 DEF RunOpens
    <3>3. s <= i
      BY <2>1
    <3> HIDE DEF i
    <3> QED
      BY <2>1, <3>2, <3>3 DEF RunOpens
  <2>3. PICK r \in 1..s : r = Max(RunOpens(p, s))
    BY <2>1, StartsFacts
  <2>4. (s - r) % MaxParallel = 0
    BY <2>1, <2>3, StartsFacts
  <2>5. (i - r) % MaxParallel = 0
    <3>1. i - r = (s - r) + MaxParallel /\ s - r \in Nat
      BY <1>3, <2>1, <2>3
    <3> QED
      BY <1>3, <2>4, <3>1, NextMultiple
  <2>6. Starts(p, i)
    <3> HIDE DEF i
    <3> QED
      BY <2>1, <2>2, <2>3, <2>5, StartsFacts
  <2> QED
    BY <1>2, <2>1, <2>6
<1>6. b - k <= MaxParallel
  <2>1. CASE \E i \in s..b : p[i] = "write"
    BY <1>3, <1>4, <2>1
  <2>2. CASE ~\E i \in s..b : p[i] = "write"
    BY <1>1, <1>3, <1>5, <2>2
  <2> QED
    BY <2>1, <2>2
<1> QED
  BY <1>1, <1>4, <1>6

LEMMA BatchedStep ==
  ASSUME TypeOK, Batched, [Next]_vars
  PROVE  Batched'
<1>1. ASSUME pc' # "tools"  PROVE Batched'
  BY <1>1 DEF Batched
<1>2. ASSUME UNCHANGED <<pc, plan, answered>>  PROVE Batched'
  BY <1>2 DEF Batched, Starts
<1>3. CASE FirstAttempt \/ Retry \/ Finish \/ Restart
  BY <1>1, <1>3 DEF FirstAttempt, Retry, Begin, Finish, Restart
<1>4. CASE NoProfile \/ OutOfWallTime \/ OutOfBudget \/ OutOfTokens \/ StartCall
  BY <1>1, <1>4 DEF NoProfile, OutOfWallTime, OutOfBudget, OutOfTokens, StartCall, Return
<1>5. CASE CallTimesOut \/ CallFails \/ BatchTimesOut \/ EndRound
  BY <1>1, <1>5 DEF CallTimesOut, CallFails, BatchTimesOut, EndRound, Return
<1>6. CASE Respond
  <2>1. CASE pc' # "tools"
    BY <1>1, <2>1
  <2>2. CASE pc' = "tools"
    <3>1. plan' \in ToolPlans /\ answered' = 0
      BY <1>6, <2>2 DEF Respond, Repair, SchemaFailure, Final, Truncated, Calls, Return
    <3>2. Starts(plan', 1)
      <4>1. 1 \in RunOpens(plan', 1)
        BY DEF RunOpens
      <4> QED
        BY <4>1, StartsFacts
    <3> QED
      BY <3>1, <3>2 DEF Batched
  <2> QED
    BY <2>1, <2>2
<1>7. CASE RunBatch
  <2> DEFINE last == BatchEnd(plan, answered)
  <2>1. Len(plan) \in Nat /\ answered \in Nat /\ answered < Len(plan)
    BY <1>7, Constants DEF RunBatch, TypeOK
  <2>2. last < Len(plan) => Starts(plan, last + 1)
    BY <2>1, BatchEndFacts
  <2>3. plan' = plan /\ answered' = last
    BY <1>7 DEF RunBatch
  <2> HIDE DEF last
  <2> QED
    BY <2>2, <2>3 DEF Batched
<1>8. CASE Sibling \/ UNCHANGED vars
  BY <1>2, <1>8 DEF Sibling, vars
<1> QED
  BY <1>3, <1>4, <1>5, <1>6, <1>7, <1>8 DEF Next, Attempt

-----------------------------------------------------------------------------
(* The invariant and what follows *)

LEMMA InitIInv == Init => IInv
<1> SUFFICES ASSUME Init  PROVE IInv
  OBVIOUS
<1> USE DEF Init
<1>1. TypeOK
  <2>1. 0 \in 0..MaxTruncations /\ 0 \in 0..MaxAttempts
    BY Constants
  <2>2. <<>> \in Seq(Message) /\ Len(<<>>) = 0
    OBVIOUS
  <2>3. answered \in 0..Len(plan) /\ plan \in ToolPlans \cup {<<>>}
    BY <2>2
  <2> QED
    BY <2>1, <2>2, <2>3 DEF TypeOK
<1>2. Conversations
  BY DEF Conversations
<1>3. Counts
  <2>1. ASSUME budget.tokens # NoLimit
        PROVE  \E u \in Usages : spent <= budget.tokens + u.over
    BY <2>1, Constants
  <2> QED
    BY <2>1, Constants DEF Counts, BudgetsHold
<1>4. Fused
  BY Constants DEF Fused, FuseBoundsCalls
<1> QED
  BY <1>1, <1>2, <1>3, <1>4 DEF IInv, Batched

LEMMA NextIInv == IInv /\ [Next]_vars => IInv'
  BY TypeStep, ConversationsStep, CountsStep, FusedStep, BatchedStep DEF IInv

LEMMA Inductive == Spec => []IInv
  BY InitIInv, NextIInv, PTL DEF Spec

\* Types: in particular BatchEnd and Compact stay within the plan and the
\* conversation they cut (worker.py:173-195 and 447-472).
THEOREM TypeCorrect == Spec => []TypeOK
<1>1. IInv => TypeOK
  BY DEF IInv
<1> QED
  BY <1>1, Inductive, PTL

\* Every request pairs tool calls with their results, for any window, span floor
\* and tool plans: eviction by whole spans, the order of the batches, the repair,
\* the nudges and the carried conversation never part them.
THEOREM RequestsArePaired == Spec => []RequestsPaired
<1>1. IInv => RequestsPaired
  BY DEF IInv, Conversations, WellFormed, RequestsPaired
<1> QED
  BY <1>1, Inductive, PTL

\* Every request opens with the prompt, whatever compaction had to evict.
THEOREM ObjectiveIsKept == Spec => []ObjectiveKept
<1>1. IInv => ObjectiveKept
  <2> SUFFICES ASSUME WellFormed(messages)  PROVE ObjectiveKept
    BY DEF IInv, Conversations, ObjectiveKept
  <2>1. messages \in Seq(Message) /\ Headed(messages) /\ Len(messages) \in Nat
    BY DEF WellFormed
  <2>2. Prompt \in Seq(Message) /\ Len(Prompt) \in 1..Len(messages)
    BY <2>1, PromptFacts DEF Headed
  <2>3. /\ SubSeq(messages, 1, Len(Prompt)) \in Seq(Message)
        /\ Len(SubSeq(messages, 1, Len(Prompt))) = Len(Prompt)
        /\ \A i \in 1..Len(Prompt) : SubSeq(messages, 1, Len(Prompt))[i] = messages[i]
    BY <2>1, <2>2, SubSeqProperties
  <2>4. SubSeq(messages, 1, Len(Prompt)) = Prompt
    BY <2>1, <2>2, <2>3, SeqEqual DEF Headed
  <2> QED
    BY <2>1, <2>4 DEF ObjectiveKept, Headed
<1> QED
  BY <1>1, Inductive, PTL

\* The call, round and token limits of a contract hold in every attempt, but for
\* what a provider counts over the estimate in the one call that passes them.
THEOREM BudgetsAreKept == Spec => []BudgetsHold
<1>1. IInv => BudgetsHold
  BY DEF IInv, Counts
<1> QED
  BY <1>1, Inductive, PTL

\* A row of truncated turns and the one repair are all that an attempt may spend
\* calls on between two tool rounds.
THEOREM FuseBounds == Spec => []FuseBoundsCalls
<1>1. IInv => FuseBoundsCalls
  BY DEF IInv, Fused
<1> QED
  BY <1>1, Inductive, PTL

\* For any plan and cap, a mutating tool shares its batch with no other tool, and
\* no batch is larger than the cap.
THEOREM WritesRunAlone == Spec => []BatchesRespectWrites
<1>1. IInv => BatchesRespectWrites
  <2> SUFFICES ASSUME IInv, pc = "tools", answered < Len(plan)
               PROVE  LET batch == (answered + 1)..BatchEnd(plan, answered)
                      IN  /\ Cardinality(batch) <= MaxParallel
                          /\ (\E k \in batch : plan[k] = "write") => Cardinality(batch) = 1
    BY DEF BatchesRespectWrites
  <2>1. Len(plan) \in Nat /\ answered \in Nat /\ Starts(plan, answered + 1)
    BY Constants DEF IInv, TypeOK, Batched
  <2>2. PICK b \in (answered + 1)..Len(plan) : b = BatchEnd(plan, answered)
    BY <2>1, BatchEndFacts
  <2>3. /\ b - answered <= MaxParallel
        /\ \A i \in (answered + 1)..b : plan[i] = "write" => b = answered + 1
    BY <2>1, <2>2, BatchFits
  <2>4. Cardinality((answered + 1)..b) = b - answered
    <3>1. answered + 1 \in Int /\ b \in Int /\ answered + 1 <= b
      BY <2>1, <2>2
    <3>2. Cardinality((answered + 1)..b) = b - (answered + 1) + 1
      BY <3>1, FS_Interval
    <3> QED
      BY <2>1, <2>2, <3>2
  <2> QED
    BY <2>1, <2>2, <2>3, <2>4
<1> QED
  BY <1>1, Inductive, PTL

=============================================================================
