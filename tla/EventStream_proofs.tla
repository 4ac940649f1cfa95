------------------------- MODULE EventStream_proofs -------------------------
(***************************************************************************)
(* Proofs about the event stream: what its variables hold, that a handler  *)
(* that has ended leaves nothing behind, and what the two replays, the     *)
(* channel and the browser's Last-Event-ID promise together, for every     *)
(* sequence of published events and any number of broken connections.      *)
(*                                                                         *)
(* First the operators: what a filter keeps of a sequence, the highest of  *)
(* its numbers, sequences without a gap and in order.  Then the invariant, *)
(* its parts from the handler's flags to the numbers on the channel, and   *)
(* that every step keeps each of them.                                     *)
(***************************************************************************)
EXTENDS EventStream, FiniteSetTheorems, SequenceTheorems, TLAPS

\* What the worker publishes, and what the list and the wire may hold.
Published == [type : SequencedTypes, seq : Nat \ {0}, attempt : Nat]
Listed == Published \cup {QueuedEvent}
Ids == Nat \cup {NoEventId}

\* Within an attempt, numbers rise along the sequence.
InOrder(events) ==
  \A j \in DOMAIN events : \A i \in 1 .. (j - 1) :
    events[j].type # QueuedType /\ events[i].attempt = events[j].attempt
      => events[i].seq < events[j].seq
-----------------------------------------------------------------------------
(* The operators on sequences. *)

\* Every non-empty set of naturals has a least element.  (Of the library's facts
\* on well-foundedness this is the one about sets, so the set is told by the
\* intervals that end in it.)
LEMMA LeastNatural ==
  ASSUME NEW S \in SUBSET Nat, S # {}
  PROVE  \E n \in S : \A m \in S : n <= m
<1> DEFINE T == {0 .. n : n \in S}
<1>1. T \subseteq FiniteSubsetsOf(Nat) /\ T # {}
  <2>1. \A n \in S : IsFiniteSet(0 .. n) /\ 0 .. n \subseteq Nat
    BY FS_Interval
  <2> QED BY <2>1 DEF FiniteSubsetsOf
<1>2. PICK I \in T : \A J \in T : <<J, I>> \notin StrictSubsetOrdering(Nat)
  <2> HIDE DEF T
  <2> QED BY <1>1, FS_StrictSubsetOrderingWellFounded, WFMin
<1>3. PICK n \in S : I = 0 .. n
  OBVIOUS
<1>4. ASSUME NEW m \in S, m < n PROVE FALSE
  <2>1. 0 .. m \in T /\ 0 .. m \in SUBSET Nat /\ I \in SUBSET Nat
    BY <1>3
  <2>2. 0 .. m \subseteq I /\ 0 .. m # I
    <3>1. n \in 0 .. n /\ n \notin 0 .. m
      BY <1>4
    <3> QED BY <1>3, <1>4, <3>1
  <2> QED BY <1>2, <2>1, <2>2 DEF StrictSubsetOrdering
<1> QED BY <1>4

\* The positions of a finite set are numbered from the lowest.
LEMMA NthIs ==
  ASSUME NEW S \in SUBSET Nat, IsFiniteSet(S)
  PROVE  /\ Cardinality(S) \in Nat
         /\ \A k \in 1 .. Cardinality(S) : Nth(S, k) \in S
         /\ \A k, l \in 1 .. Cardinality(S) : k < l => Nth(S, k) < Nth(S, l)
         /\ \A i \in S : \E k \in 1 .. Cardinality(S) : Nth(S, k) = i
<1> DEFINE upTo(i) == {j \in S : j <= i}
           rank == [i \in S |-> Cardinality(upTo(i))]
           n == Cardinality(S)
<1>1. n \in Nat
  BY FS_CardinalityType
<1>2. ASSUME NEW i \in S
      PROVE  IsFiniteSet(upTo(i)) /\ rank[i] \in 1 .. n
  <2>1. upTo(i) \in SUBSET S /\ i \in upTo(i)
    OBVIOUS
  <2>2. IsFiniteSet(upTo(i)) /\ Cardinality(upTo(i)) <= n
    BY <2>1, FS_Subset
  <2>3. Cardinality(upTo(i)) \in Nat /\ Cardinality(upTo(i)) # 0
    BY <2>1, <2>2, FS_CardinalityType, FS_EmptySet
  <2> QED BY <1>1, <2>2, <2>3
<1>3. ASSUME NEW i \in S, NEW k \in S, i < k
      PROVE  rank[i] < rank[k]
  <2>1. upTo(i) \in SUBSET upTo(k) /\ k \in upTo(k) /\ k \notin upTo(i)
    <3>1. i \in Nat /\ k \in Nat /\ \A j \in S : j \in Nat
      OBVIOUS
    <3>2. \A j \in S : j <= i => j <= k
      BY <1>3, <3>1
    <3>3. k <= k /\ ~ k <= i
      BY <1>3, <3>1
    <3> QED BY <3>2, <3>3
  <2>2. Cardinality(upTo(i)) <= Cardinality(upTo(k)) /\ Cardinality(upTo(i)) # Cardinality(upTo(k))
    BY <1>2, <2>1, FS_Subset
  <2>3. rank[i] = Cardinality(upTo(i)) /\ rank[k] = Cardinality(upTo(k))
    OBVIOUS
  <2>4. rank[i] \in 1 .. n /\ rank[k] \in 1 .. n
    BY <1>2
  <2> HIDE DEF rank, n, upTo
  <2> QED BY <1>1, <2>2, <2>3, <2>4
<1>4. \A i, k \in S : rank[i] = rank[k] => i = k
  <2> SUFFICES ASSUME NEW i \in S, NEW k \in S, i # k PROVE rank[i] # rank[k]
    OBVIOUS
  <2>1. rank[i] \in 1 .. n /\ rank[k] \in 1 .. n
    BY <1>2
  <2>2. (i < k => rank[i] < rank[k]) /\ (k < i => rank[k] < rank[i])
    BY <1>3
  <2> HIDE DEF rank, n
  <2> QED BY <1>1, <2>1, <2>2
<1>5. ASSUME NEW k \in 1 .. n PROVE \E i \in S : rank[i] = k
  <2> SUFFICES ASSUME \A i \in S : rank[i] # k PROVE FALSE
    OBVIOUS
  <2>1. rank \in [S -> (1 .. n) \ {k}]
    BY <1>2
  <2>2. IsFiniteSet(1 .. n) /\ Cardinality(1 .. n) = n
    BY <1>1, FS_Interval
  <2>3. IsFiniteSet((1 .. n) \ {k}) /\ Cardinality((1 .. n) \ {k}) = n - 1
    BY <2>2, <1>5, FS_RemoveElement
  <2>4. n - 1 < n
    BY <1>1
  <2>5. \E i, j \in S : i # j /\ rank[i] = rank[j]
    <3> DEFINE ranks == (1 .. n) \ {k}
    <3>1. rank \in [S -> ranks] /\ IsFiniteSet(ranks) /\ Cardinality(ranks) < Cardinality(S)
      BY <2>1, <2>3, <2>4
    <3> HIDE DEF rank, ranks
    <3> QED BY <3>1, FS_PigeonHole
  <2> QED BY <1>4, <2>5
<1>6. ASSUME NEW k \in 1 .. n PROVE Nth(S, k) \in S /\ rank[Nth(S, k)] = k
  <2>1. \E i \in S : Cardinality({j \in S : j <= i}) = k
    BY <1>5, <1>6
  <2>2. Nth(S, k) \in S /\ Cardinality({j \in S : j <= Nth(S, k)}) = k
    BY <2>1 DEF Nth
  <2> QED BY <2>2
<1>7. ASSUME NEW k \in 1 .. n, NEW l \in 1 .. n, k < l PROVE Nth(S, k) < Nth(S, l)
  <2>1. /\ Nth(S, k) \in S /\ rank[Nth(S, k)] = k /\ Nth(S, l) \in S /\ rank[Nth(S, l)] = l
        /\ Nth(S, k) \in Nat /\ Nth(S, l) \in Nat
    BY <1>6
  <2>2. ~ Nth(S, l) < Nth(S, k)
    <3> SUFFICES ASSUME Nth(S, l) < Nth(S, k) PROVE FALSE
      OBVIOUS
    <3>1. rank[Nth(S, l)] < rank[Nth(S, k)]
      BY <1>3, <2>1
    <3> QED BY <1>1, <1>7, <2>1, <3>1
  <2>3. Nth(S, l) # Nth(S, k)
    BY <1>1, <1>7, <2>1
  <2> HIDE DEF rank, n
  <2> QED BY <2>1, <2>2, <2>3
<1>8. ASSUME NEW i \in S PROVE \E k \in 1 .. n : Nth(S, k) = i
  <2>1. rank[i] \in 1 .. n
    BY <1>2
  <2>2. Nth(S, rank[i]) \in S /\ rank[Nth(S, rank[i])] = rank[i]
    BY <1>6, <2>1
  <2> QED BY <1>4, <2>1, <2>2
<1> QED BY <1>1, <1>6, <1>7, <1>8

\* What is kept of a sequence: the entries at the positions, in their order.
LEMMA KeptIs ==
  ASSUME NEW E, NEW s \in Seq(E), NEW S \in SUBSET DOMAIN s
  PROVE  /\ Kept(s, S) \in Seq(E)
         /\ \A k \in DOMAIN Kept(s, S) : Nth(S, k) \in S /\ Kept(s, S)[k] = s[Nth(S, k)]
         /\ \A l \in DOMAIN Kept(s, S) : \A k \in 1 .. (l - 1) :
              k \in DOMAIN Kept(s, S) /\ Nth(S, k) < Nth(S, l)
         /\ \A i \in S : \E k \in DOMAIN Kept(s, S) : Nth(S, k) = i
<1>1. Len(s) \in Nat /\ DOMAIN s = 1 .. Len(s) /\ S \in SUBSET Nat
  BY LenProperties
<1>2. IsFiniteSet(S)
  <2>1. IsFiniteSet(1 .. Len(s))
    BY <1>1, FS_Interval
  <2> QED BY <1>1, <2>1, FS_Subset
<1>3. /\ Cardinality(S) \in Nat
      /\ \A k \in 1 .. Cardinality(S) : Nth(S, k) \in S
      /\ \A k, l \in 1 .. Cardinality(S) : k < l => Nth(S, k) < Nth(S, l)
      /\ \A i \in S : \E k \in 1 .. Cardinality(S) : Nth(S, k) = i
  BY <1>1, <1>2, NthIs
<1>4. /\ DOMAIN Kept(s, S) = 1 .. Cardinality(S)
      /\ \A k \in 1 .. Cardinality(S) : Kept(s, S)[k] = s[Nth(S, k)]
  BY DEF Kept
<1>5. \A k \in 1 .. Cardinality(S) : s[Nth(S, k)] \in E
  BY <1>1, <1>3, ElementOfSeq
<1>6. Kept(s, S) \in Seq(E)
  <2>1. Kept(s, S) \in [1 .. Cardinality(S) -> E]
    BY <1>5 DEF Kept
  <2> QED BY <1>3, <2>1
<1>7. ASSUME NEW l \in 1 .. Cardinality(S), NEW k \in 1 .. (l - 1)
      PROVE  k \in 1 .. Cardinality(S) /\ k < l
  BY <1>3
<1> QED BY <1>3, <1>4, <1>6, <1>7

\* The type of an event, field by field.
LEMMA ListedIs ==
  /\ Published \subseteq Listed
  /\ \A e \in Listed : /\ e.seq \in Nat /\ e.attempt \in Nat
                       /\ e.type # QueuedType => e \in Published /\ e.seq >= 1
                       /\ e.type = QueuedType => e = QueuedEvent /\ e.seq = 0
  /\ \A e \in Published : e.type # QueuedType /\ e.seq >= 1 /\ e.seq \in Nat
  /\ QueuedEvent \in Listed /\ QueuedEvent.type = QueuedType /\ QueuedEvent.seq = 0
<1>1. QueuedType \notin SequencedTypes
  BY DEF QueuedType, SequencedTypes
<1>2. \A e \in Published : e.type # QueuedType /\ e.seq >= 1 /\ e.seq \in Nat /\ e.attempt \in Nat
  BY <1>1 DEF Published
<1>3. QueuedEvent.type = QueuedType /\ QueuedEvent.seq = 0 /\ QueuedEvent.attempt = 0
  BY DEF QueuedEvent, Event, NoSeq
<1> QED BY <1>2, <1>3 DEF Listed

\* Numbers of the last event seen: -1 where there is none.
LEMMA IdsAre == Ids \subseteq Int /\ Nat \subseteq Ids /\ NoEventId \in Ids /\ NoEventId < 0
                /\ \A h \in Ids : h >= -1
  BY DEF Ids, NoEventId

\* An entry of a sequence of events.
LEMMA EntryIs ==
  ASSUME NEW s \in Seq(Listed), NEW i \in DOMAIN s
  PROVE  s[i] \in Listed /\ s[i].seq \in Nat /\ s[i].attempt \in Nat
<1>1. s[i] \in Listed
  BY LenProperties, ElementOfSeq
<1> QED BY <1>1, ListedIs

\* The highest number is one of them, and none is higher.
LEMMA HighestIs ==
  ASSUME NEW s \in Seq(Listed), NEW h \in Ids
  PROVE  /\ HighestOf(s, h) \in SeqsOf(s) \cup {h}
         /\ HighestOf(s, h) \in Ids /\ h <= HighestOf(s, h)
         /\ \A i \in DOMAIN s : s[i].seq <= HighestOf(s, h)
<1> DEFINE upTo(n) == {s[i].seq : i \in 1 .. n} \cup {h}
           greatest(n) == \E m \in upTo(n) : \A k \in upTo(n) : k <= m
           without == {n \in 0 .. Len(s) : ~ greatest(n)}
<1>1. Len(s) \in Nat /\ DOMAIN s = 1 .. Len(s)
  BY LenProperties
<1>2. \A i \in DOMAIN s : s[i].seq \in Nat
  BY EntryIs
<1>3. h \in Int
  BY IdsAre
<1>4. without = {}
  <2> SUFFICES ASSUME without # {} PROVE FALSE
    OBVIOUS
  <2>1. without \in SUBSET Nat
    BY <1>1
  <2>2. PICK n \in without : \A m \in without : n <= m
    <3> HIDE DEF without
    <3> QED BY <2>1, LeastNatural
  <2>3. n \in 0 .. Len(s) /\ ~ greatest(n) /\ n \in Nat
    BY <2>1
  <2>4. CASE n = 0
    <3>1. upTo(n) = {h}
      BY <2>4
    <3>2. h <= h
      BY <1>3
    <3> QED BY <2>3, <3>1, <3>2
  <2>5. CASE n # 0
    <3>1. n - 1 \in 0 .. Len(s) /\ n - 1 < n /\ n \in DOMAIN s
      BY <1>1, <2>3, <2>5
    <3>2. greatest(n - 1)
      <4> SUFFICES ASSUME ~ greatest(n - 1) PROVE FALSE
        OBVIOUS
      <4>1. n - 1 \in without
        BY <3>1
      <4>2. n <= n - 1
        BY <2>2, <4>1
      <4> QED BY <2>3, <4>2
    <3>3. PICK m \in upTo(n - 1) : \A k \in upTo(n - 1) : k <= m
      BY <3>2
    <3>4. upTo(n) = upTo(n - 1) \cup {s[n].seq}
      <4>1. 1 .. n = (1 .. (n - 1)) \cup {n}
        BY <2>3, <3>1
      <4> QED BY <4>1
    <3>5. \A k \in upTo(n - 1) : k \in Int
      BY <1>1, <1>2, <1>3, <3>1
    <3>6. s[n].seq \in Int
      BY <1>2, <3>1
    <3> HIDE DEF upTo
    <3>7. CASE s[n].seq <= m
      BY <2>3, <3>3, <3>4, <3>7
    <3>8. CASE ~ s[n].seq <= m
      <4>1. \A k \in upTo(n) : k <= s[n].seq
        BY <3>3, <3>4, <3>5, <3>6, <3>8
      <4> QED BY <2>3, <3>4, <4>1
    <3> QED BY <3>7, <3>8
  <2> QED BY <2>4, <2>5
<1>5. greatest(Len(s))
  <2>1. Len(s) \in 0 .. Len(s)
    BY <1>1
  <2>2. Len(s) \notin without
    <3> HIDE DEF without
    <3> QED BY <1>4
  <2> HIDE DEF greatest
  <2> QED BY <2>1, <2>2
<1>6. SeqsOf(s) \cup {h} = upTo(Len(s))
  BY <1>1 DEF SeqsOf
<1>7. \E m \in SeqsOf(s) \cup {h} : \A k \in SeqsOf(s) \cup {h} : k <= m
  BY <1>5, <1>6
<1>8. HighestOf(s, h) \in SeqsOf(s) \cup {h} /\ \A k \in SeqsOf(s) \cup {h} : k <= HighestOf(s, h)
  BY <1>7 DEF HighestOf
<1>9. SeqsOf(s) \subseteq Nat
  BY <1>2 DEF SeqsOf
<1> HIDE DEF upTo, greatest, without
<1> QED BY <1>8, <1>9, IdsAre DEF SeqsOf

\* A pass that does not end the stream has gone over every entry.
LEMMA UpToTerminalIs ==
  ASSUME NEW s \in Seq(Listed)
  PROVE  /\ UpToTerminal(s) \in Seq(Listed) /\ Len(UpToTerminal(s)) <= Len(s)
         /\ \A i \in DOMAIN UpToTerminal(s) : i \in DOMAIN s /\ UpToTerminal(s)[i] = s[i]
         /\ ~ EndsStream(UpToTerminal(s)) => UpToTerminal(s) = s
<1> DEFINE ends == {i \in DOMAIN s : IsTerminal(s[i])}
           n == CHOOSE i \in ends : \A j \in ends : i <= j
<1>1. Len(s) \in Nat /\ DOMAIN s = 1 .. Len(s)
  BY LenProperties
<1>2. CASE ends = {}
  BY <1>1, <1>2 DEF UpToTerminal
<1>3. CASE ends # {}
  <2>1. ends \in SUBSET Nat
    BY <1>1
  <2>2. \E i \in ends : \A j \in ends : i <= j
    <3> HIDE DEF ends
    <3> QED BY <1>3, <2>1, LeastNatural
  <2>3. n \in ends
    BY <2>2
  <2>4. n \in 1 .. Len(s) /\ IsTerminal(s[n])
    BY <1>1, <2>3
  <2>5. UpToTerminal(s) = SubSeq(s, 1, n)
    BY <1>3 DEF UpToTerminal
  <2> HIDE DEF n, ends
  <2>6. \A i \in 1 .. n : s[i] \in Listed
    BY <1>1, <2>4, EntryIs
  <2>7. /\ SubSeq(s, 1, n) \in Seq(Listed) /\ Len(SubSeq(s, 1, n)) = n
        /\ \A i \in 1 .. n : SubSeq(s, 1, n)[i] = s[i]
    <3>1. n \in Int /\ 1 \in Int /\ 1 <= n /\ n - 1 + 1 = n
      BY <2>4
    <3>2. /\ SubSeq(s, 1, n) \in Seq(Listed)
          /\ Len(SubSeq(s, 1, n)) = n - 1 + 1
          /\ \A i \in 1 .. n - 1 + 1 : SubSeq(s, 1, n)[i] = s[1 + i - 1]
      BY <2>6, <3>1, SubSeqProperties
    <3>3. \A i \in 1 .. n : 1 + i - 1 = i
      BY <3>1
    <3> QED BY <3>1, <3>2, <3>3
  <2>8. DOMAIN SubSeq(s, 1, n) = 1 .. n
    BY <2>7, LenProperties
  <2>9. EndsStream(SubSeq(s, 1, n))
    <3>1. SubSeq(s, 1, n) # <<>> /\ SubSeq(s, 1, n)[Len(SubSeq(s, 1, n))] = s[n]
      BY <2>4, <2>7, EmptySeq
    <3> QED BY <2>4, <3>1 DEF EndsStream
  <2>10. Len(SubSeq(s, 1, n)) <= Len(s) /\ \A i \in 1 .. n : i \in 1 .. Len(s)
    BY <1>1, <2>4, <2>7
  <2> QED BY <1>1, <2>5, <2>7, <2>8, <2>9, <2>10
<1> QED BY <1>2, <1>3

\* An earlier part of a sequence, entry by entry.
Begins(p, s) ==
  /\ Len(p) <= Len(s)
  /\ \A i \in DOMAIN p : i \in DOMAIN s /\ p[i] = s[i]

\* The entries of two sequences written one after the other, and of a rest.
LEMMA JoinedIs ==
  ASSUME NEW s \in Seq(Listed), NEW t \in Seq(Listed)
  PROVE  /\ s \o t \in Seq(Listed)
         /\ \A i \in DOMAIN s : i \in DOMAIN (s \o t) /\ (s \o t)[i] = s[i]
         /\ \A i \in DOMAIN t : i + Len(s) \in DOMAIN (s \o t) /\ (s \o t)[i + Len(s)] = t[i]
         /\ \A i \in DOMAIN (s \o t) :
              \/ i \in DOMAIN s /\ (s \o t)[i] = s[i]
              \/ i > Len(s) /\ i - Len(s) \in DOMAIN t /\ (s \o t)[i] = t[i - Len(s)]
<1>1. /\ Len(s) \in Nat /\ Len(t) \in Nat /\ DOMAIN s = 1 .. Len(s) /\ DOMAIN t = 1 .. Len(t)
      /\ s \o t \in Seq(Listed) /\ DOMAIN (s \o t) = 1 .. Len(s) + Len(t)
      /\ \A j \in 1 .. Len(s) + Len(t) :
           (s \o t)[j] = IF j <= Len(s) THEN s[j] ELSE t[j - Len(s)]
  BY LenProperties, ConcatProperties
<1>2. ASSUME NEW i \in DOMAIN s
      PROVE  i \in DOMAIN (s \o t) /\ (s \o t)[i] = s[i]
  BY <1>1
<1>3. ASSUME NEW i \in DOMAIN t
      PROVE  i + Len(s) \in DOMAIN (s \o t) /\ (s \o t)[i + Len(s)] = t[i]
  BY <1>1
<1>4. ASSUME NEW i \in DOMAIN (s \o t)
      PROVE  \/ i \in DOMAIN s /\ (s \o t)[i] = s[i]
             \/ i > Len(s) /\ i - Len(s) \in DOMAIN t /\ (s \o t)[i] = t[i - Len(s)]
  BY <1>1
<1> QED BY <1>1, <1>2, <1>3, <1>4

\* The rest of a sequence, entry by entry.
LEMMA TailIs ==
  ASSUME NEW s \in Seq(Listed), s # <<>>
  PROVE  /\ Tail(s) \in Seq(Listed) /\ Head(s) = s[1] /\ 1 \in DOMAIN s
         /\ \A i \in DOMAIN Tail(s) : i \in Nat /\ i >= 1 /\ i + 1 \in DOMAIN s /\ Tail(s)[i] = s[i + 1]
<1>1. /\ Tail(s) \in Seq(Listed) /\ Len(Tail(s)) = Len(s) - 1 /\ Len(s) \in Nat /\ Len(s) # 0
      /\ DOMAIN s = 1 .. Len(s) /\ DOMAIN Tail(s) = 1 .. Len(Tail(s)) /\ Head(s) = s[1]
      /\ \A j \in 1 .. Len(Tail(s)) : Tail(s)[j] = s[j + 1]
  BY LenProperties, HeadTailProperties, EmptySeq
<1> QED BY <1>1

\* The empty sequence.
LEMMA NothingIs == <<>> \in Seq(Listed) /\ DOMAIN <<>> = {} /\ Len(<<>>) = 0
<1>1. <<>> \in Seq(Listed) /\ Len(<<>>) = 0
  BY EmptySeq
<1>2. DOMAIN <<>> = 1 .. 0
  BY <1>1, LenProperties
<1> QED BY <1>1, <1>2

\* The terminal-event cut takes entries from the front.
LEMMA CutIs ==
  ASSUME NEW s \in Seq(Listed)
  PROVE  /\ UpToTerminal(s) \in Seq(Listed) /\ Begins(UpToTerminal(s), s)
         /\ ~ EndsStream(UpToTerminal(s)) => UpToTerminal(s) = s
  BY UpToTerminalIs DEF Begins

-----------------------------------------------------------------------------
(* Sequences whose numbers have no gap, and sequences in order. *)

\* An earlier part of a sequence without a gap has none.
LEMMA FollowsPart ==
  ASSUME NEW s \in Seq(Listed), NEW p \in Seq(Listed), Begins(p, s), NEW B, NEW C,
         B \subseteq C, Follows(B, s)
  PROVE  Follows(C, p)
<1> SUFFICES ASSUME NEW i \in DOMAIN p, NEW k \in 1 .. (p[i].seq - 1)
             PROVE  k \in C \cup {p[j].seq : j \in 1 .. (i - 1)}
  BY DEF Follows
<1>1. i \in DOMAIN s /\ p[i] = s[i] /\ i \in 1 .. Len(p) /\ Len(p) \in Nat /\ DOMAIN p = 1 .. Len(p)
  BY LenProperties DEF Begins
<1>2. k \in B \cup {s[j].seq : j \in 1 .. (i - 1)}
  BY <1>1 DEF Follows
<1>3. \A j \in 1 .. (i - 1) : p[j] = s[j]
  <2>1. \A j \in 1 .. (i - 1) : j \in 1 .. Len(p)
    BY <1>1
  <2> QED BY <1>1, <2>1 DEF Begins
<1> QED BY <1>2, <1>3

\* Nor has the rest, if the number that has gone is known.
LEMMA FollowsTail ==
  ASSUME NEW s \in Seq(Listed), s # <<>>, NEW B, NEW C,
         B \cup {Head(s).seq} \subseteq C, Follows(B, s)
  PROVE  Follows(C, Tail(s))
<1> SUFFICES ASSUME NEW i \in DOMAIN Tail(s), NEW k \in 1 .. (Tail(s)[i].seq - 1)
             PROVE  k \in C \cup {Tail(s)[j].seq : j \in 1 .. (i - 1)}
  BY DEF Follows
<1>1. /\ Tail(s) \in Seq(Listed) /\ Len(Tail(s)) = Len(s) - 1 /\ Len(s) \in Nat
      /\ DOMAIN s = 1 .. Len(s) /\ DOMAIN Tail(s) = 1 .. Len(Tail(s)) /\ Head(s) = s[1]
      /\ \A j \in 1 .. Len(Tail(s)) : Tail(s)[j] = s[j + 1]
  BY LenProperties, HeadTailProperties
<1>2. i \in 1 .. Len(Tail(s)) /\ i + 1 \in DOMAIN s /\ Tail(s)[i] = s[i + 1] /\ i + 1 - 1 = i
  BY <1>1
<1>3. k \in B \cup {s[j].seq : j \in 1 .. i}
  BY <1>2 DEF Follows
<1>4. ASSUME NEW j \in 1 .. i, k = s[j].seq PROVE k \in C \cup {Tail(s)[m].seq : m \in 1 .. (i - 1)}
  <2>1. CASE j = 1
    BY <1>1, <1>4, <2>1
  <2>2. CASE j # 1
    <3>1. j - 1 \in 1 .. (i - 1) /\ j - 1 \in 1 .. Len(Tail(s)) /\ j - 1 + 1 = j
      BY <1>1, <1>2, <2>2
    <3>2. Tail(s)[j - 1] = s[j]
      BY <1>1, <3>1
    <3> QED BY <1>4, <3>1, <3>2
  <2> QED BY <2>1, <2>2
<1> QED BY <1>3, <1>4

\* Nor have two, if the second follows the first.
LEMMA FollowsJoined ==
  ASSUME NEW s \in Seq(Listed), NEW t \in Seq(Listed), NEW B,
         Follows(B, s), Follows(B \cup SeqsOf(s), t)
  PROVE  Follows(B, s \o t)
<1> SUFFICES ASSUME NEW i \in DOMAIN (s \o t), NEW k \in 1 .. ((s \o t)[i].seq - 1)
             PROVE  k \in B \cup {(s \o t)[j].seq : j \in 1 .. (i - 1)}
  BY DEF Follows
<1>1. /\ Len(s) \in Nat /\ Len(t) \in Nat /\ DOMAIN s = 1 .. Len(s) /\ DOMAIN t = 1 .. Len(t)
      /\ DOMAIN (s \o t) = 1 .. Len(s) + Len(t)
      /\ \A j \in 1 .. Len(s) + Len(t) :
           (s \o t)[j] = IF j <= Len(s) THEN s[j] ELSE t[j - Len(s)]
  BY LenProperties, ConcatProperties
<1>2. CASE i <= Len(s)
  <2>1. i \in DOMAIN s /\ (s \o t)[i] = s[i]
    BY <1>1, <1>2
  <2>2. k \in B \cup {s[j].seq : j \in 1 .. (i - 1)}
    BY <2>1 DEF Follows
  <2>3. \A j \in 1 .. (i - 1) : (s \o t)[j] = s[j]
    BY <1>1, <2>1
  <2> QED BY <2>2, <2>3
<1>3. CASE ~ i <= Len(s)
  <2>1. i - Len(s) \in DOMAIN t /\ (s \o t)[i] = t[i - Len(s)]
    BY <1>1, <1>3
  <2>2. k \in B \cup SeqsOf(s) \cup {t[j].seq : j \in 1 .. (i - Len(s) - 1)}
    BY <2>1 DEF Follows
  <2>3. ASSUME k \in SeqsOf(s) PROVE k \in {(s \o t)[j].seq : j \in 1 .. (i - 1)}
    <3>1. PICK j \in DOMAIN s : k = s[j].seq
      BY <2>3 DEF SeqsOf
    <3>2. j \in 1 .. (i - 1) /\ (s \o t)[j] = s[j]
      BY <1>1, <1>3
    <3> QED BY <3>1, <3>2
  <2>4. ASSUME NEW j \in 1 .. (i - Len(s) - 1), k = t[j].seq
        PROVE  k \in {(s \o t)[m].seq : m \in 1 .. (i - 1)}
    <3>1. j + Len(s) \in 1 .. (i - 1) /\ (s \o t)[j + Len(s)] = t[j]
      BY <1>1, <1>3
    <3> QED BY <2>4, <3>1
  <2> QED BY <2>2, <2>3, <2>4
<1> QED BY <1>2, <1>3

\* Nor has a sequence with one more event, if it follows the others.
LEMMA FollowsAppend ==
  ASSUME NEW s \in Seq(Listed), NEW e \in Listed, NEW B, Follows(B, s),
         \A k \in 1 .. (e.seq - 1) : k \in B \cup SeqsOf(s)
  PROVE  Follows(B, Append(s, e))
<1> SUFFICES ASSUME NEW i \in DOMAIN Append(s, e), NEW k \in 1 .. (Append(s, e)[i].seq - 1)
             PROVE  k \in B \cup {Append(s, e)[j].seq : j \in 1 .. (i - 1)}
  BY DEF Follows
<1>1. /\ Len(s) \in Nat /\ DOMAIN s = 1 .. Len(s) /\ DOMAIN Append(s, e) = 1 .. Len(s) + 1
      /\ Append(s, e)[Len(s) + 1] = e /\ \A j \in 1 .. Len(s) : Append(s, e)[j] = s[j]
  BY LenProperties
<1>2. CASE i = Len(s) + 1
  <2>1. k \in B \cup SeqsOf(s) /\ i - 1 = Len(s)
    BY <1>1, <1>2
  <2>2. SeqsOf(s) = {Append(s, e)[j].seq : j \in 1 .. (i - 1)}
    BY <1>1, <2>1 DEF SeqsOf
  <2> QED BY <2>1, <2>2
<1>3. CASE i # Len(s) + 1
  <2>1. i \in DOMAIN s /\ Append(s, e)[i] = s[i]
    BY <1>1, <1>3
  <2>2. k \in B \cup {s[j].seq : j \in 1 .. (i - 1)}
    BY <2>1 DEF Follows
  <2>3. \A j \in 1 .. (i - 1) : Append(s, e)[j] = s[j]
    BY <1>1, <2>1
  <2> QED BY <2>2, <2>3
<1> QED BY <1>2, <1>3

\* A replay that leaves out nothing above h leaves out nothing.
LEMMA FollowsKept ==
  ASSUME NEW s \in Seq(Listed), NEW h \in Ids, NEW S \in SUBSET DOMAIN s, Follows({}, s),
         \A i \in DOMAIN s : s[i].seq > h /\ s[i].seq >= 1 => i \in S
  PROVE  Follows(1 .. h, Kept(s, S))
<1> SUFFICES ASSUME NEW l \in DOMAIN Kept(s, S), NEW k \in 1 .. (Kept(s, S)[l].seq - 1)
             PROVE  k \in (1 .. h) \cup {Kept(s, S)[m].seq : m \in 1 .. (l - 1)}
  BY DEF Follows
<1>1. DOMAIN s = 1 .. Len(s) /\ Len(s) \in Nat
  BY LenProperties
<1>2. DOMAIN Kept(s, S) = 1 .. Len(Kept(s, S)) /\ Len(Kept(s, S)) \in Nat
  BY KeptIs, LenProperties
<1>3. /\ Nth(S, l) \in S /\ Nth(S, l) \in DOMAIN s /\ Nth(S, l) \in Nat
      /\ Kept(s, S)[l] = s[Nth(S, l)]
  BY <1>1, KeptIs
<1>4. PICK j \in 1 .. (Nth(S, l) - 1) : k = s[j].seq
  BY <1>3 DEF Follows
<1>5. j \in DOMAIN s /\ j < Nth(S, l) /\ k >= 1 /\ k \in Nat /\ h \in Int
  BY <1>1, <1>3, IdsAre
<1>6. CASE k <= h
  BY <1>5, <1>6
<1>7. CASE ~ k <= h
  <2>1. j \in S
    BY <1>4, <1>5, <1>7
  <2>2. PICK m \in DOMAIN Kept(s, S) : Nth(S, m) = j
    BY <2>1, KeptIs
  <2>3. Kept(s, S)[m].seq = k
    BY <1>4, <2>2, KeptIs
  <2>4. m \in 1 .. (l - 1)
    <3> SUFFICES ASSUME ~ m < l PROVE FALSE
      BY <1>2, <2>2
    <3>1. CASE m = l
      BY <1>5, <2>2, <3>1
    <3>2. CASE m # l
      <4>1. l \in 1 .. (m - 1)
        BY <1>2, <3>2
      <4>2. Nth(S, l) < Nth(S, m)
        BY <4>1, KeptIs
      <4> QED BY <1>3, <1>5, <2>2, <4>2
    <3> QED BY <3>1, <3>2
  <2> QED BY <2>3, <2>4
<1> QED BY <1>6, <1>7

\* The positions the second replay goes over.
Raising(s, h) ==
  {i \in DOMAIN s : /\ s[i].type # QueuedType /\ s[i].seq > h
                    /\ \A j \in 1 .. (i - 1) : s[j].seq < s[i].seq}

\* What the filter of the second replay and of the live handler lets through.
LEMMA NewerIs ==
  ASSUME NEW s \in Seq(Listed), NEW h \in Ids
  PROVE  /\ NewerThan(s, h) = Kept(s, Raising(s, h)) /\ Raising(s, h) \in SUBSET DOMAIN s
         /\ NewerThan(s, h) \in Seq(Listed)
         /\ \A i \in DOMAIN NewerThan(s, h) :
              /\ NewerThan(s, h)[i].type # QueuedType /\ NewerThan(s, h)[i].seq > h
              /\ \A j \in 1 .. (i - 1) : NewerThan(s, h)[j].seq < NewerThan(s, h)[i].seq
<1> DEFINE S == Raising(s, h)
<1>1. NewerThan(s, h) = Kept(s, S) /\ S \in SUBSET DOMAIN s
  BY DEF NewerThan, Raising
<1>2. DOMAIN s = 1 .. Len(s) /\ Len(s) \in Nat
  BY LenProperties
<1>3. DOMAIN Kept(s, S) = 1 .. Len(Kept(s, S)) /\ Kept(s, S) \in Seq(Listed)
  BY <1>1, KeptIs, LenProperties
<1>4. ASSUME NEW l \in DOMAIN Kept(s, S)
      PROVE  /\ Kept(s, S)[l].type # QueuedType /\ Kept(s, S)[l].seq > h
             /\ \A k \in 1 .. (l - 1) : Kept(s, S)[k].seq < Kept(s, S)[l].seq
  <2>1. Nth(S, l) \in S /\ Kept(s, S)[l] = s[Nth(S, l)] /\ Nth(S, l) \in Nat
    BY <1>1, <1>2, KeptIs
  <2>2. ASSUME NEW k \in 1 .. (l - 1) PROVE Kept(s, S)[k].seq < Kept(s, S)[l].seq
    <3>1. k \in DOMAIN Kept(s, S) /\ Nth(S, k) < Nth(S, l)
      BY <1>1, KeptIs
    <3>2. Nth(S, k) \in S /\ Kept(s, S)[k] = s[Nth(S, k)]
      BY <1>1, <3>1, KeptIs
    <3>3. Nth(S, k) \in 1 .. (Nth(S, l) - 1)
      BY <1>1, <1>2, <2>1, <3>1, <3>2
    <3> QED BY <2>1, <3>2, <3>3 DEF Raising
  <2> QED BY <2>1, <2>2 DEF Raising
<1> QED BY <1>1, <1>3, <1>4

\* If no number is missing from the list, none above h is missing from what the
\* second replay writes.
LEMMA FollowsNewer ==
  ASSUME NEW s \in Seq(Listed), NEW h \in Ids, Follows({}, s)
  PROVE  Follows(1 .. h, NewerThan(s, h))
<1> DEFINE S == Raising(s, h)
<1>1. NewerThan(s, h) = Kept(s, S) /\ S \in SUBSET DOMAIN s
  BY NewerIs
<1>2. DOMAIN s = 1 .. Len(s) /\ Len(s) \in Nat /\ h \in Int
  BY LenProperties, IdsAre
<1>3. DOMAIN Kept(s, S) = 1 .. Len(Kept(s, S)) /\ Len(Kept(s, S)) \in Nat
  BY <1>1, KeptIs, LenProperties
<1> SUFFICES ASSUME NEW l \in DOMAIN Kept(s, S), NEW k \in 1 .. (Kept(s, S)[l].seq - 1), ~ k <= h
             PROVE  k \in {Kept(s, S)[m].seq : m \in 1 .. (l - 1)}
  <2>1. \A l \in DOMAIN Kept(s, S) : \A k \in 1 .. (Kept(s, S)[l].seq - 1) :
          k <= h => k \in 1 .. h
    BY <1>2
  <2> HIDE DEF S
  <2> QED BY <1>1, <2>1 DEF Follows
<1>4. Nth(S, l) \in S /\ Kept(s, S)[l] = s[Nth(S, l)] /\ Nth(S, l) \in Nat /\ Nth(S, l) \in DOMAIN s
  BY <1>1, <1>2, KeptIs
<1>5. k >= 1 /\ k \in Nat
  OBVIOUS
<1> DEFINE J == {j \in 1 .. (Nth(S, l) - 1) : s[j].seq = k}
<1>6. J # {} /\ J \in SUBSET Nat
  <2>1. k \in 1 .. (s[Nth(S, l)].seq - 1)
    BY <1>4
  <2> HIDE DEF S
  <2>2. k \in {s[j].seq : j \in 1 .. (Nth(S, l) - 1)}
    BY <1>4, <2>1 DEF Follows
  <2> QED BY <2>2
<1>7. PICK i \in J : \A j \in J : i <= j
  <2> HIDE DEF J
  <2> QED BY <1>6, LeastNatural
<1>8. i \in DOMAIN s /\ i < Nth(S, l) /\ s[i].seq = k /\ i \in Nat
  BY <1>2, <1>4
<1>9. ASSUME NEW j \in 1 .. (i - 1) PROVE s[j].seq < k
  <2>1. j \in DOMAIN s /\ s[j].seq \in Nat /\ j < i /\ j \in 1 .. (Nth(S, l) - 1)
    BY <1>2, <1>4, <1>8, EntryIs
  <2>2. s[j].seq # k
    <3> SUFFICES ASSUME s[j].seq = k PROVE FALSE
      OBVIOUS
    <3>1. j \in J
      BY <2>1
    <3>2. i <= j
      BY <1>7, <3>1
    <3> QED BY <1>8, <2>1, <3>2
  <2>3. ~ s[j].seq > k
    <3> SUFFICES ASSUME s[j].seq > k PROVE FALSE
      OBVIOUS
    <3>1. k \in 1 .. (s[j].seq - 1)
      BY <1>5, <2>1
    <3>2. PICK m \in 1 .. (j - 1) : s[m].seq = k
      BY <2>1, <3>1 DEF Follows
    <3>3. m \in J /\ m < i
      <4>1. m \in 1 .. (Nth(S, l) - 1) /\ m < i
        BY <1>4, <1>8, <2>1
      <4> QED BY <3>2, <4>1
    <3>4. i <= m
      BY <1>7, <3>3
    <3> QED BY <1>8, <2>1, <3>3, <3>4
  <2> QED BY <1>5, <2>1, <2>2, <2>3
<1>10. i \in S
  <2>1. s[i].type # QueuedType
    BY <1>5, <1>8, EntryIs, ListedIs
  <2>2. s[i].seq > h
    BY <1>2, <1>5, <1>8
  <2> QED BY <1>8, <1>9, <2>1, <2>2 DEF Raising
<1>11. PICK m \in DOMAIN Kept(s, S) : Nth(S, m) = i
  BY <1>1, <1>10, KeptIs
<1>12. Kept(s, S)[m].seq = k
  BY <1>1, <1>8, <1>11, KeptIs
<1>13. m \in 1 .. (l - 1)
  <2> SUFFICES ASSUME ~ m < l PROVE FALSE
    BY <1>3, <1>11
  <2>1. CASE m = l
    BY <1>4, <1>8, <1>11, <2>1
  <2>2. CASE m # l
    <3>1. l \in 1 .. (m - 1)
      BY <1>3, <2>2
    <3>2. Nth(S, l) < Nth(S, m)
      BY <1>1, <3>1, KeptIs
    <3> QED BY <1>4, <1>8, <1>11, <3>2
  <2> QED BY <2>1, <2>2
<1> QED BY <1>12, <1>13

\* What is kept of a sequence in order is in order.
LEMMA InOrderKept ==
  ASSUME NEW s \in Seq(Listed), NEW S \in SUBSET DOMAIN s, InOrder(s)
  PROVE  InOrder(Kept(s, S))
<1>1. DOMAIN s = 1 .. Len(s) /\ Len(s) \in Nat
  BY LenProperties
<1> SUFFICES ASSUME NEW l \in DOMAIN Kept(s, S), NEW k \in 1 .. (l - 1),
                    Kept(s, S)[l].type # QueuedType,
                    Kept(s, S)[k].attempt = Kept(s, S)[l].attempt
             PROVE  Kept(s, S)[k].seq < Kept(s, S)[l].seq
  BY DEF InOrder
<1>2. k \in DOMAIN Kept(s, S) /\ Nth(S, k) < Nth(S, l)
  BY KeptIs
<1>3. /\ Nth(S, k) \in DOMAIN s /\ Kept(s, S)[k] = s[Nth(S, k)]
      /\ Nth(S, l) \in DOMAIN s /\ Kept(s, S)[l] = s[Nth(S, l)]
  BY <1>2, KeptIs
<1>4. Nth(S, k) \in 1 .. (Nth(S, l) - 1)
  BY <1>1, <1>2, <1>3
<1> QED BY <1>3, <1>4 DEF InOrder

\* Numbers of a sequence, of its head and its rest, of two joined.
LEMMA SeqsOfParts ==
  ASSUME NEW s \in Seq(Listed)
  PROVE  /\ SeqsOf(s) \subseteq Nat /\ SeqsOf(<<>>) = {}
         /\ s # <<>> => SeqsOf(s) = {Head(s).seq} \cup SeqsOf(Tail(s))
         /\ \A t \in Seq(Listed) : SeqsOf(s \o t) = SeqsOf(s) \cup SeqsOf(t)
         /\ \A t \in Seq(Listed) : Begins(s, t) => SeqsOf(s) \subseteq SeqsOf(t)
<1>1. SeqsOf(s) \subseteq Nat
  BY EntryIs DEF SeqsOf
<1>2. SeqsOf(<<>>) = {}
  BY NothingIs DEF SeqsOf
<1>3. ASSUME s # <<>> PROVE SeqsOf(s) = {Head(s).seq} \cup SeqsOf(Tail(s))
  <2>1. /\ Tail(s) \in Seq(Listed) /\ Len(Tail(s)) = Len(s) - 1 /\ Len(s) \in Nat /\ Len(s) # 0
        /\ DOMAIN s = 1 .. Len(s) /\ DOMAIN Tail(s) = 1 .. Len(Tail(s)) /\ Head(s) = s[1]
        /\ \A j \in 1 .. Len(Tail(s)) : Tail(s)[j] = s[j + 1]
    BY <1>3, LenProperties, HeadTailProperties, EmptySeq
  <2>2. ASSUME NEW i \in DOMAIN s PROVE s[i].seq \in {Head(s).seq} \cup SeqsOf(Tail(s))
    <3>1. CASE i = 1
      BY <2>1, <3>1
    <3>2. CASE i # 1
      <4>1. i - 1 \in DOMAIN Tail(s) /\ i - 1 + 1 = i
        BY <2>1, <3>2
      <4>2. Tail(s)[i - 1] = s[i]
        BY <2>1, <4>1
      <4> QED BY <4>1, <4>2 DEF SeqsOf
    <3> QED BY <3>1, <3>2
  <2>3. ASSUME NEW j \in DOMAIN Tail(s) PROVE Tail(s)[j].seq \in SeqsOf(s)
    <3>1. j + 1 \in DOMAIN s /\ Tail(s)[j] = s[j + 1]
      BY <2>1
    <3> QED BY <3>1 DEF SeqsOf
  <2>4. Head(s).seq \in SeqsOf(s)
    BY <1>3, <2>1, TailIs DEF SeqsOf
  <2>5. SeqsOf(Tail(s)) \subseteq SeqsOf(s)
    BY <2>3 DEF SeqsOf
  <2>6. SeqsOf(s) \subseteq {Head(s).seq} \cup SeqsOf(Tail(s))
    <3> SUFFICES ASSUME NEW x \in SeqsOf(s) PROVE x \in {Head(s).seq} \cup SeqsOf(Tail(s))
      OBVIOUS
    <3>1. PICK i \in DOMAIN s : x = s[i].seq
      BY DEF SeqsOf
    <3> QED BY <2>2, <3>1
  <2> QED BY <2>4, <2>5, <2>6
<1>4. ASSUME NEW t \in Seq(Listed) PROVE SeqsOf(s \o t) = SeqsOf(s) \cup SeqsOf(t)
  <2>1. /\ \A i \in DOMAIN s : i \in DOMAIN (s \o t) /\ (s \o t)[i] = s[i]
        /\ \A i \in DOMAIN t : i + Len(s) \in DOMAIN (s \o t) /\ (s \o t)[i + Len(s)] = t[i]
        /\ \A i \in DOMAIN (s \o t) :
             \/ i \in DOMAIN s /\ (s \o t)[i] = s[i]
             \/ i - Len(s) \in DOMAIN t /\ (s \o t)[i] = t[i - Len(s)]
    BY JoinedIs
  <2> DEFINE w == s \o t
  <2>2. \A i \in DOMAIN s : s[i].seq \in SeqsOf(w)
    BY <2>1 DEF SeqsOf
  <2>3. \A i \in DOMAIN t : t[i].seq \in SeqsOf(w)
    BY <2>1 DEF SeqsOf
  <2>4. \A i \in DOMAIN w : w[i].seq \in SeqsOf(s) \cup SeqsOf(t)
    BY <2>1 DEF SeqsOf
  <2> HIDE DEF w
  <2>5. SeqsOf(w) = SeqsOf(s) \cup SeqsOf(t)
    BY <2>2, <2>3, <2>4 DEF SeqsOf
  <2> QED BY <2>5 DEF w
<1>5. ASSUME NEW t \in Seq(Listed), Begins(s, t) PROVE SeqsOf(s) \subseteq SeqsOf(t)
  BY <1>5 DEF Begins, SeqsOf
<1> QED BY <1>1, <1>2, <1>3, <1>4, <1>5

\* Numbers start from 1, so that a 0 beforehand says nothing.
LEMMA FollowsMore ==
  ASSUME NEW s \in Seq(Listed), NEW B, NEW C, Follows(B, s),
         \A k \in B : k \in Nat \ {0} => k \in C
  PROVE  Follows(C, s)
<1> SUFFICES ASSUME NEW i \in DOMAIN s, NEW k \in 1 .. (s[i].seq - 1)
             PROVE  k \in C \cup {s[j].seq : j \in 1 .. (i - 1)}
  BY DEF Follows
<1>1. k \in B \cup {s[j].seq : j \in 1 .. (i - 1)}
  BY DEF Follows
<1>2. k \in Nat \ {0}
  BY EntryIs
<1> QED BY <1>1, <1>2

\* A sequence each of whose events follows what was before it.
LEMMA FollowsAll ==
  ASSUME NEW s \in Seq(Listed), NEW B, \A i \in DOMAIN s : \A k \in 1 .. (s[i].seq - 1) : k \in B
  PROVE  Follows(B, s)
  BY DEF Follows

\* An empty sequence follows anything.
LEMMA FollowsNothing == \A B : Follows(B, <<>>)
  BY NothingIs DEF Follows

\* What the first event of a sequence follows.
LEMMA FollowsFirst ==
  ASSUME NEW s \in Seq(Listed), NEW B, Follows(B, s), s # <<>>
  PROVE  \A k \in 1 .. (Head(s).seq - 1) : k \in B
<1>1. 1 \in DOMAIN s /\ Head(s) = s[1]
  BY TailIs
<1>2. {s[j].seq : j \in 1 .. (1 - 1)} = {}
  OBVIOUS
<1> QED BY <1>1, <1>2 DEF Follows

\* What the last event of a sequence follows.
LEMMA FollowsLast ==
  ASSUME NEW s \in Seq(Listed), NEW e \in Listed, NEW B, Follows(B, Append(s, e))
  PROVE  \A k \in 1 .. (e.seq - 1) : k \in B \cup SeqsOf(s)
<1>1. /\ Len(s) \in Nat /\ DOMAIN s = 1 .. Len(s) /\ DOMAIN Append(s, e) = 1 .. Len(s) + 1
      /\ Append(s, e)[Len(s) + 1] = e /\ \A j \in 1 .. Len(s) : Append(s, e)[j] = s[j]
  BY LenProperties
<1> DEFINE t == Append(s, e)
           n == Len(s) + 1
<1>2. n \in DOMAIN t /\ t[n] = e
  BY <1>1
<1>3. {t[j].seq : j \in 1 .. (n - 1)} = SeqsOf(s)
  BY <1>1 DEF SeqsOf
<1> HIDE DEF t, n
<1>4. \A k \in 1 .. (t[n].seq - 1) : k \in B \cup {t[j].seq : j \in 1 .. (n - 1)}
  BY <1>2 DEF Follows, t
<1> QED BY <1>2, <1>3, <1>4

\* A sequence follows what its first event follows, if its rest does with it.
LEMMA FollowsPrefixed ==
  ASSUME NEW s \in Seq(Listed), NEW B, s # <<>>,
         \A k \in 1 .. (Head(s).seq - 1) : k \in B, Follows(B \cup {Head(s).seq}, Tail(s))
  PROVE  Follows(B, s)
<1> SUFFICES ASSUME NEW i \in DOMAIN s, NEW k \in 1 .. (s[i].seq - 1)
             PROVE  k \in B \cup {s[j].seq : j \in 1 .. (i - 1)}
  BY DEF Follows
<1>1. /\ Tail(s) \in Seq(Listed) /\ Len(Tail(s)) = Len(s) - 1 /\ Len(s) \in Nat /\ Len(s) # 0
      /\ DOMAIN s = 1 .. Len(s) /\ DOMAIN Tail(s) = 1 .. Len(Tail(s)) /\ Head(s) = s[1]
      /\ \A j \in 1 .. Len(Tail(s)) : Tail(s)[j] = s[j + 1]
  BY LenProperties, HeadTailProperties, EmptySeq
<1>2. CASE i = 1
  BY <1>1, <1>2
<1>3. CASE i # 1
  <2>1. PICK m \in DOMAIN Tail(s) : i = m + 1
    <3>1. i - 1 \in DOMAIN Tail(s) /\ i = i - 1 + 1
      BY <1>1, <1>3
    <3> QED BY <3>1
  <2>2. Tail(s)[m] = s[i] /\ m \in Nat /\ m >= 1
    BY <1>1, <2>1
  <2>3. k \in B \cup {Head(s).seq} \cup {Tail(s)[j].seq : j \in 1 .. (m - 1)}
    BY <2>1, <2>2 DEF Follows
  <2>4. ASSUME k = Head(s).seq PROVE k \in {s[j].seq : j \in 1 .. (i - 1)}
    <3>1. 1 \in 1 .. (i - 1)
      BY <2>1, <2>2
    <3> QED BY <1>1, <2>4, <3>1
  <2>5. ASSUME NEW j \in 1 .. (m - 1), k = Tail(s)[j].seq PROVE k \in {s[l].seq : l \in 1 .. (i - 1)}
    <3>1. j \in 1 .. Len(Tail(s)) /\ j + 1 \in 1 .. (i - 1)
      BY <1>1, <2>1, <2>2
    <3> QED BY <1>1, <2>5, <3>1
  <2> QED BY <2>3, <2>4, <2>5
<1> QED BY <1>2, <1>3

\* Below the highest number of a sequence without a gap nothing is missing.
LEMMA FollowsTop ==
  ASSUME NEW s \in Seq(Listed), NEW B, NEW h, NEW top, Follows(B, s),
         \A k \in 1 .. h : k \in B, top \in SeqsOf(s) \cup {h}
  PROVE  \A k \in 1 .. top : k \in B \cup SeqsOf(s)
<1>1. CASE top = h
  BY <1>1
<1>2. CASE top \in SeqsOf(s)
  <2>1. PICK i \in DOMAIN s : top = s[i].seq
    BY <1>2 DEF SeqsOf
  <2>2. top \in Nat /\ DOMAIN s = 1 .. Len(s) /\ Len(s) \in Nat
    BY <2>1, EntryIs, LenProperties
  <2>3. ASSUME NEW k \in 1 .. top, k # top PROVE k \in B \cup SeqsOf(s)
    <3>1. k \in 1 .. (s[i].seq - 1)
      BY <2>1, <2>2, <2>3
    <3>2. k \in B \cup {s[j].seq : j \in 1 .. (i - 1)}
      BY <3>1 DEF Follows
    <3>3. \A j \in 1 .. (i - 1) : j \in DOMAIN s
      BY <2>2
    <3> QED BY <3>2, <3>3 DEF SeqsOf
  <2> QED BY <1>2, <2>3
<1> QED BY <1>1, <1>2

\* No number of the entries is above the highest one the filter has let through.
LEMMA NewerTop ==
  ASSUME NEW s \in Seq(Listed), NEW h \in Ids
  PROVE  \A k \in SeqsOf(s) : k # 0 => k <= HighestOf(NewerThan(s, h), h)
<1> DEFINE top == HighestOf(NewerThan(s, h), h)
           above == {i \in DOMAIN s : s[i].seq > top /\ s[i].seq >= 1}
<1>1. /\ NewerThan(s, h) \in Seq(Listed) /\ NewerThan(s, h) = Kept(s, Raising(s, h))
      /\ Raising(s, h) \in SUBSET DOMAIN s
  BY NewerIs
<1>2. /\ top \in Ids /\ h <= top
      /\ \A i \in DOMAIN NewerThan(s, h) : NewerThan(s, h)[i].seq <= top
  BY <1>1, HighestIs
<1>3. DOMAIN s = 1 .. Len(s) /\ Len(s) \in Nat /\ top \in Int /\ h \in Int
  BY <1>2, IdsAre, LenProperties
<1> HIDE DEF top
<1>4. \A i \in DOMAIN s : s[i].seq \in Nat
  BY EntryIs
<1>5. above = {}
  <2> SUFFICES ASSUME above # {} PROVE FALSE
    OBVIOUS
  <2>1. above \in SUBSET Nat
    BY <1>3
  <2>2. PICK i \in above : \A j \in above : i <= j
    <3> HIDE DEF above
    <3> QED BY <2>1, LeastNatural
  <2>3. i \in DOMAIN s /\ s[i].seq > top /\ s[i].seq >= 1 /\ s[i].seq > h
    BY <1>2, <1>3, <1>4, <2>2
  <2>4. ASSUME NEW j \in 1 .. (i - 1) PROVE s[j].seq < s[i].seq
    <3>1. j \in DOMAIN s /\ j < i /\ s[j].seq \in Nat
      BY <1>3, <1>4, <2>3, <2>4
    <3>2. j \notin above
      BY <1>3, <2>1, <2>2, <3>1
    <3>3. ~ s[j].seq > top \/ ~ s[j].seq >= 1
      BY <3>1, <3>2
    <3> QED BY <1>3, <1>4, <2>3, <3>1, <3>3
  <2>5. s[i].type # QueuedType
    BY <2>3, EntryIs, ListedIs
  <2>6. i \in Raising(s, h)
    BY <2>3, <2>4, <2>5 DEF Raising
  <2>7. \E k \in DOMAIN NewerThan(s, h) : Nth(Raising(s, h), k) = i /\ NewerThan(s, h)[k] = s[i]
    BY <1>1, <2>6, KeptIs
  <2>8. s[i].seq <= top
    BY <1>2, <2>7
  <2> QED BY <1>3, <1>4, <2>3, <2>8
<1>6. \A i \in DOMAIN s : s[i].seq # 0 => s[i].seq <= top
  BY <1>3, <1>4, <1>5
<1> QED BY <1>6 DEF SeqsOf, top

\* The head of the one sequence passes to the end of the other, or is dropped.
LEMMA JoinedShifts ==
  ASSUME NEW s \in Seq(Listed), NEW t \in Seq(Listed)
  PROVE  /\ t # <<>> => Append(s, Head(t)) \o Tail(t) = s \o t
         /\ s # <<>> => s \o t # <<>> /\ Head(s \o t) = Head(s) /\ Tail(s \o t) = Tail(s) \o t
<1>1. /\ Len(s) \in Nat /\ Len(t) \in Nat /\ DOMAIN s = 1 .. Len(s) /\ DOMAIN t = 1 .. Len(t)
      /\ s \o t \in Seq(Listed) /\ Len(s \o t) = Len(s) + Len(t)
      /\ \A j \in 1 .. Len(s) + Len(t) :
           (s \o t)[j] = IF j <= Len(s) THEN s[j] ELSE t[j - Len(s)]
  BY LenProperties, ConcatProperties
<1>2. ASSUME t # <<>> PROVE Append(s, Head(t)) \o Tail(t) = s \o t
  <2> DEFINE a == Append(s, Head(t))
             l == a \o Tail(t)
  <2>1. /\ Head(t) \in Listed /\ Head(t) = t[1] /\ Tail(t) \in Seq(Listed)
        /\ Len(Tail(t)) = Len(t) - 1 /\ Len(t) >= 1
        /\ \A i \in 1 .. Len(Tail(t)) : Tail(t)[i] = t[i + 1]
    <3>1. Len(t) # 0
      BY <1>2, EmptySeq
    <3> QED BY <1>1, <1>2, <3>1, HeadTailProperties
  <2>2. /\ a \in Seq(Listed) /\ Len(a) = Len(s) + 1 /\ a[Len(s) + 1] = t[1]
        /\ \A j \in 1 .. Len(s) : a[j] = s[j]
    BY <1>1, <2>1
  <2> HIDE DEF a
  <2>3. /\ l \in Seq(Listed) /\ Len(l) = Len(a) + Len(Tail(t))
        /\ \A j \in 1 .. Len(a) + Len(Tail(t)) :
             l[j] = IF j <= Len(a) THEN a[j] ELSE Tail(t)[j - Len(a)]
    BY <2>1, <2>2, ConcatProperties
  <2> HIDE DEF l
  <2>4. Len(l) = Len(s \o t)
    BY <1>1, <2>1, <2>2, <2>3
  <2>5. ASSUME NEW j \in 1 .. Len(l) PROVE l[j] = (s \o t)[j]
    <3>1. j \in 1 .. Len(s) + Len(t) /\ j \in 1 .. Len(a) + Len(Tail(t)) /\ j \in Nat
      BY <1>1, <2>3, <2>4, <2>5
    <3>2. CASE j <= Len(s)
      <4>1. j <= Len(a) /\ j \in 1 .. Len(s)
        BY <1>1, <2>2, <3>1, <3>2
      <4>2. l[j] = a[j] /\ a[j] = s[j]
        BY <2>2, <2>3, <3>1, <4>1
      <4> QED BY <1>1, <3>1, <3>2, <4>2
    <3>3. CASE j = Len(s) + 1
      <4>1. l[j] = t[1]
        <5>1. j <= Len(a) /\ j = Len(s) + 1
          BY <1>1, <2>2, <3>3
        <5>2. l[j] = a[j]
          BY <2>3, <3>1, <5>1
        <5> QED BY <2>2, <5>1, <5>2
      <4>2. ~ j <= Len(s) /\ j - Len(s) = 1
        BY <1>1, <3>3
      <4> QED BY <1>1, <3>1, <4>1, <4>2
    <3>4. CASE j > Len(s) + 1
      <4>1. ~ j <= Len(a) /\ j - Len(a) \in 1 .. Len(Tail(t)) /\ ~ j <= Len(s)
            /\ j - Len(a) + 1 = j - Len(s)
        BY <1>1, <2>1, <2>2, <3>1, <3>4
      <4>2. l[j] = t[j - Len(a) + 1]
        BY <2>1, <2>3, <3>1, <4>1
      <4> QED BY <1>1, <3>1, <4>1, <4>2
    <3> QED BY <1>1, <3>1, <3>2, <3>3, <3>4
  <2>6. l = s \o t
    BY <1>1, <2>3, <2>4, <2>5, SeqEqual
  <2> QED BY <2>6 DEF l, a
<1>3. ASSUME s # <<>> PROVE s \o t # <<>> /\ Head(s \o t) = Head(s) /\ Tail(s \o t) = Tail(s) \o t
  <2>1. /\ Head(s) = s[1] /\ Tail(s) \in Seq(Listed)
        /\ Len(Tail(s)) = Len(s) - 1 /\ Len(s) >= 1
        /\ \A i \in 1 .. Len(Tail(s)) : Tail(s)[i] = s[i + 1]
    <3>1. Len(s) # 0
      BY <1>3, EmptySeq
    <3> QED BY <1>1, <1>3, <3>1, HeadTailProperties
  <2>2. s \o t # <<>>
    <3>1. Len(s \o t) # 0
      BY <1>1, <2>1
    <3> QED BY <1>1, <3>1, EmptySeq
  <2> DEFINE w == s \o t
             r == Tail(s) \o t
  <2>3. /\ Head(w) = w[1] /\ Tail(w) \in Seq(Listed) /\ Len(Tail(w)) = Len(w) - 1
        /\ \A i \in 1 .. Len(Tail(w)) : Tail(w)[i] = w[i + 1]
    <3> HIDE DEF w
    <3>1. w \in Seq(Listed) /\ w # <<>>
      BY <1>1, <2>2 DEF w
    <3> QED BY <3>1, HeadTailProperties
  <2>4. /\ r \in Seq(Listed) /\ Len(r) = Len(Tail(s)) + Len(t)
        /\ \A j \in 1 .. Len(Tail(s)) + Len(t) :
             r[j] = IF j <= Len(Tail(s)) THEN Tail(s)[j] ELSE t[j - Len(Tail(s))]
    BY <2>1, ConcatProperties
  <2>5. w[1] = s[1]
    BY <1>1, <2>1
  <2>6. Len(w) = Len(s) + Len(t) /\ \A j \in 1 .. Len(s) + Len(t) :
           w[j] = IF j <= Len(s) THEN s[j] ELSE t[j - Len(s)]
    BY <1>1
  <2> HIDE DEF w, r
  <2>7. Len(Tail(w)) = Len(r)
    BY <1>1, <2>1, <2>3, <2>4, <2>6
  <2>8. ASSUME NEW j \in 1 .. Len(r) PROVE Tail(w)[j] = r[j]
    <3>1. Tail(w)[j] = w[j + 1] /\ j + 1 \in 1 .. Len(s) + Len(t) /\ j \in 1 .. Len(Tail(s)) + Len(t)
      BY <1>1, <2>1, <2>3, <2>4, <2>7, <2>8
    <3>2. CASE j <= Len(Tail(s))
      <4>1. j + 1 <= Len(s) /\ j \in 1 .. Len(Tail(s))
        BY <1>1, <2>1, <3>1, <3>2
      <4>2. w[j + 1] = s[j + 1] /\ r[j] = Tail(s)[j]
        BY <2>4, <2>6, <3>1, <3>2, <4>1
      <4> QED BY <2>1, <3>1, <4>1, <4>2
    <3>3. CASE ~ j <= Len(Tail(s))
      <4>1. ~ j + 1 <= Len(s) /\ j + 1 - Len(s) = j - Len(Tail(s))
        BY <1>1, <2>1, <3>1, <3>3
      <4>2. w[j + 1] = t[j + 1 - Len(s)]
        BY <2>6, <3>1, <4>1
      <4>3. r[j] = t[j - Len(Tail(s))]
        BY <2>4, <3>1, <3>3
      <4> QED BY <3>1, <4>1, <4>2, <4>3
    <3> QED BY <3>2, <3>3
  <2>9. Tail(w) = r
    BY <2>3, <2>4, <2>7, <2>8, SeqEqual
  <2> QED BY <2>2, <2>3, <2>5, <2>9 DEF w, r
<1> QED BY <1>2, <1>3

\* Sequences that stay in order.
LEMMA InOrderAppend ==
  ASSUME NEW s \in Seq(Listed), NEW e \in Listed, InOrder(s),
         e.type # QueuedType =>
           \A i \in DOMAIN s : s[i].attempt = e.attempt => s[i].seq < e.seq
  PROVE  InOrder(Append(s, e))
<1>1. /\ Len(s) \in Nat /\ DOMAIN s = 1 .. Len(s) /\ DOMAIN Append(s, e) = 1 .. Len(s) + 1
      /\ Append(s, e)[Len(s) + 1] = e /\ \A j \in 1 .. Len(s) : Append(s, e)[j] = s[j]
  BY LenProperties
<1> DEFINE t == Append(s, e)
<1> HIDE DEF t
<1> SUFFICES ASSUME NEW j \in DOMAIN t, NEW i \in 1 .. (j - 1), t[j].type # QueuedType,
                    t[i].attempt = t[j].attempt
             PROVE  t[i].seq < t[j].seq
  BY DEF InOrder, t
<1>2. i \in DOMAIN s /\ t[i] = s[i] /\ i \in 1 .. (j - 1)
  BY <1>1 DEF t
<1>3. CASE j = Len(s) + 1
  BY <1>1, <1>2, <1>3 DEF t
<1>4. CASE j # Len(s) + 1
  <2>1. j \in DOMAIN s /\ t[j] = s[j]
    BY <1>1, <1>4 DEF t
  <2> QED BY <1>2, <2>1 DEF InOrder
<1> QED BY <1>3, <1>4

\* The rest of a sequence in order.
LEMMA InOrderTail ==
  ASSUME NEW s \in Seq(Listed), s # <<>>, InOrder(s)
  PROVE  InOrder(Tail(s)) /\ InOrder(<<>>)
<1>1. /\ Tail(s) \in Seq(Listed)
      /\ \A i \in DOMAIN Tail(s) : i \in Nat /\ i >= 1 /\ i + 1 \in DOMAIN s /\ Tail(s)[i] = s[i + 1]
  BY TailIs
<1>2. DOMAIN Tail(s) = 1 .. Len(Tail(s)) /\ Len(Tail(s)) \in Nat
  BY <1>1, LenProperties
<1>3. ASSUME NEW j \in DOMAIN Tail(s), NEW i \in 1 .. (j - 1), Tail(s)[j].type # QueuedType,
             Tail(s)[i].attempt = Tail(s)[j].attempt
      PROVE  Tail(s)[i].seq < Tail(s)[j].seq
  <2>1. i \in DOMAIN Tail(s) /\ i + 1 \in 1 .. (j + 1 - 1)
    BY <1>2, <1>3
  <2>2. j + 1 \in DOMAIN s /\ Tail(s)[j] = s[j + 1] /\ Tail(s)[i] = s[i + 1]
    BY <1>1, <1>3, <2>1
  <2> QED BY <1>3, <2>1, <2>2 DEF InOrder
<1>4. InOrder(<<>>)
  BY NothingIs DEF InOrder
<1> QED BY <1>3, <1>4 DEF InOrder

\* An earlier part of a sequence in order.
LEMMA InOrderPart ==
  ASSUME NEW s \in Seq(Listed), NEW p \in Seq(Listed), Begins(p, s), InOrder(s)
  PROVE  InOrder(p)
<1> SUFFICES ASSUME NEW j \in DOMAIN p, NEW i \in 1 .. (j - 1), p[j].type # QueuedType,
                    p[i].attempt = p[j].attempt
             PROVE  p[i].seq < p[j].seq
  BY DEF InOrder
<1>1. i \in DOMAIN p
  BY LenProperties
<1>2. i \in 1 .. (j - 1) /\ j \in DOMAIN s /\ p[i] = s[i] /\ p[j] = s[j]
  BY <1>1 DEF Begins
<1> QED BY <1>2 DEF InOrder

\* Two sequences, the numbers of the second rising above those of the first.
LEMMA InOrderJoined ==
  ASSUME NEW s \in Seq(Listed), NEW t \in Seq(Listed), InOrder(s),
         \A i \in DOMAIN t : /\ \A j \in DOMAIN s : s[j].seq < t[i].seq
                             /\ \A j \in 1 .. (i - 1) : t[j].seq < t[i].seq
  PROVE  InOrder(s \o t)
<1> DEFINE w == s \o t
<1> SUFFICES ASSUME NEW j \in DOMAIN w, NEW i \in 1 .. (j - 1), w[j].type # QueuedType,
                    w[i].attempt = w[j].attempt
             PROVE  w[i].seq < w[j].seq
  BY DEF InOrder
<1>1. /\ w \in Seq(Listed)
      /\ \A k \in DOMAIN w : \/ k \in DOMAIN s /\ w[k] = s[k]
                             \/ k > Len(s) /\ k - Len(s) \in DOMAIN t /\ w[k] = t[k - Len(s)]
  BY JoinedIs
<1> HIDE DEF w
<1>2. DOMAIN w = 1 .. Len(w) /\ Len(w) \in Nat /\ DOMAIN s = 1 .. Len(s) /\ Len(s) \in Nat
  BY <1>1, LenProperties
<1>3. i \in DOMAIN w /\ i < j /\ i \in Nat /\ j \in Nat
  BY <1>2
<1>4. CASE j \in DOMAIN s
  <2>1. i \in DOMAIN s /\ w[i] = s[i] /\ w[j] = s[j] /\ i \in 1 .. (j - 1)
    BY <1>1, <1>2, <1>3, <1>4
  <2> QED BY <1>4, <2>1 DEF InOrder
<1>5. CASE j \notin DOMAIN s
  <2>1. j - Len(s) \in DOMAIN t /\ w[j] = t[j - Len(s)]
    BY <1>1, <1>5
  <2>2. CASE i \in DOMAIN s /\ w[i] = s[i]
    BY <2>1, <2>2
  <2>3. CASE i > Len(s) /\ i - Len(s) \in DOMAIN t /\ w[i] = t[i - Len(s)]
    <3>1. i - Len(s) \in 1 .. (j - Len(s) - 1)
      BY <1>2, <1>3, <2>3
    <3> QED BY <2>1, <2>3, <3>1
  <2> QED BY <1>1, <1>3, <2>2, <2>3
<1> QED BY <1>4, <1>5

-----------------------------------------------------------------------------
(* The invariant. *)

Connections ==
  [pc : {"lookup", "replayAll", "range1", "subscribe", "attach", "range2", "reply",
         "live", "ended"},
   closed : BOOLEAN, subscribed : BOOLEAN, attached : BOOLEAN, timers : BOOLEAN,
   last : Ids, highest : Ids, reply : Seq(Listed)]

Browsers ==
  [state : {"waiting", "connected", "backoff", "closed"}, last : Ids,
   handled : SUBSET Published, shown : SUBSET Published]

StreamTypeOK ==
  /\ feed \in Seq(Published)
  /\ inFlight \in BOOLEAN /\ (inFlight => feed # <<>>)
  /\ queued \in {"pending", "listed"}
  /\ list \in Seq(Listed)
  /\ row \in {"running", "terminal"}
  /\ conn \in Connections
  /\ inbox \in Seq(Published)
  /\ wire \in Seq(Listed)
  /\ client \in Browsers
  /\ raced \in BOOLEAN
  /\ breaks \in 0 .. MaxBreaks

\* The handler's flags and where it is.  A stream that was closed behind an await
\* is not noticed before the await returns.
Flags ==
  /\ conn.closed => ~ conn.subscribed /\ ~ conn.timers /\ conn.pc # "live"
  /\ conn.pc = "ended" => conn.closed
  /\ conn.attached => conn.pc \in {"range2", "reply", "live", "ended"}
  /\ conn.pc \in {"attach", "range2", "reply", "live"} /\ ~ conn.closed => conn.subscribed

\* Until the first replay the handler goes by the browser's Last-Event-ID, and
\* nothing is on the wire.
FreshConnection ==
  conn.pc \in {"lookup", "replayAll", "range1"} =>
    wire = <<>> /\ conn.last = client.last /\ conn.highest = conn.last

NothingHandledYet == client.last = NoEventId => client.handled = {}

\* The list holds 'queued' once at most.
QueuedOnce ==
  /\ queued = "pending" => \A i \in DOMAIN list : list[i].type # QueuedType
  /\ \A i, j \in DOMAIN list :
       list[i].type = QueuedType /\ list[j].type = QueuedType => i = j

\* 'queued' reaches the browser, if it is the first of the list, before anything else.
QueuedIsFirst ==
  (list # <<>> => list[1] = QueuedEvent) =>
    /\ client.shown = client.handled
    /\ \A i \in DOMAIN wire : wire[i].type = QueuedType => i = 1 /\ client.handled = {}

\* An open stream that has replayed the list once.
Replayed == conn.pc \in {"subscribe", "attach", "range2", "reply", "live"} /\ ~ conn.closed

\* Attempts number their events in order: in the list and what is still to come,
\* and so on the wire; a stream knows the highest number it has written.
Ordered ==
  /\ InOrder(list) /\ InOrder(feed) /\ InOrder(wire)
  /\ \A i \in DOMAIN list, j \in DOMAIN feed :
       list[i].attempt = feed[j].attempt => list[i].seq < feed[j].seq
  /\ Replayed => \A i \in DOMAIN wire : wire[i].seq <= conn.highest

\* If the numbers do not go back, what is handled is behind what is on its way.
Behind(h, e) == h.seq <= e.seq /\ (h.attempt = e.attempt => h.seq < e.seq)
HandledIsBehind ==
  Rising =>
    /\ \A h \in client.handled : h.seq <= client.last
    /\ \A j \in DOMAIN wire : wire[j].type # QueuedType =>
         /\ \A h \in client.handled : Behind(h, wire[j])
         /\ \A i \in 1 .. (j - 1) : wire[i].seq <= wire[j].seq
    /\ Replayed => \A h \in client.handled : h.seq <= conn.highest

\* Numbers of the events the browser has handled, and events still to publish.
Seen == {h.seq : h \in client.handled}
Unpublished == IF inFlight THEN Tail(feed) ELSE feed

\* What is on the channel and still to be published.
Coming == inbox \o Unpublished

\* Every number lower than one the browser has handled has been handled; than one
\* on the wire, handled or sent before it; and an open stream that has replayed has
\* written all up to its highest number.
NoneMissedYet ==
  /\ \A h \in client.handled : \A k \in 1 .. h.seq : k \in Seen
  /\ \A k \in 1 .. client.last : k \in Seen
  /\ Follows(Seen, wire)
  /\ Replayed => \A k \in 1 .. conn.highest : k \in Seen \cup SeqsOf(wire)

\* What is lower than an event on the channel is listed.
NoneAhead == \A i \in DOMAIN inbox : \A k \in 1 .. (inbox[i].seq - 1) : k \in SeqsOf(list)

\* What is lower than an event to come has been written, is in the reply that is
\* to be replayed, or comes before it.
NoneDropped ==
  /\ conn.pc = "reply" /\ ~ conn.closed =>
       /\ Follows({}, conn.reply)
       /\ Follows((1 .. conn.highest) \cup SeqsOf(conn.reply), Coming)
  /\ conn.pc = "live" => Follows(1 .. conn.highest, Coming)

NoneMissing == ~ raced /\ Gapless => NoneMissedYet /\ NoneAhead /\ NoneDropped

StreamInv ==
  /\ StreamTypeOK /\ Flags /\ FreshConnection /\ NothingHandledYet
  /\ QueuedOnce /\ QueuedIsFirst /\ Ordered /\ HandledIsBehind /\ NoneMissing

-----------------------------------------------------------------------------
(* The parts of the steps. *)

\* What the constants allow.
LEMMA FeedIs ==
  ASSUME NEW f \in Feeds
  PROVE  f \in Seq(Published) /\ InOrder(f)
<1>1. /\ f \in Seq([type : SequencedTypes, seq : Nat \ {0}, attempt : Nat])
      /\ \A j \in DOMAIN f : \A i \in 1 .. (j - 1) :
           f[i].attempt = f[j].attempt => f[i].seq < f[j].seq
  BY StreamAssumption DEF StreamAssumption
<1> QED BY <1>1 DEF Published, InOrder

\* The bound on what may break.
LEMMA BreaksAre == MaxBreaks \in Nat
  BY StreamAssumption DEF StreamAssumption

\* Sequences of published events are sequences of events of the list.
LEMMA AsListed == \A s \in Seq(Published) : s \in Seq(Listed)
  BY SeqMonotonic DEF Listed

\* The replay of the list.
LEMMA ReplayIs ==
  ASSUME StreamTypeOK
  PROVE  Replay \in Seq(Listed) /\ {i \in DOMAIN list : Unseen(list[i])} \in SUBSET DOMAIN list
  BY KeptIs DEF StreamTypeOK, Replay

\* A pass over entries, field by field.
LEMMA PassIs ==
  ASSUME conn \in Connections, wire \in Seq(Listed), NEW events \in Seq(Listed),
         NEW next \in {"subscribe", "live"}, Pass(events, next)
  PROVE  /\ conn' \in Connections /\ wire' \in Seq(Listed)
         /\ conn'.last = conn.last /\ conn'.attached = conn.attached /\ conn'.reply = conn.reply
         /\ conn.closed => /\ wire' = wire /\ conn'.pc = "ended" /\ conn'.closed
                           /\ conn'.subscribed = conn.subscribed /\ conn'.timers = conn.timers
         /\ ~ conn.closed => /\ wire' = wire \o events
                             /\ conn'.highest = HighestOf(events, conn.highest)
         /\ ~ conn.closed /\ EndsStream(events) =>
              conn'.pc = "ended" /\ conn'.closed /\ ~ conn'.subscribed /\ ~ conn'.timers
         /\ ~ conn.closed /\ ~ EndsStream(events) =>
              conn'.pc = next /\ ~ conn'.closed /\ conn'.subscribed = conn.subscribed
<1>1. conn.highest \in Ids
  BY DEF Connections
<1>2. HighestOf(events, conn.highest) \in Ids
  BY <1>1, HighestIs
<1>3. wire \o events \in Seq(Listed)
  BY ConcatProperties
<1>4. CASE conn.closed
  BY <1>4 DEF Pass, Connections
<1>5. CASE ~ conn.closed /\ EndsStream(events)
  BY <1>2, <1>3, <1>5 DEF Pass, Written, CleanedUp, Connections
<1>6. CASE ~ conn.closed /\ ~ EndsStream(events)
  BY <1>2, <1>3, <1>6 DEF Pass, Written, CleanedUp, Connections
<1> QED BY <1>4, <1>5, <1>6

\* The clean-up of an open stream.
LEMMA CleanedUpIs ==
  ASSUME conn \in Connections
  PROVE  LET c == CleanedUp(conn) IN
         /\ c \in Connections /\ c.closed /\ ~ c.subscribed /\ ~ c.timers
         /\ c.pc = conn.pc /\ c.last = conn.last /\ c.highest = conn.highest
         /\ c.attached = conn.attached /\ c.reply = conn.reply
         /\ [c EXCEPT !.pc = "ended"] \in Connections
         /\ [c EXCEPT !.pc = "ended"].pc = "ended" /\ [c EXCEPT !.pc = "ended"].closed
         /\ ~ [c EXCEPT !.pc = "ended"].subscribed /\ ~ [c EXCEPT !.pc = "ended"].timers
  BY DEF CleanedUp, Connections

\* A message of the channel, field by field.
LEMMA LiveIs ==
  ASSUME StreamTypeOK, Flags, LiveMessage
  PROVE  LET e == Head(inbox)  events == NewerThan(<<Head(inbox)>>, conn.highest) IN
         /\ conn' \in Connections /\ wire' \in Seq(Listed) /\ inbox' = Tail(inbox)
         /\ inbox # <<>> /\ e \in Published /\ events \in Seq(Listed) /\ conn.attached
         /\ conn.closed \/ e.seq <= conn.highest =>
              wire' = wire /\ conn' = conn /\ raced' = raced
         /\ ~ conn.closed /\ ~ e.seq <= conn.highest =>
              /\ wire' = wire \o <<e>> /\ conn'.highest = e.seq
              /\ conn'.last = conn.last /\ conn'.reply = conn.reply
              /\ conn'.attached = conn.attached
              /\ raced' = (raced \/ conn.pc \in {"range2", "reply"})
              /\ IsTerminal(e) => /\ conn'.closed /\ ~ conn'.subscribed /\ ~ conn'.timers
                                  /\ conn'.pc = IF conn.pc = "live" THEN "ended" ELSE conn.pc
              /\ ~ IsTerminal(e) => /\ ~ conn'.closed /\ conn'.pc = conn.pc
                                    /\ conn'.subscribed = conn.subscribed
<1> DEFINE e == Head(inbox)
           h == conn.highest
           events == NewerThan(<<e>>, h)
           c == Written(events, conn)
<1>1. /\ inbox # <<>> /\ inbox' = Tail(inbox) /\ e \in Published /\ e \in Listed /\ h \in Ids
      /\ conn \in Connections /\ wire \in Seq(Listed) /\ raced \in BOOLEAN /\ conn.attached
  BY AsListed, HeadTailProperties, ListedIs DEF LiveMessage, StreamTypeOK, Connections
<1> HIDE DEF e
<1>2. <<e>> \in Seq(Listed) /\ Len(<<e>>) = 1 /\ DOMAIN <<e>> = {1} /\ <<e>>[1] = e
  BY <1>1
<1>3. events \in Seq(Listed)
  BY <1>1, <1>2, NewerIs
<1>4. IF e.seq <= h THEN events = <<>> ELSE events = <<e>>
  <2>1. e.type # QueuedType /\ e.seq \in Nat /\ h \in Int
    BY <1>1, ListedIs, IdsAre
  <2>2. events = Kept(<<e>>, Raising(<<e>>, h))
    BY <1>1, <1>2, NewerIs
  <2>3. CASE e.seq <= h
    <3>1. Raising(<<e>>, h) = {}
      BY <1>2, <2>1, <2>3 DEF Raising
    <3>2. events = [k \in 1 .. 0 |-> <<e>>[Nth({}, k)]]
      BY <2>2, <3>1, FS_EmptySet DEF Kept
    <3>3. DOMAIN events = {}
      BY <3>2
    <3>4. Len(events) = 0
      BY <1>3, <3>3, LenProperties
    <3>5. events = <<>>
      BY <1>3, <3>4, EmptySeq
    <3> QED BY <2>3, <3>5
  <2>4. CASE ~ e.seq <= h
    <3>1. Raising(<<e>>, h) = {1}
      <4>1. \A j \in 1 .. (1 - 1) : FALSE
        OBVIOUS
      <4> QED BY <1>2, <2>1, <2>4, <4>1 DEF Raising
    <3>2. Cardinality({1}) = 1
      BY FS_Singleton
    <3>3. Nth({1}, 1) \in {1}
      <4>1. IsFiniteSet({1})
        BY FS_Singleton
      <4>2. {1} \in SUBSET Nat
        OBVIOUS
      <4> QED BY <3>2, <4>1, <4>2, NthIs
    <3>4. events = [k \in 1 .. 1 |-> <<e>>[Nth({1}, k)]]
      BY <2>2, <3>1, <3>2 DEF Kept
    <3>5. Len(events) = 1 /\ events[1] = e
      <4>1. DOMAIN events = 1 .. 1 /\ events[1] = <<e>>[Nth({1}, 1)]
        BY <3>4
      <4>2. Len(events) = 1
        BY <1>3, <4>1, LenProperties
      <4> QED BY <1>2, <3>3, <4>1, <4>2
    <3>6. events = <<e>>
      <4> HIDE DEF events
      <4>1. \A i \in 1 .. Len(events) : events[i] = <<e>>[i]
        BY <1>2, <3>5
      <4> QED BY <1>2, <1>3, <3>5, <4>1, SeqEqual
    <3> QED BY <2>4, <3>6
  <2> QED BY <2>3, <2>4
<1>5. /\ conn.closed => wire' = wire /\ conn' = conn /\ raced' = raced
      /\ ~ conn.closed =>
           /\ wire' = wire \o events
           /\ raced' = (raced \/ (events # <<>> /\ conn.pc \in {"range2", "reply"}))
           /\ conn' = IF c.closed /\ c.pc = "live" THEN [c EXCEPT !.pc = "ended"] ELSE c
  BY DEF LiveMessage, e
<1> HIDE DEF events, h
<1>6. CASE conn.closed
  BY <1>1, <1>3, <1>5, <1>6 DEF e, events, h
<1>7. CASE ~ conn.closed /\ e.seq <= h
  <2>1. events = <<>> /\ ~ EndsStream(events)
    BY <1>4, <1>7 DEF EndsStream
  <2>2. HighestOf(events, h) = h
    <3>1. SeqsOf(<<>>) = {}
      BY DEF SeqsOf
    <3> QED BY <1>1, <1>3, <2>1, <3>1, HighestIs
  <2>3. c = conn
    BY <1>1, <2>1, <2>2 DEF Written, Connections, h
  <2>4. wire' = wire /\ raced' = raced
    BY <1>1, <1>5, <1>7, <2>1, ConcatEmptySeq
  <2>5. conn' = conn
    BY <1>5, <1>7, <2>3
  <2> QED BY <1>1, <1>3, <1>7, <2>4, <2>5 DEF e, events, h
<1>8. CASE ~ conn.closed /\ ~ e.seq <= h
  <2>1. events = <<e>> /\ events # <<>> /\ (EndsStream(events) <=> IsTerminal(e))
    <3>1. events = <<e>>
      BY <1>4, <1>8
    <3>2. <<e>> # <<>>
      OBVIOUS
    <3>3. EndsStream(<<e>>) <=> IsTerminal(e)
      <4>1. <<e>>[Len(<<e>>)] = e
        BY <1>2
      <4> QED BY <3>2, <4>1 DEF EndsStream
    <3> QED BY <3>1, <3>2, <3>3
  <2>2. HighestOf(events, h) = e.seq /\ e.seq \in Ids
    <3>1. SeqsOf(<<e>>) = {e.seq} /\ e.seq \in Nat /\ h \in Int
      BY <1>1, <1>2, ListedIs, IdsAre DEF SeqsOf
    <3>2. HighestOf(<<e>>, h) \in {e.seq} \cup {h} /\ e.seq <= HighestOf(<<e>>, h)
      BY <1>1, <1>2, <3>1, HighestIs
    <3> QED BY <1>8, <2>1, <3>1, <3>2, IdsAre
  <2>3. wire' = wire \o <<e>> /\ raced' = (raced \/ conn.pc \in {"range2", "reply"})
    BY <1>5, <1>8, <2>1
  <2>4. wire' \in Seq(Listed)
    BY <1>1, <1>2, <2>3, ConcatProperties
  <2>5. CASE IsTerminal(e)
    <3>1. c = CleanedUp([conn EXCEPT !.highest = e.seq])
      BY <2>1, <2>2, <2>5 DEF Written, h
    <3>2. conn' = IF c.closed /\ c.pc = "live" THEN [c EXCEPT !.pc = "ended"] ELSE c
      BY <1>5, <1>8
    <3> HIDE DEF c
    <3>3. /\ conn' \in Connections /\ conn'.highest = e.seq /\ conn'.last = conn.last
          /\ conn'.reply = conn.reply /\ conn'.attached = conn.attached
          /\ conn'.closed /\ ~ conn'.subscribed /\ ~ conn'.timers
          /\ conn'.pc = IF conn.pc = "live" THEN "ended" ELSE conn.pc
      BY <1>1, <2>2, <3>1, <3>2 DEF CleanedUp, Connections
    <3> QED BY <1>1, <1>3, <1>8, <2>3, <2>4, <2>5, <3>3 DEF e, events, h
  <2>6. CASE ~ IsTerminal(e)
    <3>1. c = [conn EXCEPT !.highest = e.seq]
      BY <2>1, <2>2, <2>6 DEF Written, h
    <3>2. conn' = IF c.closed /\ c.pc = "live" THEN [c EXCEPT !.pc = "ended"] ELSE c
      BY <1>5, <1>8
    <3> HIDE DEF c
    <3>3. /\ conn' \in Connections /\ conn'.highest = e.seq /\ conn'.last = conn.last
          /\ conn'.reply = conn.reply /\ conn'.attached = conn.attached
          /\ ~ conn'.closed /\ conn'.pc = conn.pc /\ conn'.subscribed = conn.subscribed
      BY <1>1, <1>8, <2>2, <3>1, <3>2 DEF Connections
    <3> QED BY <1>1, <1>3, <1>8, <2>3, <2>4, <2>6, <3>3 DEF e, events, h
  <2> QED BY <2>5, <2>6
<1> QED BY <1>6, <1>7, <1>8

\* What Attach leaves of the channel: the messages after the n-th.
LEMMA DroppedIs ==
  ASSUME NEW s \in Seq(Published), NEW n \in 0 .. Len(s)
  PROVE  LET t == SubSeq(s, n + 1, Len(s)) IN
         /\ t \in Seq(Published)
         /\ \A i \in DOMAIN t : i + n \in DOMAIN s /\ t[i] = s[i + n]
<1>1. Len(s) \in Nat /\ DOMAIN s = 1 .. Len(s) /\ n + 1 \in Int /\ Len(s) \in Int
  BY LenProperties
<1>2. \A i \in (n + 1) .. Len(s) : s[i] \in Published
  BY <1>1, ElementOfSeq
<1> DEFINE t == SubSeq(s, n + 1, Len(s))
<1>3. /\ t \in Seq(Published)
      /\ Len(t) = IF n + 1 <= Len(s) THEN Len(s) - (n + 1) + 1 ELSE 0
      /\ \A i \in 1 .. Len(s) - (n + 1) + 1 : t[i] = s[n + 1 + i - 1]
  BY <1>1, <1>2, SubSeqProperties
<1> HIDE DEF t
<1>4. DOMAIN t = 1 .. Len(t)
  BY <1>3, LenProperties
<1>5. ASSUME NEW i \in DOMAIN t PROVE i + n \in DOMAIN s /\ t[i] = s[i + n]
  <2>1. i \in 1 .. Len(t) /\ n \in Nat
    BY <1>1, <1>4
  <2>2. n + 1 <= Len(s) /\ Len(t) = Len(s) - (n + 1) + 1
    <3>1. CASE ~ n + 1 <= Len(s)
      <4>1. Len(t) = 0
        BY <1>3, <3>1
      <4> QED BY <2>1, <4>1
    <3>2. CASE n + 1 <= Len(s)
      BY <1>3, <3>2
    <3> QED BY <3>1, <3>2
  <2>3. i \in 1 .. Len(s) - (n + 1) + 1 /\ n + 1 + i - 1 = i + n /\ i + n \in 1 .. Len(s)
    BY <1>1, <2>1, <2>2
  <2> QED BY <1>1, <1>3, <2>3
<1> QED BY <1>3, <1>5 DEF t

\* What the browser makes of an event, field by field.
LEMMA ReceiveIs ==
  ASSUME StreamTypeOK, Receive
  PROVE  LET e == Head(wire) IN
         /\ wire # <<>> /\ wire' = Tail(wire) /\ wire' \in Seq(Listed) /\ e \in Listed
         /\ client' \in Browsers
         /\ e.type = QueuedType => /\ client'.last = client.last /\ client'.shown = {}
                                   /\ client'.handled = client.handled
         /\ e.type # QueuedType =>
              /\ e \in Published /\ client'.last = e.seq
              /\ IsNew(e) => /\ client'.handled = client.handled \cup {e}
                             /\ client'.shown = client.shown \cup {e}
              /\ ~ IsNew(e) => /\ client'.handled = client.handled
                               /\ client'.shown = client.shown
<1> DEFINE e == Head(wire)
<1>1. wire # <<>> /\ wire' = Tail(wire) /\ wire' \in Seq(Listed) /\ e \in Listed
  BY HeadTailProperties DEF Receive, StreamTypeOK
<1>2. client \in Browsers
  BY DEF StreamTypeOK
<1>3. CASE e.type = QueuedType /\ client' = [client EXCEPT !.shown = {}]
  BY <1>1, <1>2, <1>3 DEF Browsers
<1> DEFINE state == IF IsTerminal(e) THEN "closed" ELSE "connected"
<1>4. CASE /\ e.type # QueuedType /\ IsNew(e)
           /\ client' = [state |-> state, last |-> e.seq,
                         handled |-> client.handled \cup {e}, shown |-> client.shown \cup {e}]
  <2>1. e \in Published /\ e.seq \in Ids /\ state \in {"closed", "connected"}
    BY <1>1, <1>4, ListedIs, IdsAre
  <2> HIDE DEF e, state
  <2>2. client' \in Browsers
    BY <1>2, <1>4, <2>1 DEF Browsers
  <2>3. /\ client'.last = e.seq /\ client'.handled = client.handled \cup {e}
        /\ client'.shown = client.shown \cup {e}
    BY <1>4
  <2> QED BY <1>1, <1>4, <2>1, <2>2, <2>3 DEF e
<1>5. CASE /\ e.type # QueuedType /\ ~ IsNew(e)
           /\ client' = [client EXCEPT !.state = state, !.last = e.seq]
  <2>1. e \in Published /\ e.seq \in Ids /\ state \in {"closed", "connected"}
    BY <1>1, <1>5, ListedIs, IdsAre
  <2> HIDE DEF e, state
  <2>2. client' \in Browsers
    BY <1>2, <1>5, <2>1 DEF Browsers
  <2>3. /\ client'.last = e.seq /\ client'.handled = client.handled
        /\ client'.shown = client.shown
    BY <1>2, <1>5 DEF Browsers
  <2> QED BY <1>1, <1>5, <2>1, <2>2, <2>3 DEF e
<1> QED BY <1>3, <1>4, <1>5 DEF Receive

\* The steps of the program.
LEMMA Steps ==
  [Next]_vars =>
    \/ PublishEvent \/ PushEvent \/ PushQueued \/ SettleRow
    \/ LookUp \/ ReplayAll \/ FirstRange \/ Subscribe \/ Attach \/ SecondRange \/ SecondReplay
    \/ LiveMessage \/ MaxDuration \/ RedisError \/ Disconnect
    \/ Connect \/ Receive \/ StreamEnded \/ UNCHANGED vars
  BY DEF Next, Producer, Route, Browser, Done

-----------------------------------------------------------------------------
(* The invariant holds at first, and every step keeps its parts. *)

\* At first the variables have their types.
LEMMA InitType == Init => StreamTypeOK
<1> SUFFICES ASSUME Init PROVE StreamTypeOK
  OBVIOUS
<1>1. feed \in Seq(Published)
  BY FeedIs DEF Init
<1>2. <<>> \in Seq(Listed) /\ <<>> \in Seq(Published)
  BY EmptySeq
<1>3. conn \in Connections
  BY <1>2, IdsAre DEF Init, Closed, Connections
<1>4. client \in Browsers
  BY IdsAre DEF Init, Browsers
<1>5. breaks \in 0 .. MaxBreaks
  BY BreaksAre DEF Init
<1>6. list \in Seq(Listed) /\ inbox \in Seq(Published) /\ wire \in Seq(Listed)
  BY <1>2 DEF Init
<1>7. /\ inFlight \in BOOLEAN /\ ~ inFlight /\ queued \in {"pending", "listed"}
      /\ row \in {"running", "terminal"} /\ raced \in BOOLEAN
  BY DEF Init
<1> QED BY <1>1, <1>3, <1>4, <1>5, <1>6, <1>7 DEF StreamTypeOK

\* The publisher's steps keep the types.
LEMMA ProducerKeepsType ==
  ASSUME StreamTypeOK, PublishEvent \/ PushEvent \/ PushQueued \/ SettleRow
  PROVE  StreamTypeOK'
<1>1. feed # <<>> => Head(feed) \in Published /\ Head(feed) \in Listed /\ Tail(feed) \in Seq(Published)
  BY HeadTailProperties, ListedIs DEF StreamTypeOK
<1>2. CASE PublishEvent
  <2>1. Append(inbox, Head(feed)) \in Seq(Published)
    BY <1>1, <1>2 DEF PublishEvent, StreamTypeOK
  <2> QED BY <1>2, <2>1 DEF PublishEvent, StreamTypeOK
<1>3. CASE PushEvent
  <2>1. Append(list, Head(feed)) \in Seq(Listed) /\ Tail(feed) \in Seq(Published)
    BY <1>1, <1>3 DEF PushEvent, StreamTypeOK
  <2> QED BY <1>3, <2>1 DEF PushEvent, StreamTypeOK
<1>4. CASE PushQueued
  <2>1. Append(list, QueuedEvent) \in Seq(Listed)
    BY ListedIs DEF StreamTypeOK
  <2> QED BY <1>4, <2>1 DEF PushQueued, StreamTypeOK
<1>5. CASE SettleRow
  BY <1>5 DEF SettleRow, StreamTypeOK
<1> QED BY <1>2, <1>3, <1>4, <1>5

\* The route's steps keep the types.
LEMMA RouteKeepsType ==
  ASSUME StreamTypeOK,
         \/ LookUp \/ ReplayAll \/ FirstRange \/ Subscribe \/ Attach \/ SecondRange \/ SecondReplay
  PROVE  StreamTypeOK'
<1>1. conn \in Connections /\ wire \in Seq(Listed) /\ list \in Seq(Listed) /\ inbox \in Seq(Published)
  BY DEF StreamTypeOK
<1>2. CASE LookUp
  <2>1. conn' \in Connections
    BY <1>1, <1>2 DEF LookUp, Connections
  <2> QED BY <1>2, <2>1 DEF LookUp, StreamTypeOK, producerVars
<1>3. CASE ReplayAll
  <2>1. wire' \in Seq(Listed)
    BY <1>1, <1>3, ReplayIs, ConcatProperties DEF ReplayAll
  <2>2. conn' \in Connections
    BY <1>1, <1>3, CleanedUpIs DEF ReplayAll
  <2> QED BY <1>3, <2>1, <2>2 DEF ReplayAll, StreamTypeOK, producerVars
<1>4. CASE FirstRange
  <2>1. wire' \in Seq(Listed) /\ conn' \in Connections
    BY <1>1, <1>4, ReplayIs, UpToTerminalIs, PassIs DEF FirstRange
  <2> QED BY <1>4, <2>1 DEF FirstRange, StreamTypeOK, producerVars
<1>5. CASE Subscribe
  <2>1. conn' \in Connections
    BY <1>1, <1>5 DEF Subscribe, Connections
  <2> QED BY <1>5, <2>1, EmptySeq DEF Subscribe, StreamTypeOK, producerVars
<1>6. CASE Attach
  <2>1. conn' \in Connections
    BY <1>1, <1>6 DEF Attach, Connections
  <2>2. inbox' \in Seq(Published)
    <3>1. CASE conn.closed
      BY <1>1, <1>6, <3>1 DEF Attach
    <3>2. CASE ~ conn.closed
      <4>1. PICK n \in 0 .. Len(inbox) : inbox' = SubSeq(inbox, n + 1, Len(inbox))
        BY <1>6, <3>2 DEF Attach
      <4> QED BY <1>1, <4>1, DroppedIs
    <3> QED BY <3>1, <3>2
  <2> QED BY <1>6, <2>1, <2>2 DEF Attach, StreamTypeOK, producerVars
<1>7. CASE SecondRange
  <2>1. conn' \in Connections
    BY <1>1, <1>7 DEF SecondRange, Connections
  <2>2. raced' \in BOOLEAN
    BY <1>7 DEF SecondRange
  <2> QED BY <1>7, <2>1, <2>2 DEF SecondRange, StreamTypeOK, producerVars
<1>8. CASE SecondReplay
  <2>1. conn.reply \in Seq(Listed) /\ conn.highest \in Ids
    BY <1>1 DEF Connections
  <2>2. wire' \in Seq(Listed) /\ conn' \in Connections
    BY <1>1, <1>8, <2>1, NewerIs, UpToTerminalIs, PassIs DEF SecondReplay
  <2> QED BY <1>8, <2>2 DEF SecondReplay, StreamTypeOK, producerVars
<1> QED BY <1>2, <1>3, <1>4, <1>5, <1>6, <1>7, <1>8

\* So do the others'.
LEMMA OthersKeepType ==
  ASSUME StreamTypeOK, Flags,
         \/ LiveMessage \/ MaxDuration \/ RedisError \/ Disconnect
         \/ Connect \/ Receive \/ StreamEnded \/ UNCHANGED vars
  PROVE  StreamTypeOK'
<1>1. conn \in Connections /\ wire \in Seq(Listed) /\ client \in Browsers
  BY DEF StreamTypeOK
<1>2. CASE LiveMessage
  <2>1. conn' \in Connections /\ wire' \in Seq(Listed) /\ inbox' \in Seq(Published)
    BY <1>2, LiveIs, HeadTailProperties DEF StreamTypeOK
  <2>2. raced' \in BOOLEAN
    BY <1>2 DEF LiveMessage, StreamTypeOK
  <2> QED BY <1>2, <2>1, <2>2 DEF LiveMessage, StreamTypeOK, producerVars
<1>3. CASE MaxDuration
  <2>1. conn' \in Connections
    BY <1>1, <1>3, CleanedUpIs DEF MaxDuration
  <2> QED BY <1>3, <2>1 DEF MaxDuration, StreamTypeOK, producerVars
<1>4. CASE RedisError \/ Disconnect
  <2>1. breaks' \in 0 .. MaxBreaks
    BY <1>4, BreaksAre DEF RedisError, Disconnect, BreakNow, StreamTypeOK
  <2>2. CASE RedisError
    <3>1. conn' \in Connections
      BY <1>1, <2>2, CleanedUpIs DEF RedisError
    <3> QED BY <2>1, <2>2, <3>1 DEF RedisError, StreamTypeOK, producerVars
  <2>3. CASE Disconnect
    <3>1. conn' \in Connections
      BY <1>1, <2>3 DEF Disconnect, CleanedUp, Connections
    <3>2. client' \in Browsers /\ wire' \in Seq(Listed)
      BY <1>1, <2>3, EmptySeq DEF Disconnect, Browsers
    <3> QED BY <2>1, <2>3, <3>1, <3>2 DEF Disconnect, StreamTypeOK, producerVars
  <2> QED BY <1>4, <2>2, <2>3
<1>5. CASE Connect
  <2>1. client.last \in Ids
    BY <1>1 DEF Browsers
  <2>2. conn' \in Connections /\ client' \in Browsers
    BY <1>1, <1>5, <2>1, EmptySeq DEF Connect, Fresh, Connections, Browsers
  <2> QED BY <1>5, <2>2, EmptySeq DEF Connect, StreamTypeOK, producerVars
<1>6. CASE Receive
  BY <1>6, ReceiveIs DEF Receive, StreamTypeOK, producerVars
<1>7. CASE StreamEnded
  <2>1. client' \in Browsers
    BY <1>1, <1>7 DEF StreamEnded, Browsers
  <2> QED BY <1>7, <2>1 DEF StreamEnded, StreamTypeOK, producerVars
<1>8. CASE UNCHANGED vars
  BY <1>8 DEF vars, StreamTypeOK
<1> QED BY <1>2, <1>3, <1>4, <1>5, <1>6, <1>7, <1>8

\* The steps that leave the handler, or the list and what is to be published, alone.
LEMMA HandlerRests ==
  ASSUME \/ PublishEvent \/ PushEvent \/ PushQueued \/ SettleRow \/ Receive \/ StreamEnded \/ UNCHANGED vars
  PROVE  conn' = conn
  BY DEF PublishEvent, PushEvent, PushQueued, SettleRow, Receive, StreamEnded, vars

\* The steps that leave the browser alone.
LEMMA BrowserRests ==
  ASSUME \/ PublishEvent \/ PushEvent \/ PushQueued \/ SettleRow
         \/ LookUp \/ ReplayAll \/ FirstRange \/ Subscribe \/ Attach \/ SecondRange \/ SecondReplay
         \/ LiveMessage \/ MaxDuration \/ RedisError \/ UNCHANGED vars
  PROVE  client' = client
  BY DEF PublishEvent, PushEvent, PushQueued, SettleRow, LookUp, ReplayAll, FirstRange, Subscribe,
         Attach, SecondRange, SecondReplay, LiveMessage, MaxDuration, RedisError, vars

\* The steps that write nothing and read nothing.
LEMMA WireRests ==
  ASSUME \/ PublishEvent \/ PushEvent \/ PushQueued \/ SettleRow
         \/ LookUp \/ Subscribe \/ Attach \/ SecondRange
         \/ MaxDuration \/ RedisError \/ StreamEnded \/ UNCHANGED vars
  PROVE  wire' = wire
  BY DEF PublishEvent, PushEvent, PushQueued, SettleRow, LookUp, Subscribe, Attach, SecondRange,
         MaxDuration, RedisError, StreamEnded, vars

\* The steps that leave the list and what is to be published alone.
LEMMA ListRests ==
  ASSUME \/ PublishEvent \/ SettleRow
         \/ LookUp \/ ReplayAll \/ FirstRange \/ Subscribe \/ Attach \/ SecondRange \/ SecondReplay
         \/ LiveMessage \/ MaxDuration \/ RedisError \/ Disconnect
         \/ Connect \/ Receive \/ StreamEnded \/ UNCHANGED vars
  PROVE  list' = list /\ feed' = feed /\ queued' = queued
  BY DEF PublishEvent, SettleRow, LookUp, ReplayAll, FirstRange, Subscribe,
         Attach, SecondRange, SecondReplay, LiveMessage, MaxDuration, RedisError, Disconnect,
         Connect, Receive, StreamEnded, vars, producerVars

\* Every step keeps the handler's flags in line with where it is.
LEMMA NextKeepsFlags ==
  ASSUME StreamTypeOK, Flags, [Next]_vars
  PROVE  Flags'
<1>1. conn \in Connections /\ wire \in Seq(Listed)
  BY DEF StreamTypeOK
<1>2. CASE conn' = conn
  BY <1>2 DEF Flags
<1>3. CASE LookUp
  BY <1>1, <1>3 DEF LookUp, Flags, Connections
<1>4. CASE ReplayAll
  BY <1>1, <1>4 DEF ReplayAll, CleanedUp, Flags, Connections
<1>5. CASE FirstRange
  <2>1. Pass(UpToTerminal(Replay), "subscribe") /\ UpToTerminal(Replay) \in Seq(Listed)
    BY <1>5, ReplayIs, UpToTerminalIs DEF FirstRange
  <2>2. conn.pc = "range1"
    BY <1>5 DEF FirstRange
  <2> QED BY <1>1, <2>1, <2>2, PassIs DEF Flags
<1>6. CASE Subscribe
  BY <1>1, <1>6 DEF Subscribe, Flags, Connections
<1>7. CASE Attach
  BY <1>1, <1>7 DEF Attach, Flags, Connections
<1>8. CASE SecondRange
  BY <1>1, <1>8 DEF SecondRange, Flags, Connections
<1>9. CASE SecondReplay
  <2> DEFINE events == UpToTerminal(NewerThan(conn.reply, conn.highest))
  <2>1. conn.reply \in Seq(Listed) /\ conn.highest \in Ids /\ conn.pc = "reply"
    BY <1>1, <1>9 DEF Connections, SecondReplay
  <2>2. Pass(events, "live") /\ events \in Seq(Listed)
    BY <1>9, <2>1, NewerIs, UpToTerminalIs DEF SecondReplay
  <2> HIDE DEF events
  <2> QED BY <1>1, <2>1, <2>2, PassIs DEF Flags
<1>10. CASE LiveMessage
  BY <1>10, LiveIs DEF Flags
<1>11. CASE MaxDuration
  BY <1>1, <1>11 DEF MaxDuration, CleanedUp, Flags, Connections
<1>12. CASE RedisError
  BY <1>1, <1>12 DEF RedisError, CleanedUp, Flags, Connections
<1>13. CASE Disconnect
  BY <1>1, <1>13 DEF Disconnect, CleanedUp, Flags, Connections
<1>14. CASE Connect
  BY <1>14 DEF Connect, Fresh, Flags
<1> QED BY <1>2, <1>3, <1>4, <1>5, <1>6, <1>7, <1>8, <1>9, <1>10, <1>11, <1>12, <1>13, <1>14,
           Steps, HandlerRests

\* A handler that has not replayed yet has written nothing.
LEMMA NextKeepsFresh ==
  ASSUME StreamTypeOK, Flags, FreshConnection, [Next]_vars
  PROVE  FreshConnection'
<1>1. conn \in Connections /\ wire \in Seq(Listed)
  BY DEF StreamTypeOK
<1> DEFINE Early == {"lookup", "replayAll", "range1"}
<1>2. CASE conn' = conn /\ wire' = wire /\ client'.last = client.last
  BY <1>2 DEF FreshConnection
<1>3. CASE LookUp
  BY <1>1, <1>3 DEF LookUp, FreshConnection, Connections
<1>4. CASE conn'.pc \notin Early
  BY <1>4 DEF FreshConnection
<1>5. CASE ReplayAll \/ MaxDuration \/ RedisError
  <2>1. conn'.pc = "ended"
    BY <1>1, <1>5 DEF ReplayAll, MaxDuration, RedisError, CleanedUp, Connections
  <2> QED BY <1>4, <2>1
<1>6. CASE FirstRange
  <2>1. Pass(UpToTerminal(Replay), "subscribe") /\ UpToTerminal(Replay) \in Seq(Listed)
    BY <1>6, ReplayIs, UpToTerminalIs DEF FirstRange
  <2> QED BY <1>1, <1>4, <2>1, PassIs
<1>7. CASE Subscribe \/ Attach \/ SecondRange
  <2>1. conn'.pc \notin Early
    BY <1>1, <1>7 DEF Subscribe, Attach, SecondRange, Connections
  <2> QED BY <1>4, <2>1
<1>8. CASE SecondReplay
  <2> DEFINE events == UpToTerminal(NewerThan(conn.reply, conn.highest))
  <2>1. conn.reply \in Seq(Listed) /\ conn.highest \in Ids
    BY <1>1 DEF Connections
  <2>2. Pass(events, "live") /\ events \in Seq(Listed)
    BY <1>8, <2>1, NewerIs, UpToTerminalIs DEF SecondReplay
  <2> HIDE DEF events
  <2> QED BY <1>1, <1>4, <2>2, PassIs
<1>9. CASE LiveMessage
  <2>1. conn.pc \notin Early
    BY <1>9 DEF LiveMessage, Flags
  <2>2. conn'.pc \in {conn.pc, "ended"}
    BY <1>9, LiveIs
  <2> QED BY <1>4, <2>1, <2>2
<1>10. CASE Disconnect
  <2>1. /\ conn'.pc = IF conn.pc = "live" THEN "ended" ELSE conn.pc
        /\ conn'.last = conn.last /\ conn'.highest = conn.highest
    BY <1>1, <1>10 DEF Disconnect, CleanedUp, Connections
  <2>2. wire' = <<>> /\ client'.last = client.last
    BY <1>10 DEF Disconnect, StreamTypeOK, Browsers
  <2> QED BY <2>1, <2>2 DEF FreshConnection
<1>11. CASE Connect
  <2>1. client'.last = client.last
    BY <1>11 DEF Connect, StreamTypeOK, Browsers
  <2>2. wire' = <<>> /\ conn'.last = client.last /\ conn'.highest = client.last
    BY <1>11 DEF Connect, Fresh
  <2> QED BY <2>1, <2>2 DEF FreshConnection
<1>12. CASE Receive
  <2>1. wire # <<>> /\ conn' = conn
    BY <1>12 DEF Receive
  <2> QED BY <2>1 DEF FreshConnection
<1>13. CASE StreamEnded
  <2>1. client'.last = client.last
    BY <1>13 DEF StreamEnded, StreamTypeOK, Browsers
  <2> QED BY <1>2, <1>13, <2>1, HandlerRests, WireRests
<1>14. CASE PublishEvent \/ PushEvent \/ PushQueued \/ SettleRow \/ UNCHANGED vars
  <2>1. conn' = conn /\ wire' = wire /\ client' = client
    BY <1>14, HandlerRests, WireRests, BrowserRests
  <2> QED BY <1>2, <2>1
<1> QED BY <1>3, <1>5, <1>6, <1>7, <1>8, <1>9, <1>10, <1>11, <1>12, <1>13, <1>14, Steps

\* A browser without a Last-Event-ID has handled nothing.
LEMMA NextKeepsNothingHandled ==
  ASSUME StreamTypeOK, NothingHandledYet, [Next]_vars
  PROVE  NothingHandledYet'
<1>1. CASE client' = client
  BY <1>1 DEF NothingHandledYet
<1>2. CASE Disconnect \/ Connect \/ StreamEnded
  <2>1. client'.last = client.last /\ client'.handled = client.handled
    BY <1>2 DEF Disconnect, Connect, StreamEnded, StreamTypeOK, Browsers
  <2> QED BY <2>1 DEF NothingHandledYet
<1>3. CASE Receive
  <2> DEFINE e == Head(wire)
  <2>1. CASE e.type = QueuedType
    BY <1>3, <2>1, ReceiveIs DEF NothingHandledYet
  <2>2. CASE e.type # QueuedType
    <3>1. e \in Published /\ client'.last = e.seq
      BY <1>3, <2>2, ReceiveIs
    <3>2. client'.last # NoEventId
      BY <3>1, ListedIs DEF NoEventId
    <3> QED BY <3>2 DEF NothingHandledYet
  <2> QED BY <2>1, <2>2
<1> QED BY <1>1, <1>2, <1>3, Steps, BrowserRests

\* 'queued' is listed once.
LEMMA NextKeepsQueuedOnce ==
  ASSUME StreamTypeOK, QueuedOnce, [Next]_vars
  PROVE  QueuedOnce'
<1>1. CASE list' = list /\ queued' = queued
  BY <1>1 DEF QueuedOnce
<1>2. list \in Seq(Listed) /\ Len(list) \in Nat /\ DOMAIN list = 1 .. Len(list)
  BY LenProperties DEF StreamTypeOK
<1>3. CASE PushEvent
  <2>1. Head(feed) \in Published /\ Head(feed).type # QueuedType
    BY <1>3, HeadTailProperties, ListedIs DEF PushEvent, StreamTypeOK
  <2>2. list' = Append(list, Head(feed)) /\ queued' = queued
    BY <1>3 DEF PushEvent
  <2>3. /\ DOMAIN list' = 1 .. Len(list) + 1 /\ list'[Len(list) + 1] = Head(feed)
        /\ \A i \in 1 .. Len(list) : list'[i] = list[i]
    BY <1>2, <2>2
  <2>4. \A i \in DOMAIN list' : list'[i].type = QueuedType =>
          i \in DOMAIN list /\ list[i].type = QueuedType
    BY <1>2, <2>1, <2>3
  <2> QED BY <2>2, <2>4 DEF QueuedOnce
<1>4. CASE PushQueued
  <2>1. list' = Append(list, QueuedEvent) /\ queued' = "listed" /\ queued = "pending"
    BY <1>4 DEF PushQueued
  <2>2. /\ DOMAIN list' = 1 .. Len(list) + 1
        /\ \A i \in 1 .. Len(list) : list'[i] = list[i]
    BY <1>2, <2>1
  <2>3. \A i \in DOMAIN list' : list'[i].type = QueuedType => i = Len(list) + 1
    BY <1>2, <2>1, <2>2 DEF QueuedOnce
  <2> QED BY <2>1, <2>3 DEF QueuedOnce
<1> QED BY <1>1, <1>3, <1>4, Steps, ListRests

\* A first replay: nothing was on the wire, and what is written now is of the list.
LEMMA FirstWritten ==
  ASSUME StreamTypeOK, FreshConnection, FirstRange \/ ReplayAll
  PROVE  /\ wire = <<>> /\ conn.last = client.last /\ conn.highest = conn.last
         /\ conn.closed => wire' = <<>>
         /\ wire' \in Seq(Listed) /\ Begins(wire', Replay)
         /\ ReplayAll => conn'.pc = "ended"
         /\ FirstRange => /\ ~ conn.closed => /\ wire' = UpToTerminal(Replay)
                                              /\ conn'.highest = HighestOf(wire', conn.highest)
                          /\ conn.closed => conn'.pc = "ended"
                          /\ conn'.pc \in {"subscribe", "ended"}
                          /\ conn'.pc = "subscribe" => ~ EndsStream(wire') /\ ~ conn.closed
<1>1. conn \in Connections /\ wire \in Seq(Listed) /\ Replay \in Seq(Listed) /\ conn.closed \in BOOLEAN
  BY ReplayIs DEF StreamTypeOK, Connections
<1>2. wire = <<>> /\ conn.last = client.last /\ conn.highest = conn.last
  BY DEF FirstRange, ReplayAll, FreshConnection
<1>3. Begins(Replay, Replay) /\ Begins(<<>>, Replay)
  BY <1>1, NothingIs, LenProperties DEF Begins
<1>4. CASE ReplayAll
  <2>1. wire' = IF conn.closed THEN <<>> ELSE Replay
    BY <1>1, <1>2, <1>4, ConcatEmptySeq DEF ReplayAll
  <2>2. conn'.pc = "ended" /\ ~ FirstRange
    BY <1>1, <1>4 DEF ReplayAll, FirstRange, CleanedUp, Connections
  <2> QED BY <1>1, <1>2, <1>3, <1>4, <2>1, <2>2, NothingIs
<1>5. CASE FirstRange
  <2> DEFINE events == UpToTerminal(Replay)
  <2>1. Pass(events, "subscribe") /\ events \in Seq(Listed) /\ Begins(events, Replay)
    BY <1>1, <1>5, CutIs DEF FirstRange
  <2>2. ~ ReplayAll
    BY <1>5 DEF FirstRange, ReplayAll
  <2> HIDE DEF events
  <2>3. /\ conn.closed => wire' = <<>> /\ conn'.pc = "ended"
        /\ ~ conn.closed => wire' = events /\ conn'.highest = HighestOf(events, conn.highest)
        /\ ~ conn.closed /\ EndsStream(events) => conn'.pc = "ended"
        /\ ~ conn.closed /\ ~ EndsStream(events) => conn'.pc = "subscribe"
    BY <1>1, <1>2, <2>1, PassIs, ConcatEmptySeq
  <2>4. CASE conn.closed
    BY <1>2, <1>3, <2>2, <2>3, <2>4, NothingIs
  <2>5. CASE ~ conn.closed
    BY <1>2, <2>1, <2>2, <2>3, <2>5 DEF events
  <2> QED BY <2>4, <2>5
<1> QED BY <1>4, <1>5

\* A second replay: what is written now is newer than all before.
LEMMA SecondWritten ==
  ASSUME StreamTypeOK, SecondReplay
  PROVE  LET newer == NewerThan(conn.reply, conn.highest)
             events == UpToTerminal(newer) IN
         /\ events \in Seq(Listed) /\ Begins(events, newer) /\ newer \in Seq(Listed)
         /\ \A i \in DOMAIN events :
              /\ events[i].type # QueuedType /\ events[i].seq > conn.highest
              /\ \A j \in 1 .. (i - 1) : events[j].seq < events[i].seq
         /\ conn.pc = "reply" /\ wire' \in Seq(Listed)
         /\ conn.closed => wire' = wire /\ conn'.pc = "ended" /\ conn'.closed
         /\ ~ conn.closed => /\ wire' = wire \o events
                             /\ conn'.highest = HighestOf(events, conn.highest)
                             /\ conn'.pc \in {"live", "ended"}
                             /\ conn'.pc = "live" => ~ EndsStream(events)
                             /\ conn'.pc = "ended" => conn'.closed
<1> DEFINE newer == NewerThan(conn.reply, conn.highest)
           events == UpToTerminal(newer)
<1>1. conn \in Connections /\ wire \in Seq(Listed) /\ conn.reply \in Seq(Listed) /\ conn.highest \in Ids
  BY DEF StreamTypeOK, Connections
<1>2. /\ newer \in Seq(Listed)
      /\ \A i \in DOMAIN newer :
              /\ newer[i].type # QueuedType /\ newer[i].seq > conn.highest
              /\ \A j \in 1 .. (i - 1) : newer[j].seq < newer[i].seq
  BY <1>1, NewerIs
<1>3. Pass(events, "live") /\ conn.pc = "reply"
  BY DEF SecondReplay
<1> HIDE DEF newer
<1>4. events \in Seq(Listed) /\ Begins(events, newer)
  BY <1>2, CutIs
<1> HIDE DEF events
<1>5. ASSUME NEW i \in DOMAIN events
      PROVE  /\ events[i].type # QueuedType /\ events[i].seq > conn.highest
             /\ \A j \in 1 .. (i - 1) : events[j].seq < events[i].seq
  <2>1. i \in DOMAIN newer /\ events[i] = newer[i]
    BY <1>4, <1>5 DEF Begins
  <2>2. \A j \in 1 .. (i - 1) : j \in DOMAIN events /\ events[j] = newer[j]
    <3>1. DOMAIN events = 1 .. Len(events) /\ Len(events) \in Nat
      BY <1>4, LenProperties
    <3>2. \A j \in 1 .. (i - 1) : j \in 1 .. Len(events)
      BY <1>5, <3>1
    <3> QED BY <1>4, <3>1, <3>2 DEF Begins
  <2> QED BY <1>2, <2>1, <2>2
<1>6. /\ wire' \in Seq(Listed)
      /\ conn.closed => wire' = wire /\ conn'.pc = "ended" /\ conn'.closed
      /\ ~ conn.closed => /\ wire' = wire \o events
                          /\ conn'.highest = HighestOf(events, conn.highest)
                          /\ conn'.pc \in {"live", "ended"}
                          /\ conn'.pc = "live" => ~ EndsStream(events)
                          /\ conn'.pc = "ended" => conn'.closed
  BY <1>1, <1>3, <1>4, PassIs
<1> QED BY <1>2, <1>3, <1>4, <1>5, <1>6 DEF events, newer

\* The list only grows.
LEMMA ListGrows ==
  ASSUME StreamTypeOK, [Next]_vars
  PROVE  list' \in Seq(Listed) /\ Begins(list, list')
<1>1. list \in Seq(Listed) /\ Len(list) \in Nat /\ DOMAIN list = 1 .. Len(list)
  BY LenProperties DEF StreamTypeOK
<1>2. CASE list' = list
  BY <1>1, <1>2 DEF Begins
<1>3. ASSUME NEW e \in Listed, list' = Append(list, e) PROVE list' \in Seq(Listed) /\ Begins(list, list')
  <2>1. /\ Append(list, e) \in Seq(Listed) /\ Len(Append(list, e)) = Len(list) + 1
        /\ DOMAIN Append(list, e) = 1 .. Len(list) + 1
        /\ \A i \in 1 .. Len(list) : Append(list, e)[i] = list[i]
    BY <1>1
  <2> QED BY <1>1, <1>3, <2>1 DEF Begins
<1>4. CASE PushEvent
  <2>1. Head(feed) \in Listed /\ list' = Append(list, Head(feed))
    BY <1>4, HeadTailProperties, ListedIs DEF PushEvent, StreamTypeOK
  <2> QED BY <1>3, <2>1
<1>5. CASE PushQueued
  <2>1. QueuedEvent \in Listed /\ list' = Append(list, QueuedEvent)
    BY <1>5, ListedIs DEF PushQueued
  <2> QED BY <1>3, <2>1
<1> QED BY <1>2, <1>4, <1>5, Steps, ListRests

\* An entry of the first replay, on its way to the wire, and where the list has it.
LEMMA EntryOfReplay ==
  ASSUME StreamTypeOK, NEW p \in Seq(Listed), Begins(p, Replay), NEW k \in DOMAIN p
  PROVE  LET S == {i \in DOMAIN list : Unseen(list[i])} IN
         /\ Nth(S, k) \in DOMAIN list /\ p[k] = list[Nth(S, k)] /\ Unseen(p[k])
         /\ \A j \in 1 .. (k - 1) : j \in DOMAIN p /\ Nth(S, j) < Nth(S, k)
<1> DEFINE S == {i \in DOMAIN list : Unseen(list[i])}
<1>1. list \in Seq(Listed) /\ S \in SUBSET DOMAIN list /\ Replay = Kept(list, S)
  BY DEF StreamTypeOK, Replay
<1>2. k \in DOMAIN Replay /\ p[k] = Replay[k]
  BY DEF Begins
<1>3. DOMAIN p = 1 .. Len(p) /\ Len(p) \in Nat
  BY LenProperties
<1>4. \A j \in 1 .. (k - 1) : j \in DOMAIN p
  BY <1>3
<1> HIDE DEF S
<1>5. /\ Nth(S, k) \in S /\ Replay[k] = list[Nth(S, k)]
      /\ \A j \in 1 .. (k - 1) : Nth(S, j) < Nth(S, k)
  BY <1>1, <1>2, KeptIs
<1>6. Nth(S, k) \in DOMAIN list /\ Unseen(list[Nth(S, k)])
  BY <1>5 DEF S
<1> QED BY <1>2, <1>4, <1>5, <1>6 DEF S

\* 'queued' is replayed before anything has been handled.
LEMMA NextKeepsQueuedIsFirst ==
  ASSUME StreamTypeOK, Flags, FreshConnection, NothingHandledYet, QueuedOnce, QueuedIsFirst,
         [Next]_vars
  PROVE  QueuedIsFirst'
<1> DEFINE First == list # <<>> => list[1] = QueuedEvent
<1>1. First' => First
  <2>1. list' \in Seq(Listed) /\ Begins(list, list') /\ list \in Seq(Listed)
    BY ListGrows DEF StreamTypeOK
  <2>2. ASSUME list # <<>> PROVE list' # <<>> /\ list'[1] = list[1]
    <3>1. 1 \in DOMAIN list
      BY <2>1, <2>2, TailIs
    <3>2. 1 \in DOMAIN list' /\ list'[1] = list[1]
      BY <2>1, <3>1 DEF Begins
    <3> QED BY <3>2, NothingIs
  <2> QED BY <2>2
<1> SUFFICES ASSUME First'
             PROVE  /\ client'.shown = client'.handled
                    /\ \A i \in DOMAIN wire' :
                         wire'[i].type = QueuedType => i = 1 /\ client'.handled = {}
  BY DEF QueuedIsFirst
<1>2. /\ client.shown = client.handled
      /\ \A i \in DOMAIN wire : wire[i].type = QueuedType => i = 1 /\ client.handled = {}
  BY <1>1 DEF QueuedIsFirst
<1>3. conn \in Connections /\ wire \in Seq(Listed) /\ client \in Browsers
  BY DEF StreamTypeOK
<1>4. CASE wire' = wire /\ client'.shown = client.shown /\ client'.handled = client.handled
  BY <1>2, <1>4
<1>5. CASE Disconnect \/ Connect
  <2>1. wire' = <<>> /\ client'.shown = client.shown /\ client'.handled = client.handled
    BY <1>3, <1>5 DEF Disconnect, Connect, Browsers
  <2> QED BY <1>2, <2>1, NothingIs
<1>6. CASE StreamEnded
  BY <1>3, <1>4, <1>6 DEF StreamEnded, Browsers
<1>7. ASSUME NEW t \in Seq(Listed), wire' = wire \o t, client' = client,
             \A i \in DOMAIN t : t[i].type # QueuedType
      PROVE  /\ client'.shown = client'.handled
             /\ \A i \in DOMAIN wire' :
                  wire'[i].type = QueuedType => i = 1 /\ client'.handled = {}
  BY <1>2, <1>3, <1>7, JoinedIs
<1>8. CASE FirstRange \/ ReplayAll
  <2>1. client' = client
    BY <1>8, BrowserRests
  <2>2. wire' \in Seq(Listed) /\ Begins(wire', Replay) /\ conn.last = client.last
    BY <1>8, FirstWritten
  <2>3. ASSUME NEW i \in DOMAIN wire', wire'[i].type = QueuedType
        PROVE  i = 1 /\ client.handled = {}
    <3> DEFINE S == {n \in DOMAIN list : Unseen(list[n])}
    <3>1. /\ Nth(S, i) \in DOMAIN list /\ wire'[i] = list[Nth(S, i)] /\ Unseen(wire'[i])
          /\ \A j \in 1 .. (i - 1) : j \in DOMAIN wire' /\ Nth(S, j) < Nth(S, i)
      BY <2>2, <2>3, EntryOfReplay
    <3>2. client.last < 0
      BY <2>2, <2>3, <3>1 DEF Unseen
    <3>3. client.last = NoEventId
      BY <1>3, <3>2 DEF Browsers, Ids
    <3>4. client.handled = {}
      BY <3>3 DEF NothingHandledYet
    <3>5. list \in Seq(Listed) /\ list # <<>>
      BY <3>1, NothingIs DEF StreamTypeOK
    <3>6. list[1] = QueuedEvent /\ 1 \in DOMAIN list /\ DOMAIN list = 1 .. Len(list) /\ Len(list) \in Nat
      <4>1. list[1] = QueuedEvent
        BY <1>1, <3>5
      <4> QED BY <3>5, <4>1, TailIs, LenProperties
    <3>7. Nth(S, i) = 1
      BY <2>3, <3>1, <3>6, ListedIs DEF QueuedOnce
    <3>8. i \in Nat /\ i >= 1
      BY <2>2, <2>3, LenProperties
    <3>9. CASE i # 1
      <4>1. 1 \in 1 .. (i - 1)
        BY <3>8, <3>9
      <4>2. 1 \in DOMAIN wire' /\ Nth(S, 1) < Nth(S, i)
        BY <3>1, <4>1
      <4>3. Nth(S, 1) \in DOMAIN list
        BY <2>2, <4>2, EntryOfReplay
      <4> HIDE DEF S
      <4> QED BY <3>6, <3>7, <4>2, <4>3
    <3> QED BY <3>4, <3>9
  <2> QED BY <1>2, <2>1, <2>3
<1>9. CASE SecondReplay
  <2> DEFINE events == UpToTerminal(NewerThan(conn.reply, conn.highest))
  <2>1. /\ events \in Seq(Listed) /\ \A i \in DOMAIN events : events[i].type # QueuedType
        /\ wire' = wire \/ wire' = wire \o events
    BY <1>3, <1>9, SecondWritten DEF Connections
  <2>2. client' = client
    BY <1>9, BrowserRests
  <2> HIDE DEF events
  <2> QED BY <1>4, <1>7, <2>1, <2>2
<1>10. CASE LiveMessage
  <2> DEFINE e == Head(inbox)
  <2>1. e \in Published /\ (wire' = wire \/ wire' = wire \o <<e>>)
    BY <1>10, LiveIs
  <2>2. client' = client
    BY <1>10, BrowserRests
  <2> HIDE DEF e
  <2>3. <<e>> \in Seq(Listed) /\ \A i \in DOMAIN <<e>> : <<e>>[i].type # QueuedType
    BY <2>1, ListedIs
  <2> QED BY <1>4, <1>7, <2>1, <2>2, <2>3
<1>11. CASE Receive
  <2> DEFINE e == Head(wire)
  <2>1. wire # <<>> /\ wire' = Tail(wire) /\ e = wire[1] /\ 1 \in DOMAIN wire
    BY <1>3, <1>11, ReceiveIs, TailIs
  <2>2. \A i \in DOMAIN wire' : wire'[i].type # QueuedType
    <3> SUFFICES ASSUME NEW i \in DOMAIN wire', wire'[i].type = QueuedType PROVE FALSE
      OBVIOUS
    <3>1. i \in Nat /\ i >= 1 /\ i + 1 \in DOMAIN wire /\ wire'[i] = wire[i + 1]
      BY <1>3, <2>1, TailIs
    <3>2. i + 1 = 1
      BY <1>2, <3>1
    <3> QED BY <3>1, <3>2
  <2>3. CASE e.type = QueuedType
    <3>1. client.handled = {} /\ client'.shown = {} /\ client'.handled = client.handled
      BY <1>2, <1>11, <2>1, <2>3, ReceiveIs
    <3> QED BY <2>2, <3>1
  <2>4. CASE e.type # QueuedType
    <3>1. client'.shown = client'.handled
      BY <1>2, <1>11, <2>4, ReceiveIs
    <3> QED BY <2>2, <3>1
  <2> QED BY <2>3, <2>4
<1>12. CASE \/ PublishEvent \/ PushEvent \/ PushQueued \/ SettleRow
            \/ LookUp \/ Subscribe \/ Attach \/ SecondRange \/ MaxDuration \/ RedisError
            \/ UNCHANGED vars
  <2>1. wire' = wire /\ client' = client
    BY <1>12, WireRests, BrowserRests
  <2> QED BY <1>4, <2>1
<1> QED BY <1>5, <1>6, <1>8, <1>9, <1>10, <1>11, <1>12, Steps

\* The steps that write nothing to the browser.
LEMMA HandlerMoves ==
  ASSUME StreamTypeOK,
         \/ PublishEvent \/ PushEvent \/ PushQueued \/ SettleRow
         \/ LookUp \/ Subscribe \/ Attach \/ SecondRange \/ MaxDuration \/ RedisError \/ Disconnect
         \/ Receive \/ StreamEnded \/ UNCHANGED vars
  PROVE  conn'.highest = conn.highest /\ conn'.last = conn.last /\ (Replayed' => Replayed)
<1>1. conn \in Connections
  BY DEF StreamTypeOK
<1>2. CASE conn' = conn
  BY <1>2 DEF Replayed
<1>3. CASE LookUp \/ Subscribe \/ Attach \/ SecondRange
  BY <1>1, <1>3 DEF LookUp, Subscribe, Attach, SecondRange, Replayed, Connections
<1>4. CASE MaxDuration \/ RedisError \/ Disconnect
  BY <1>1, <1>4 DEF MaxDuration, RedisError, Disconnect, CleanedUp, Replayed, Connections
<1> QED BY <1>2, <1>3, <1>4, HandlerRests

\* The order of the list and of what is still to be published.
LEMMA NextKeepsListOrdered ==
  ASSUME StreamTypeOK, Ordered, [Next]_vars
  PROVE  /\ InOrder(list') /\ InOrder(feed')
         /\ \A i \in DOMAIN list', j \in DOMAIN feed' :
              list'[i].attempt = feed'[j].attempt => list'[i].seq < feed'[j].seq
<1>1. /\ list \in Seq(Listed) /\ feed \in Seq(Published) /\ feed \in Seq(Listed)
      /\ Len(list) \in Nat /\ DOMAIN list = 1 .. Len(list)
  BY AsListed, LenProperties DEF StreamTypeOK
<1>2. /\ InOrder(list) /\ InOrder(feed)
      /\ \A i \in DOMAIN list, j \in DOMAIN feed :
           list[i].attempt = feed[j].attempt => list[i].seq < feed[j].seq
  BY DEF Ordered
<1>3. CASE list' = list /\ feed' = feed
  BY <1>2, <1>3
<1>4. ASSUME NEW e \in Listed, list' = Append(list, e)
      PROVE  \A i \in DOMAIN list' :
                (i \in DOMAIN list /\ list'[i] = list[i]) \/ list'[i] = e
  <2>1. /\ DOMAIN list' = 1 .. Len(list) + 1 /\ list'[Len(list) + 1] = e
        /\ \A j \in 1 .. Len(list) : list'[j] = list[j]
    BY <1>1, <1>4
  <2> QED BY <1>1, <2>1
<1>5. CASE PushEvent
  <2> DEFINE e == Head(feed)
  <2>1. feed # <<>> /\ list' = Append(list, e) /\ feed' = Tail(feed)
    BY <1>5 DEF PushEvent, StreamTypeOK
  <2>2. /\ e \in Published /\ e \in Listed /\ e = feed[1] /\ 1 \in DOMAIN feed
        /\ \A i \in DOMAIN feed' : i \in Nat /\ i >= 1 /\ i + 1 \in DOMAIN feed /\ feed'[i] = feed[i + 1]
    BY <1>1, <2>1, TailIs, HeadTailProperties, ListedIs
  <2> HIDE DEF e
  <2>3. InOrder(list')
    BY <1>1, <1>2, <2>1, <2>2, InOrderAppend
  <2>4. InOrder(feed')
    BY <1>1, <1>2, <2>1, InOrderTail
  <2>5. ASSUME NEW i \in DOMAIN list', NEW j \in DOMAIN feed', list'[i].attempt = feed'[j].attempt
        PROVE  list'[i].seq < feed'[j].seq
    <3>1. j \in Nat /\ j >= 1 /\ j + 1 \in DOMAIN feed /\ feed'[j] = feed[j + 1]
      BY <2>2, <2>5
    <3>2. CASE i \in DOMAIN list /\ list'[i] = list[i]
      BY <1>2, <2>5, <3>1, <3>2
    <3>3. CASE list'[i] = e
      <4>1. 1 \in 1 .. (j + 1 - 1)
        BY <3>1
      <4>2. feed[j + 1] \in Published
        BY <1>1, <3>1, LenProperties, ElementOfSeq
      <4>3. feed[j + 1].type # QueuedType
        BY <4>2, ListedIs
      <4> QED BY <1>2, <2>2, <2>5, <3>1, <3>3, <4>1, <4>3 DEF InOrder
    <3> QED BY <1>4, <2>1, <2>2, <2>5, <3>2, <3>3
  <2> QED BY <2>3, <2>4, <2>5
<1>6. CASE PushQueued
  <2>1. list' = Append(list, QueuedEvent) /\ feed' = feed
    BY <1>6 DEF PushQueued
  <2>2. InOrder(list')
    BY <1>1, <1>2, <2>1, ListedIs, InOrderAppend
  <2>3. ASSUME NEW i \in DOMAIN list', NEW j \in DOMAIN feed, list'[i].attempt = feed[j].attempt
        PROVE  list'[i].seq < feed[j].seq
    <3>1. feed[j] \in Published
      BY <1>1, <2>3, LenProperties, ElementOfSeq
    <3>2. CASE i \in DOMAIN list /\ list'[i] = list[i]
      BY <1>2, <2>3, <3>2
    <3>3. CASE list'[i] = QueuedEvent
      BY <3>1, <3>3, ListedIs
    <3> QED BY <1>4, <2>1, <2>3, <3>2, <3>3, ListedIs
  <2> QED BY <1>2, <2>1, <2>2, <2>3
<1> QED BY <1>3, <1>5, <1>6, Steps, ListRests

\* An open stream that has replayed knows the highest number it has written.
LEMMA NextKeepsOrdered ==
  ASSUME StreamTypeOK, Flags, FreshConnection, Ordered, [Next]_vars
  PROVE  Ordered'
<1>1. conn \in Connections /\ wire \in Seq(Listed) /\ list \in Seq(Listed) /\ conn.highest \in Ids
  BY DEF StreamTypeOK, Connections
<1>2. /\ InOrder(list) /\ InOrder(wire)
      /\ Replayed => \A i \in DOMAIN wire : wire[i].seq <= conn.highest
  BY DEF Ordered
<1> SUFFICES /\ InOrder(wire')
             /\ Replayed' => \A i \in DOMAIN wire' : wire'[i].seq <= conn'.highest
  BY NextKeepsListOrdered DEF Ordered
<1>3. CASE \/ PublishEvent \/ PushEvent \/ PushQueued \/ SettleRow
           \/ LookUp \/ Subscribe \/ Attach \/ SecondRange
           \/ MaxDuration \/ RedisError \/ StreamEnded \/ UNCHANGED vars
  <2>1. wire' = wire /\ conn'.highest = conn.highest /\ (Replayed' => Replayed)
    BY <1>3, WireRests, HandlerMoves
  <2> QED BY <1>2, <2>1
<1>4. CASE Disconnect \/ Connect
  <2>1. wire' = <<>>
    BY <1>4 DEF Disconnect, Connect
  <2> QED BY <2>1, NothingIs DEF InOrder
<1>5. CASE FirstRange \/ ReplayAll
  <2>1. wire' \in Seq(Listed) /\ Begins(wire', Replay) /\ conn.highest = conn.last
    BY <1>5, FirstWritten
  <2>2. Replay \in Seq(Listed) /\ InOrder(Replay)
    <3>1. Replay = Kept(list, {i \in DOMAIN list : Unseen(list[i])})
      BY DEF Replay
    <3> QED BY <1>1, <1>2, <3>1, ReplayIs, InOrderKept
  <2>3. InOrder(wire')
    BY <2>1, <2>2, InOrderPart
  <2>4. ASSUME Replayed' PROVE wire'= UpToTerminal(Replay) /\ conn'.highest = HighestOf(wire', conn.highest)
    BY <1>5, <2>4, FirstWritten DEF Replayed
  <2> QED BY <1>1, <2>1, <2>3, <2>4, HighestIs
<1>6. CASE SecondReplay
  <2> DEFINE events == UpToTerminal(NewerThan(conn.reply, conn.highest))
  <2>1. /\ events \in Seq(Listed) /\ conn.pc = "reply"
        /\ \A i \in DOMAIN events :
              /\ events[i].seq > conn.highest
              /\ \A j \in 1 .. (i - 1) : events[j].seq < events[i].seq
        /\ conn.closed => wire' = wire /\ conn'.pc = "ended" /\ conn'.closed
        /\ ~ conn.closed => wire' = wire \o events /\ conn'.highest = HighestOf(events, conn.highest)
    BY <1>6, SecondWritten
  <2> HIDE DEF events
  <2>2. CASE conn.closed
    BY <1>2, <2>1, <2>2 DEF Replayed
  <2>3. CASE ~ conn.closed
    <3>1. \A i \in DOMAIN wire : wire[i].seq <= conn.highest /\ wire[i].seq \in Nat
      BY <1>1, <1>2, <2>1, <2>3, EntryIs DEF Replayed
    <3>2. \A i \in DOMAIN events : events[i].seq \in Nat
      BY <2>1, EntryIs
    <3>3. /\ conn.highest \in Int /\ conn'.highest \in Int /\ conn.highest <= conn'.highest
          /\ \A i \in DOMAIN events : events[i].seq <= conn'.highest
      <4> DEFINE h == HighestOf(events, conn.highest)
      <4>1. h \in Ids /\ conn.highest <= h /\ \A i \in DOMAIN events : events[i].seq <= h
        BY <1>1, <2>1, HighestIs
      <4>2. conn'.highest = h
        BY <2>1, <2>3
      <4> HIDE DEF h
      <4> QED BY <1>1, <4>1, <4>2, IdsAre
    <3>4. InOrder(wire')
      <4>1. \A i \in DOMAIN events : \A j \in DOMAIN wire : wire[j].seq < events[i].seq
        BY <2>1, <3>1, <3>2, <3>3
      <4> QED BY <1>1, <1>2, <2>1, <2>3, <4>1, InOrderJoined
    <3>5. \A i \in DOMAIN wire' : wire'[i].seq <= conn'.highest
      <4>1. \A i \in DOMAIN wire : wire[i].seq <= conn'.highest
        BY <3>1, <3>3
      <4> QED BY <1>1, <2>1, <2>3, <3>3, <4>1, JoinedIs
    <3> QED BY <3>4, <3>5
  <2> QED BY <2>2, <2>3
<1>7. CASE LiveMessage
  <2> DEFINE e == Head(inbox)
  <2>1. /\ e \in Published /\ e \in Listed /\ conn.attached
        /\ conn.closed \/ e.seq <= conn.highest => wire' = wire /\ conn' = conn
        /\ ~ conn.closed /\ ~ e.seq <= conn.highest => wire' = wire \o <<e>> /\ conn'.highest = e.seq
    BY <1>7, LiveIs, ListedIs
  <2> HIDE DEF e
  <2>2. CASE conn.closed \/ e.seq <= conn.highest
    BY <1>2, <2>1, <2>2 DEF Replayed
  <2>3. CASE ~ conn.closed /\ ~ e.seq <= conn.highest
    <3>1. Replayed
      BY <1>1, <2>1, <2>3 DEF Flags, Replayed, Connections
    <3>2. \A i \in DOMAIN wire : wire[i].seq <= conn.highest /\ wire[i].seq \in Nat
      BY <1>1, <1>2, <3>1, EntryIs
    <3>3. e.seq \in Nat /\ conn.highest \in Int
      BY <1>1, <2>1, ListedIs, IdsAre
    <3>4. \A i \in DOMAIN wire : wire[i].seq < e.seq
      BY <2>3, <3>2, <3>3
    <3>5. <<e>> \in Seq(Listed) /\ DOMAIN <<e>> = {1} /\ <<e>>[1] = e
      BY <2>1
    <3>6. InOrder(wire')
      <4>1. \A i \in DOMAIN <<e>> : /\ \A j \in DOMAIN wire : wire[j].seq < <<e>>[i].seq
                                    /\ \A j \in 1 .. (i - 1) : <<e>>[j].seq < <<e>>[i].seq
        BY <3>4, <3>5
      <4> QED BY <1>1, <1>2, <2>1, <2>3, <3>5, <4>1, InOrderJoined
    <3>7. \A i \in DOMAIN wire' : wire'[i].seq <= conn'.highest
      <4>1. \A i \in DOMAIN wire : wire[i].seq <= e.seq
        BY <2>3, <3>2, <3>3
      <4>2. e.seq <= e.seq
        BY <3>3
      <4>3. \A i \in DOMAIN <<e>> : <<e>>[i].seq <= e.seq
        BY <3>5, <4>2
      <4>4. wire' = wire \o <<e>> /\ conn'.highest = e.seq
        BY <2>1, <2>3
      <4> QED BY <1>1, <3>5, <4>1, <4>3, <4>4, JoinedIs
    <3> QED BY <3>6, <3>7
  <2> QED BY <2>2, <2>3
<1>8. CASE Receive
  <2>1. wire # <<>> /\ wire' = Tail(wire) /\ conn'.highest = conn.highest /\ (Replayed' => Replayed)
    BY <1>8, ReceiveIs, HandlerMoves
  <2>2. InOrder(wire')
    BY <1>1, <1>2, <2>1, InOrderTail
  <2>3. Replayed' => \A i \in DOMAIN wire' : wire'[i].seq <= conn'.highest
    BY <1>1, <1>2, <2>1, TailIs
  <2> QED BY <2>2, <2>3
<1> QED BY <1>3, <1>4, <1>5, <1>6, <1>7, <1>8, Steps

\* The messages written after the first replay are above all that was written
\* before: the replay of the reply and a message of the channel alike.
LEMMA NewlyWritten ==
  ASSUME StreamTypeOK, Flags, FreshConnection, SecondReplay \/ LiveMessage,
         ~ (wire' = wire /\ (conn' = conn \/ ~ Replayed'))
  PROVE  \E t \in Seq(Listed) :
           /\ wire' = wire \o t /\ Replayed
           /\ \A i \in DOMAIN t : /\ t[i].type # QueuedType /\ t[i].seq > conn.highest
                                  /\ \A j \in 1 .. (i - 1) : t[j].seq < t[i].seq
           /\ conn'.highest \in Nat \cup {-1} /\ conn.highest <= conn'.highest
           /\ conn'.highest \in SeqsOf(t) \cup {conn.highest}
           /\ \A i \in DOMAIN t : t[i].seq <= conn'.highest
<1>1. conn \in Connections /\ wire \in Seq(Listed) /\ conn.highest \in Ids
  BY DEF StreamTypeOK, Connections
<1>2. CASE SecondReplay
  <2> DEFINE events == UpToTerminal(NewerThan(conn.reply, conn.highest))
  <2>1. /\ events \in Seq(Listed) /\ conn.pc = "reply"
        /\ \A i \in DOMAIN events :
              /\ events[i].type # QueuedType /\ events[i].seq > conn.highest
              /\ \A j \in 1 .. (i - 1) : events[j].seq < events[i].seq
        /\ conn.closed => wire' = wire /\ conn'.pc = "ended" /\ conn'.closed
        /\ ~ conn.closed => wire' = wire \o events /\ conn'.highest = HighestOf(events, conn.highest)
    BY <1>2, SecondWritten
  <2> DEFINE h == HighestOf(events, conn.highest)
  <2>2. ~ conn.closed
    BY <2>1 DEF Replayed
  <2>3. h \in Ids /\ conn.highest <= h /\ h \in SeqsOf(events) \cup {conn.highest}
        /\ \A i \in DOMAIN events : events[i].seq <= h
    <3> HIDE DEF events
    <3> QED BY <1>1, <2>1, HighestIs
  <2>4. conn'.highest = h /\ wire' = wire \o events /\ h \in Nat \cup {-1} /\ Replayed
    BY <2>1, <2>2, <2>3 DEF Replayed, Ids, NoEventId
  <2> HIDE DEF events, h
  <2> QED BY <2>1, <2>3, <2>4
<1>3. CASE LiveMessage
  <2> DEFINE e == Head(inbox)
  <2>1. /\ e \in Published /\ e \in Listed /\ conn.attached
        /\ conn.closed \/ e.seq <= conn.highest => wire' = wire /\ conn' = conn
        /\ ~ conn.closed /\ ~ e.seq <= conn.highest => wire' = wire \o <<e>> /\ conn'.highest = e.seq
    BY <1>3, LiveIs, ListedIs
  <2> HIDE DEF e
  <2>2. ~ conn.closed /\ ~ e.seq <= conn.highest /\ wire' = wire \o <<e>> /\ conn'.highest = e.seq
    BY <2>1
  <2>3. Replayed
    BY <1>1, <2>1, <2>2 DEF Flags, Replayed, Connections
  <2>4. e.seq \in Nat /\ conn.highest \in Int /\ e.type # QueuedType
    BY <1>1, <2>1, ListedIs, IdsAre
  <2>5. <<e>> \in Seq(Listed) /\ DOMAIN <<e>> = {1} /\ <<e>>[1] = e
    BY <2>1
  <2>6. SeqsOf(<<e>>) = {e.seq}
    BY <2>5 DEF SeqsOf
  <2>7. \A i \in DOMAIN <<e>> : /\ <<e>>[i].type # QueuedType /\ <<e>>[i].seq > conn.highest
                                /\ \A j \in 1 .. (i - 1) : <<e>>[j].seq < <<e>>[i].seq
                                /\ <<e>>[i].seq <= conn'.highest
    BY <2>2, <2>4, <2>5
  <2>8. /\ conn'.highest \in Nat \cup {-1} /\ conn.highest <= conn'.highest
        /\ conn'.highest \in SeqsOf(<<e>>) \cup {conn.highest}
    BY <2>2, <2>4, <2>6
  <2> QED BY <2>2, <2>3, <2>5, <2>7, <2>8
<1> QED BY <1>2, <1>3

\* What is on the wire is above what has been handled.
LEMMA NextKeepsHandledIsBehind ==
  ASSUME StreamTypeOK, Flags, FreshConnection, Ordered, HandledIsBehind, [Next]_vars
  PROVE  HandledIsBehind'
<1>1. /\ conn \in Connections /\ wire \in Seq(Listed) /\ list \in Seq(Listed)
      /\ client \in Browsers /\ conn.highest \in Ids
  BY DEF StreamTypeOK, Connections
<1>2. Rising' => Rising
  <2>1. Begins(list, list')
    BY ListGrows
  <2> QED BY <2>1 DEF Begins, Rising
<1> SUFFICES ASSUME Rising'
             PROVE  /\ \A h \in client'.handled : h.seq <= client'.last
                    /\ \A j \in DOMAIN wire' : wire'[j].type # QueuedType =>
                         /\ \A h \in client'.handled : Behind(h, wire'[j])
                         /\ \A i \in 1 .. (j - 1) : wire'[i].seq <= wire'[j].seq
                    /\ Replayed' => \A h \in client'.handled : h.seq <= conn'.highest
  BY DEF HandledIsBehind, Behind
<1>3. /\ \A h \in client.handled : h.seq <= client.last
      /\ \A j \in DOMAIN wire : wire[j].type # QueuedType =>
           /\ \A h \in client.handled : Behind(h, wire[j])
           /\ \A i \in 1 .. (j - 1) : wire[i].seq <= wire[j].seq
      /\ Replayed => \A h \in client.handled : h.seq <= conn.highest
  BY <1>2 DEF HandledIsBehind
<1>4. \A h \in client.handled : h.seq \in Nat /\ h.attempt \in Nat
  BY <1>1 DEF Browsers, Published
<1>5. CASE \/ PublishEvent \/ PushEvent \/ PushQueued \/ SettleRow
           \/ LookUp \/ Subscribe \/ Attach \/ SecondRange
           \/ MaxDuration \/ RedisError \/ StreamEnded \/ UNCHANGED vars
  <2>1. wire' = wire /\ conn'.highest = conn.highest /\ (Replayed' => Replayed)
    BY <1>5, WireRests, HandlerMoves
  <2>2. client'.last = client.last /\ client'.handled = client.handled
    <3>1. CASE StreamEnded
      BY <1>1, <3>1 DEF StreamEnded, Browsers
    <3> QED BY <1>5, <3>1, BrowserRests
  <2> QED BY <1>3, <2>1, <2>2
<1>6. CASE Disconnect \/ Connect
  <2>1. wire' = <<>> /\ client'.last = client.last /\ client'.handled = client.handled
    BY <1>1, <1>6 DEF Disconnect, Connect, Browsers
  <2>2. Replayed' => Replayed /\ conn'.highest = conn.highest
    <3>1. CASE Connect
      BY <3>1 DEF Connect, Fresh, Replayed
    <3> QED BY <1>6, <3>1, HandlerMoves
  <2> QED BY <1>3, <2>1, <2>2, NothingIs
<1>7. CASE FirstRange \/ ReplayAll
  <2>1. /\ wire' \in Seq(Listed) /\ Begins(wire', Replay) /\ conn.highest = conn.last
        /\ conn.last = client.last /\ client' = client /\ list' = list
    BY <1>7, FirstWritten, BrowserRests, ListRests
  <2>2. ASSUME Replayed' PROVE conn'.highest = HighestOf(wire', conn.highest)
    BY <1>7, <2>2, FirstWritten DEF Replayed
  <2>3. ASSUME NEW j \in DOMAIN wire', wire'[j].type # QueuedType
        PROVE  /\ \A h \in client'.handled : Behind(h, wire'[j])
               /\ \A i \in 1 .. (j - 1) : wire'[i].seq <= wire'[j].seq
    <3> DEFINE S == {n \in DOMAIN list : Unseen(list[n])}
    <3>1. /\ Nth(S, j) \in DOMAIN list /\ wire'[j] = list[Nth(S, j)] /\ Unseen(wire'[j])
          /\ \A i \in 1 .. (j - 1) : i \in DOMAIN wire' /\ Nth(S, i) < Nth(S, j)
      BY <2>1, <2>3, EntryOfReplay
    <3>2. \A i \in 1 .. (j - 1) : Nth(S, i) \in DOMAIN list /\ wire'[i] = list[Nth(S, i)]
      BY <2>1, <3>1, EntryOfReplay
    <3> HIDE DEF S
    <3>3. wire'[j].seq > client.last /\ wire'[j].seq \in Nat /\ client.last \in Int
      BY <1>1, <2>1, <2>3, <3>1, EntryIs, IdsAre DEF Unseen, Browsers
    <3>4. \A h \in client'.handled : h.seq < wire'[j].seq
      BY <1>3, <1>4, <2>1, <3>3
    <3>5. \A h \in client'.handled : Behind(h, wire'[j])
      BY <1>4, <2>1, <3>3, <3>4 DEF Behind
    <3>6. ASSUME NEW i \in 1 .. (j - 1) PROVE wire'[i].seq <= wire'[j].seq
      <4>1. DOMAIN list = 1 .. Len(list) /\ Len(list) \in Nat
        BY <1>1, LenProperties
      <4>2. Nth(S, i) \in DOMAIN list /\ Nth(S, j) \in DOMAIN list /\ Nth(S, i) <= Nth(S, j)
        BY <3>1, <3>2, <3>6, <4>1
      <4> QED BY <1>2, <2>3, <3>1, <3>2, <3>6, <4>2 DEF Rising
    <3> QED BY <3>5, <3>6
  <2>4. Replayed' => \A h \in client'.handled : h.seq <= conn'.highest
    <3> DEFINE top == HighestOf(wire', conn.highest)
    <3>1. top \in Ids /\ conn.highest <= top
      BY <1>1, <2>1, HighestIs
    <3> HIDE DEF top
    <3>2. top \in Int /\ conn.highest \in Int
      BY <1>1, <3>1, IdsAre
    <3>3. \A h \in client'.handled : h.seq <= top
      BY <1>3, <1>4, <2>1, <3>1, <3>2
    <3> QED BY <2>2, <3>3 DEF top
  <2> QED BY <1>3, <2>1, <2>3, <2>4
<1>8. CASE SecondReplay \/ LiveMessage
  <2>1. client' = client
    BY <1>8, BrowserRests
  <2>2. CASE wire' = wire /\ (conn' = conn \/ ~ Replayed')
    BY <1>3, <2>1, <2>2 DEF Replayed
  <2>3. CASE ~ (wire' = wire /\ (conn' = conn \/ ~ Replayed'))
    <3>1. PICK t \in Seq(Listed) :
            /\ wire' = wire \o t /\ Replayed
            /\ \A i \in DOMAIN t : /\ t[i].type # QueuedType /\ t[i].seq > conn.highest
                                   /\ \A j \in 1 .. (i - 1) : t[j].seq < t[i].seq
            /\ conn'.highest \in Nat \cup {-1} /\ conn.highest <= conn'.highest
      BY <1>8, <2>3, NewlyWritten
    <3>2. conn.highest \in Int /\ \A i \in DOMAIN t : t[i].seq \in Nat /\ t[i].attempt \in Nat
      BY <1>1, IdsAre, EntryIs
    <3>3. \A h \in client.handled : h.seq <= conn.highest
      BY <1>3, <3>1
    <3>4. \A i \in DOMAIN wire : wire[i].seq <= conn.highest /\ wire[i].seq \in Nat
      BY <1>1, <3>1, EntryIs DEF Ordered
    <3>5. \A h \in client.handled : h.seq <= conn'.highest
      BY <1>4, <3>1, <3>2, <3>3
    <3>6. \A i \in DOMAIN t : \A h \in client.handled : h.seq < t[i].seq
      BY <1>4, <3>1, <3>2, <3>3
    <3>7. \A i \in DOMAIN t : \A j \in DOMAIN wire : wire[j].seq < t[i].seq
      BY <3>1, <3>2, <3>4
    <3>8. ASSUME NEW j \in DOMAIN wire', wire'[j].type # QueuedType
          PROVE  /\ \A h \in client.handled : Behind(h, wire'[j])
                 /\ \A i \in 1 .. (j - 1) : wire'[i].seq <= wire'[j].seq
      <4>1. /\ wire' \in Seq(Listed)
            /\ \A k \in DOMAIN wire' :
                 \/ k \in DOMAIN wire /\ wire'[k] = wire[k]
                 \/ k > Len(wire) /\ k - Len(wire) \in DOMAIN t /\ wire'[k] = t[k - Len(wire)]
        BY <1>1, <3>1, JoinedIs
      <4>2. /\ DOMAIN wire' = 1 .. Len(wire') /\ Len(wire') \in Nat
            /\ DOMAIN wire = 1 .. Len(wire) /\ Len(wire) \in Nat
        BY <1>1, <4>1, LenProperties
      <4>3. \A i \in 1 .. (j - 1) : i \in DOMAIN wire' /\ i < j /\ i \in Nat /\ j \in Nat
        BY <3>8, <4>2
      <4>4. CASE j \in DOMAIN wire
        <5>1. wire'[j] = wire[j] /\ \A i \in 1 .. (j - 1) : i \in DOMAIN wire /\ wire'[i] = wire[i]
          BY <4>1, <4>2, <4>3, <4>4
        <5> QED BY <1>3, <3>8, <4>4, <5>1
      <4>5. CASE j \notin DOMAIN wire
        <5>1. j - Len(wire) \in DOMAIN t /\ wire'[j] = t[j - Len(wire)]
          BY <3>8, <4>1, <4>5
        <5>2. wire'[j].seq \in Nat /\ wire'[j].attempt \in Nat
          BY <3>2, <5>1
        <5>3. \A h \in client.handled : Behind(h, wire'[j])
          BY <1>4, <3>6, <5>1, <5>2 DEF Behind
        <5>4. ASSUME NEW i \in 1 .. (j - 1) PROVE wire'[i].seq < wire'[j].seq
          <6>1. CASE i \in DOMAIN wire /\ wire'[i] = wire[i]
            BY <3>7, <5>1, <6>1
          <6>2. CASE i > Len(wire) /\ i - Len(wire) \in DOMAIN t /\ wire'[i] = t[i - Len(wire)]
            <7>1. i - Len(wire) \in 1 .. (j - Len(wire) - 1)
              BY <4>2, <4>3, <5>4, <6>2
            <7> QED BY <3>1, <5>1, <6>2, <7>1
          <6> QED BY <4>1, <4>3, <5>4, <6>1, <6>2
        <5>5. \A i \in 1 .. (j - 1) : wire'[i].seq \in Nat
          BY <4>1, <4>3, EntryIs
        <5> QED BY <5>2, <5>3, <5>4, <5>5
      <4> QED BY <4>4, <4>5
    <3> QED BY <1>3, <2>1, <3>5, <3>8
  <2> QED BY <2>2, <2>3
<1>9. CASE Receive
  <2> DEFINE e == Head(wire)
  <2>1. /\ wire # <<>> /\ wire' = Tail(wire) /\ e = wire[1] /\ 1 \in DOMAIN wire /\ e \in Listed
        /\ conn'.highest = conn.highest /\ (Replayed' => Replayed)
    BY <1>1, <1>9, ReceiveIs, TailIs, HandlerMoves
  <2>2. /\ Tail(wire) \in Seq(Listed)
        /\ \A i \in DOMAIN Tail(wire) :
             i \in Nat /\ i >= 1 /\ i + 1 \in DOMAIN wire /\ Tail(wire)[i] = wire[i + 1]
    BY <1>1, <2>1, TailIs
  <2>3. DOMAIN Tail(wire) = 1 .. Len(Tail(wire)) /\ Len(Tail(wire)) \in Nat
    BY <2>2, LenProperties
  <2>4. /\ \A j \in DOMAIN wire' : wire'[j] = wire[j + 1] /\ j + 1 \in DOMAIN wire /\ j \in Nat /\ j >= 1
        /\ \A j \in DOMAIN wire' : \A i \in 1 .. (j - 1) :
             wire'[i] = wire[i + 1] /\ i + 1 \in 1 .. (j + 1 - 1)
    <3>1. \A j \in DOMAIN wire' : \A i \in 1 .. (j - 1) :
             i \in DOMAIN wire' /\ i + 1 \in 1 .. (j + 1 - 1)
      BY <2>1, <2>3
    <3> QED BY <2>1, <2>2, <3>1
  <2> HIDE DEF e
  <2>5. ASSUME NEW j \in DOMAIN wire', wire'[j].type # QueuedType
        PROVE  /\ \A h \in client.handled : Behind(h, wire'[j])
               /\ \A i \in 1 .. (j - 1) : wire'[i].seq <= wire'[j].seq
    <3>1. PICK n \in DOMAIN wire : n = j + 1 /\ wire'[j] = wire[n]
      BY <2>4, <2>5
    <3>2. /\ \A h \in client.handled : Behind(h, wire[n])
          /\ \A i \in 1 .. (n - 1) : wire[i].seq <= wire[n].seq
      BY <1>3, <2>5, <3>1
    <3>3. ASSUME NEW i \in 1 .. (j - 1) PROVE wire'[i].seq <= wire'[j].seq
      <4>1. wire'[i] = wire[i + 1] /\ i + 1 \in 1 .. (n - 1)
        BY <2>4, <2>5, <3>1, <3>3
      <4> QED BY <3>1, <3>2, <4>1
    <3> QED BY <3>1, <3>2, <3>3
  <2>6. ASSUME NEW j \in DOMAIN wire', wire'[j].type # QueuedType
        PROVE  Behind(e, wire'[j])
    <3>1. wire'[j] = wire[j + 1] /\ j + 1 \in DOMAIN wire /\ 1 \in 1 .. (j + 1 - 1)
      BY <2>4, <2>6
    <3>2. e.seq <= wire'[j].seq
      BY <1>3, <2>1, <2>6, <3>1
    <3>3. e.attempt = wire'[j].attempt => e.seq < wire'[j].seq
      BY <2>1, <2>6, <3>1 DEF Ordered, InOrder
    <3> QED BY <3>2, <3>3 DEF Behind
  <2>7. CASE e.type = QueuedType
    <3>1. client'.last = client.last /\ client'.handled = client.handled
      BY <1>9, <2>7, ReceiveIs DEF e
    <3> QED BY <1>3, <2>1, <2>5, <3>1
  <2>8. CASE e.type # QueuedType
    <3>1. /\ client'.last = e.seq
          /\ client'.handled = client.handled \/ client'.handled = client.handled \cup {e}
      BY <1>9, <2>8, ReceiveIs DEF e
    <3>2. e.seq \in Nat
      BY <2>1, ListedIs
    <3>3. \A h \in client.handled : h.seq <= e.seq
      BY <1>3, <2>1, <2>8 DEF Behind
    <3>4. \A h \in client'.handled : h.seq <= client'.last
      BY <3>1, <3>2, <3>3
    <3>5. Replayed' => \A h \in client'.handled : h.seq <= conn'.highest
      <4>1. Replayed' => e.seq <= conn.highest
        BY <2>1 DEF Ordered
      <4> QED BY <1>3, <2>1, <3>1, <4>1
    <3> QED BY <2>5, <2>6, <3>1, <3>4, <3>5
  <2> QED BY <2>7, <2>8
<1> QED BY <1>5, <1>6, <1>7, <1>8, <1>9, Steps

\* What is missing stays missing.
LEMMA PremiseStays ==
  ASSUME StreamTypeOK, [Next]_vars, ~ raced', Gapless'
  PROVE  ~ raced /\ Gapless
<1>1. ~ raced
  BY Steps DEF PublishEvent, PushEvent, PushQueued, SettleRow, LookUp, ReplayAll, FirstRange,
     Subscribe, Attach, SecondRange, SecondReplay, LiveMessage, MaxDuration, RedisError, Disconnect,
     Connect, Receive, StreamEnded, vars
<1>2. Follows({}, list') /\ Follows(SeqsOf(list'), feed')
  BY DEF Gapless
<1>3. list \in Seq(Listed) /\ feed \in Seq(Listed) /\ list' \in Seq(Listed) /\ Begins(list, list')
  BY AsListed, ListGrows DEF StreamTypeOK
<1>4. Follows({}, list)
  BY <1>2, <1>3, FollowsPart
<1>5. CASE list' = list /\ feed' = feed
  BY <1>1, <1>2, <1>5 DEF Gapless
<1>6. ASSUME NEW e \in Listed, list' = Append(list, e)
      PROVE  SeqsOf(list') = SeqsOf(list) \cup {e.seq}
  <2>1. /\ Len(list) \in Nat /\ DOMAIN list = 1 .. Len(list) /\ DOMAIN list' = 1 .. Len(list) + 1
        /\ list'[Len(list) + 1] = e /\ \A j \in 1 .. Len(list) : list'[j] = list[j]
    BY <1>3, <1>6, LenProperties
  <2> QED BY <2>1 DEF SeqsOf
<1>7. CASE PushEvent
  <2>1. /\ feed # <<>> /\ list' = Append(list, Head(feed)) /\ feed' = Tail(feed)
        /\ Head(feed) \in Listed
    BY <1>3, <1>7, HeadTailProperties DEF PushEvent, StreamTypeOK
  <2>2. \A k \in 1 .. (Head(feed).seq - 1) : k \in SeqsOf(list)
    BY <1>2, <1>3, <2>1, FollowsLast
  <2>3. Follows(SeqsOf(list) \cup {Head(feed).seq}, Tail(feed))
    BY <1>2, <1>6, <2>1
  <2>4. Follows(SeqsOf(list), feed)
    BY <1>3, <2>1, <2>2, <2>3, FollowsPrefixed
  <2> QED BY <1>1, <1>4, <2>4 DEF Gapless
<1>8. CASE PushQueued
  <2>1. list' = Append(list, QueuedEvent) /\ feed' = feed /\ QueuedEvent \in Listed /\ QueuedEvent.seq = 0
    BY <1>8, ListedIs DEF PushQueued
  <2>2. Follows(SeqsOf(list) \cup {0}, feed)
    BY <1>2, <1>6, <2>1
  <2>3. Follows(SeqsOf(list), feed)
    BY <1>3, <2>2, FollowsMore
  <2> QED BY <1>1, <1>4, <2>3 DEF Gapless
<1> QED BY <1>5, <1>7, <1>8, Steps, ListRests

\* What is still to come, as a sequence of events.
LEMMA ComingIs ==
  ASSUME StreamTypeOK
  PROVE  /\ feed \in Seq(Listed) /\ inbox \in Seq(Listed) /\ list \in Seq(Listed)
         /\ Unpublished \in Seq(Listed) /\ Coming \in Seq(Listed)
<1>1. feed \in Seq(Listed) /\ inbox \in Seq(Listed) /\ list \in Seq(Listed)
  BY AsListed DEF StreamTypeOK
<1>2. Unpublished \in Seq(Listed)
  BY <1>1, HeadTailProperties DEF StreamTypeOK, Unpublished
<1> QED BY <1>1, <1>2, ConcatProperties DEF Coming

\* The channel.
LEMMA NextKeepsNoneAhead ==
  ASSUME StreamTypeOK, Gapless, NoneAhead, [Next]_vars
  PROVE  NoneAhead'
<1>1. /\ list \in Seq(Listed) /\ inbox \in Seq(Listed) /\ feed \in Seq(Listed)
      /\ inbox \in Seq(Published) /\ SeqsOf(list) \subseteq SeqsOf(list')
  BY AsListed, ListGrows, SeqsOfParts DEF StreamTypeOK
<1>2. CASE \A i \in DOMAIN inbox' : \E j \in DOMAIN inbox : inbox'[i] = inbox[j]
  BY <1>1, <1>2 DEF NoneAhead
<1>3. CASE inbox' = inbox
  BY <1>2, <1>3
<1>4. CASE inbox' = <<>>
  BY <1>2, <1>4, NothingIs
<1>5. CASE PublishEvent /\ conn.subscribed
  <2> DEFINE e == Head(feed)
  <2>1. inbox' = Append(inbox, e) /\ list' = list /\ feed # <<>>
    BY <1>5 DEF PublishEvent
  <2>2. \A k \in 1 .. (e.seq - 1) : k \in SeqsOf(list)
    BY <1>1, <2>1, FollowsFirst DEF Gapless
  <2> HIDE DEF e
  <2>3. /\ Len(inbox) \in Nat /\ DOMAIN inbox = 1 .. Len(inbox) /\ DOMAIN inbox' = 1 .. Len(inbox) + 1
        /\ inbox'[Len(inbox) + 1] = e /\ \A j \in 1 .. Len(inbox) : inbox'[j] = inbox[j]
    BY <1>1, <2>1, LenProperties
  <2>4. \A i \in DOMAIN inbox' : inbox'[i] = e \/ (i \in DOMAIN inbox /\ inbox'[i] = inbox[i])
    BY <2>3
  <2> QED BY <2>1, <2>2, <2>4 DEF NoneAhead
<1>6. CASE Attach /\ inbox' # inbox
  <2>1. PICK n \in 0 .. Len(inbox) : inbox' = SubSeq(inbox, n + 1, Len(inbox))
    BY <1>6 DEF Attach
  <2> QED BY <1>1, <1>2, <2>1, DroppedIs
<1>7. CASE LiveMessage
  <2>1. inbox' = Tail(inbox) /\ inbox # <<>>
    BY <1>7 DEF LiveMessage
  <2> QED BY <1>1, <1>2, <2>1, TailIs
<1>8. CASE Subscribe \/ Connect
  BY <1>4, <1>8 DEF Subscribe, Connect
<1>9. CASE \/ (PublishEvent /\ ~ conn.subscribed)
           \/ PushEvent \/ PushQueued \/ SettleRow \/ LookUp \/ ReplayAll \/ FirstRange
           \/ SecondRange \/ SecondReplay \/ MaxDuration \/ RedisError \/ Disconnect
           \/ Receive \/ StreamEnded \/ UNCHANGED vars
  <2>1. inbox' = inbox
    BY <1>9 DEF PublishEvent, PushEvent, PushQueued, SettleRow, LookUp, ReplayAll, FirstRange,
       SecondRange, SecondReplay, MaxDuration, RedisError, Disconnect, Receive, StreamEnded, vars
  <2> QED BY <1>3, <2>1
<1> QED BY <1>3, <1>5, <1>6, <1>7, <1>8, <1>9, Steps

\* What is still to come does not change while the publisher works, unless it is
\* published before the stream has subscribed.
LEMMA ComingStays ==
  ASSUME StreamTypeOK, Flags, conn.pc \in {"reply", "live"}, ~ conn.closed,
         \/ PublishEvent \/ PushEvent \/ PushQueued \/ SettleRow \/ Receive \/ StreamEnded
         \/ UNCHANGED vars
  PROVE  Coming' = Coming
<1>1. feed \in Seq(Listed) /\ inbox \in Seq(Listed) /\ conn.subscribed
  BY ComingIs DEF Flags
<1>2. CASE PublishEvent
  <2>1. /\ feed # <<>> /\ inbox' = Append(inbox, Head(feed)) /\ feed' = feed
        /\ inFlight' /\ ~ inFlight
    BY <1>1, <1>2 DEF PublishEvent, StreamTypeOK
  <2>2. Unpublished' = Tail(feed) /\ Unpublished = feed
    BY <2>1 DEF Unpublished
  <2> QED BY <1>1, <2>1, <2>2, JoinedShifts DEF Coming
<1>3. CASE PushEvent
  <2>1. inbox' = inbox /\ Unpublished' = Unpublished
    BY <1>3 DEF PushEvent, Unpublished
  <2> QED BY <2>1 DEF Coming
<1>4. CASE PushQueued \/ SettleRow \/ Receive \/ StreamEnded \/ UNCHANGED vars
  <2>1. inbox' = inbox /\ feed' = feed /\ inFlight' = inFlight
    BY <1>4 DEF PushQueued, SettleRow, Receive, StreamEnded, vars, producerVars
  <2> QED BY <2>1 DEF Coming, Unpublished
<1> QED BY <1>2, <1>3, <1>4

\* The replay of the reply and the channel after it leave nothing out.
LEMMA NextKeepsNoneDropped ==
  ASSUME StreamTypeOK, Flags, FreshConnection, ~ raced', Gapless, NoneAhead, NoneDropped, [Next]_vars
  PROVE  NoneDropped'
<1>1. conn \in Connections /\ conn.highest \in Ids /\ conn.reply \in Seq(Listed)
  BY DEF StreamTypeOK, Connections
<1>2. /\ feed \in Seq(Listed) /\ inbox \in Seq(Listed) /\ list \in Seq(Listed)
      /\ Unpublished \in Seq(Listed) /\ Coming \in Seq(Listed)
  BY ComingIs
<1>3. CASE conn'.pc \notin {"reply", "live"} \/ (conn'.closed /\ conn'.pc # "live")
  BY <1>3 DEF NoneDropped
<1>4. CASE \/ PublishEvent \/ PushEvent \/ PushQueued \/ SettleRow \/ Receive \/ StreamEnded
           \/ UNCHANGED vars
  <2>1. conn' = conn
    BY <1>4, HandlerRests
  <2>2. CASE conn.pc \in {"reply", "live"} /\ ~ conn.closed
    <3>1. Coming' = Coming
      BY <1>4, <2>2, ComingStays
    <3> QED BY <2>1, <3>1 DEF NoneDropped
  <2>3. CASE ~ (conn.pc \in {"reply", "live"} /\ ~ conn.closed)
    BY <1>3, <2>1, <2>3 DEF Flags
  <2> QED BY <2>2, <2>3
<1>5. CASE LookUp \/ ReplayAll \/ Subscribe \/ Attach \/ MaxDuration \/ RedisError \/ Connect
  <2>1. conn'.pc \notin {"reply", "live"}
    <3>1. CASE ReplayAll \/ MaxDuration \/ RedisError
      BY <1>1, <3>1 DEF ReplayAll, MaxDuration, RedisError, CleanedUp, Connections
    <3>2. CASE LookUp
      BY <1>1, <3>2 DEF LookUp, Connections
    <3>3. CASE Subscribe
      BY <1>1, <3>3 DEF Subscribe, Connections
    <3>4. CASE Attach
      BY <1>1, <3>4 DEF Attach, Connections
    <3>5. CASE Connect
      BY <3>5 DEF Connect, Fresh
    <3> QED BY <1>5, <3>1, <3>2, <3>3, <3>4, <3>5
  <2> QED BY <1>3, <2>1
<1>6. CASE FirstRange
  <2>1. conn'.pc \in {"subscribe", "ended"}
    BY <1>6, FirstWritten
  <2> QED BY <1>3, <2>1
<1>7. CASE Disconnect
  <2>1. CASE conn.pc = "lookup"
    BY <1>3, <1>7, <2>1 DEF Disconnect
  <2>2. CASE conn.pc # "lookup"
    <3>1. conn'.closed /\ conn'.pc # "live"
      BY <1>1, <1>7, <2>2 DEF Disconnect, CleanedUp, Connections
    <3> QED BY <1>3, <3>1
  <2> QED BY <2>1, <2>2
<1>8. CASE SecondRange
  <2>1. /\ conn'.pc = "reply" /\ conn'.reply = list /\ conn'.highest = conn.highest
        /\ inbox' = inbox /\ feed' = feed /\ inFlight' = inFlight /\ list' = list
    BY <1>1, <1>8 DEF SecondRange, Connections, producerVars
  <2>2. Coming' = Coming
    BY <2>1 DEF Coming, Unpublished
  <2> DEFINE B == (1 .. conn.highest) \cup SeqsOf(list)
  <2>3. Follows(B, inbox)
    BY <1>2, FollowsAll DEF NoneAhead
  <2>4. Follows(SeqsOf(list), feed)
    BY DEF Gapless
  <2>5. Follows(B \cup SeqsOf(inbox), Unpublished)
    <3>1. CASE ~ inFlight
      <4>1. Unpublished = feed
        BY <3>1 DEF Unpublished
      <4> QED BY <1>2, <2>4, <4>1, FollowsMore
    <3>2. CASE inFlight
      <4>1. Unpublished = Tail(feed) /\ feed # <<>>
        BY <3>2 DEF Unpublished, StreamTypeOK
      <4>2. \E i \in DOMAIN inbox : inbox[i] = Head(feed)
        BY <1>8, <3>2 DEF SecondRange
      <4>3. Head(feed).seq \in SeqsOf(inbox)
        BY <4>2 DEF SeqsOf
      <4>4. SeqsOf(list) \cup {Head(feed).seq} \subseteq B \cup SeqsOf(inbox)
        BY <4>3
      <4> HIDE DEF B
      <4> QED BY <1>2, <2>4, <4>1, <4>4, FollowsTail
    <3> QED BY <3>1, <3>2 DEF StreamTypeOK
  <2>6. Follows(B, Coming)
    <3> HIDE DEF B
    <3> QED BY <1>2, <2>3, <2>5, FollowsJoined DEF Coming
  <2> QED BY <2>1, <2>2, <2>6 DEF NoneDropped, Gapless
<1>9. CASE SecondReplay
  <2> DEFINE newer == NewerThan(conn.reply, conn.highest)
             events == UpToTerminal(newer)
             top == HighestOf(newer, conn.highest)
  <2>1. /\ events \in Seq(Listed) /\ newer \in Seq(Listed) /\ conn.pc = "reply"
        /\ conn.closed => conn'.pc = "ended"
        /\ ~ conn.closed => /\ conn'.highest = HighestOf(events, conn.highest)
                            /\ conn'.pc \in {"live", "ended"}
                            /\ conn'.pc = "live" => ~ EndsStream(events)
    BY <1>9, SecondWritten
  <2>2. CASE conn'.pc = "ended"
    BY <1>3, <2>2
  <2>3. CASE conn'.pc = "live" /\ ~ conn.closed
    <3>1. events = newer
      BY <2>1, <2>3, CutIs
    <3>2. conn'.highest = top /\ top \in Ids /\ conn.highest <= top
      <4>1. conn'.highest = top
        BY <2>1, <2>3, <3>1
      <4>2. top \in Ids /\ conn.highest <= top
        <5> HIDE DEF newer
        <5> QED BY <1>1, <2>1, HighestIs
      <4> QED BY <4>1, <4>2
    <3>3. \A k \in SeqsOf(conn.reply) : k # 0 => k <= top
      BY <1>1, NewerTop
    <3>4. Follows((1 .. conn.highest) \cup SeqsOf(conn.reply), Coming)
      BY <2>1, <2>3 DEF NoneDropped
    <3>5. Coming' = Coming
      BY <1>9 DEF SecondReplay, Coming, Unpublished, producerVars
    <3> HIDE DEF top, newer, events
    <3>6. \A k \in (1 .. conn.highest) \cup SeqsOf(conn.reply) : k \in Nat \ {0} => k \in 1 .. top
      <4>1. conn.highest \in Int /\ top \in Int
        BY <1>1, <3>2, IdsAre
      <4> QED BY <3>2, <3>3, <4>1
    <3>7. Follows(1 .. top, Coming)
      BY <1>2, <3>4, <3>6, FollowsMore
    <3> QED BY <2>3, <3>2, <3>5, <3>7 DEF NoneDropped
  <2> QED BY <2>1, <2>2, <2>3
<1>10. CASE LiveMessage
  <2> DEFINE e == Head(inbox)
  <2>1. /\ e \in Published /\ conn.attached /\ inbox # <<>> /\ inbox' = Tail(inbox)
        /\ conn.closed \/ e.seq <= conn.highest => conn' = conn
        /\ ~ conn.closed /\ ~ e.seq <= conn.highest =>
             /\ conn'.highest = e.seq
             /\ raced' = (raced \/ conn.pc \in {"range2", "reply"})
             /\ IsTerminal(e) => conn'.closed /\ conn'.pc = IF conn.pc = "live" THEN "ended" ELSE conn.pc
             /\ ~ IsTerminal(e) => conn'.pc = conn.pc
    BY <1>10, LiveIs
  <2>2. feed' = feed /\ inFlight' = inFlight
    BY <1>10 DEF LiveMessage, producerVars
  <2>3. Coming # <<>> /\ Head(Coming) = e /\ Coming' = Tail(Coming)
    BY <1>2, <2>1, <2>2, JoinedShifts DEF Coming, Unpublished
  <2>4. e.seq \in Nat /\ e.seq >= 1 /\ conn.highest \in Int
    BY <1>1, <2>1, ListedIs, IdsAre
  <2> HIDE DEF e
  <2>5. CASE conn.closed
    BY <1>3, <2>1, <2>5 DEF Flags
  <2>6. CASE ~ conn.closed /\ e.seq <= conn.highest
    <3>1. e.seq \in 1 .. conn.highest
      BY <2>4, <2>6
    <3>2. ASSUME NEW B, Follows(B, Coming), 1 .. conn.highest \subseteq B PROVE Follows(B, Coming')
      <4>1. B \cup {e.seq} \subseteq B
        BY <3>1, <3>2
      <4> QED BY <1>2, <2>3, <3>2, <4>1, FollowsTail
    <3> QED BY <2>1, <2>6, <3>2 DEF NoneDropped
  <2>7. CASE ~ conn.closed /\ ~ e.seq <= conn.highest
    <3>1. conn.pc = "live"
      BY <1>1, <2>1, <2>7 DEF Flags, Connections
    <3>2. CASE IsTerminal(e)
      BY <1>3, <2>1, <2>7, <3>1, <3>2
    <3>3. CASE ~ IsTerminal(e)
      <4>1. (1 .. conn.highest) \cup {e.seq} \subseteq 1 .. e.seq
        BY <2>4, <2>7
      <4>2. Follows(1 .. conn.highest, Coming)
        BY <3>1 DEF NoneDropped
      <4>3. Follows(1 .. e.seq, Coming')
        BY <1>2, <2>3, <4>1, <4>2, FollowsTail
      <4> QED BY <2>1, <2>7, <3>1, <3>3, <4>3 DEF NoneDropped
    <3> QED BY <3>2, <3>3
  <2> QED BY <2>5, <2>6, <2>7
<1> QED BY <1>4, <1>5, <1>6, <1>7, <1>8, <1>9, <1>10, Steps

\* Nothing is missing of what was written to the browser.
LEMMA NextKeepsNoneMissed ==
  ASSUME StreamTypeOK, Flags, FreshConnection, ~ raced', Gapless, NoneMissedYet, NoneDropped,
         [Next]_vars
  PROVE  NoneMissedYet'
<1>1. /\ conn \in Connections /\ wire \in Seq(Listed) /\ list \in Seq(Listed)
      /\ client \in Browsers /\ conn.highest \in Ids /\ conn.reply \in Seq(Listed)
  BY DEF StreamTypeOK, Connections
<1>2. /\ \A h \in client.handled : \A k \in 1 .. h.seq : k \in Seen
      /\ \A k \in 1 .. client.last : k \in Seen
      /\ Follows(Seen, wire)
      /\ Replayed => \A k \in 1 .. conn.highest : k \in Seen \cup SeqsOf(wire)
  BY DEF NoneMissedYet
<1>3. CASE \/ PublishEvent \/ PushEvent \/ PushQueued \/ SettleRow
           \/ LookUp \/ Subscribe \/ Attach \/ SecondRange
           \/ MaxDuration \/ RedisError \/ StreamEnded \/ UNCHANGED vars
  <2>1. wire' = wire /\ conn'.highest = conn.highest /\ (Replayed' => Replayed)
    BY <1>3, WireRests, HandlerMoves
  <2>2. client'.last = client.last /\ client'.handled = client.handled
    <3>1. CASE StreamEnded
      BY <1>1, <3>1 DEF StreamEnded, Browsers
    <3> QED BY <1>3, <3>1, BrowserRests
  <2>3. Seen' = Seen
    BY <2>2 DEF Seen
  <2> QED BY <1>2, <2>1, <2>2, <2>3 DEF NoneMissedYet
<1>4. CASE Disconnect \/ Connect
  <2>1. wire' = <<>> /\ client'.last = client.last /\ client'.handled = client.handled
    BY <1>1, <1>4 DEF Disconnect, Connect, Browsers
  <2>2. ~ Replayed'
    <3>1. CASE Connect
      BY <3>1 DEF Connect, Fresh, Replayed
    <3>2. CASE Disconnect
      BY <1>1, <3>2 DEF Disconnect, CleanedUp, Replayed, Connections
    <3> QED BY <1>4, <3>1, <3>2
  <2>3. Seen' = Seen
    BY <2>1 DEF Seen
  <2> QED BY <1>2, <2>1, <2>2, <2>3, FollowsNothing DEF NoneMissedYet
<1>5. CASE FirstRange \/ ReplayAll
  <2>1. /\ wire' \in Seq(Listed) /\ Begins(wire', Replay) /\ conn.highest = conn.last
        /\ conn.last = client.last /\ client' = client
    BY <1>5, FirstWritten, BrowserRests
  <2>2. Follows(1 .. conn.last, Replay) /\ Replay \in Seq(Listed)
    <3> DEFINE S == {i \in DOMAIN list : Unseen(list[i])}
    <3>1. Replay = Kept(list, S) /\ S \in SUBSET DOMAIN list /\ Replay \in Seq(Listed)
      BY ReplayIs DEF Replay
    <3>2. \A i \in DOMAIN list : list[i].seq > conn.last /\ list[i].seq >= 1 => i \in S
      <4> SUFFICES ASSUME NEW i \in DOMAIN list, list[i].seq > conn.last, list[i].seq >= 1
                   PROVE  i \in S
        OBVIOUS
      <4>1. list[i].type # QueuedType
        BY <1>1, EntryIs, ListedIs
      <4> QED BY <4>1 DEF Unseen
    <3>3. Follows({}, list) /\ conn.last \in Ids
      BY <1>1 DEF Gapless, Connections
    <3> HIDE DEF S
    <3> QED BY <1>1, <3>1, <3>2, <3>3, FollowsKept
  <2>3. 1 .. conn.last \subseteq Seen
    BY <1>2, <2>1
  <2>4. Follows(Seen, wire')
    BY <2>1, <2>2, <2>3, FollowsPart
  <2>5. Seen' = Seen
    BY <2>1 DEF Seen
  <2>6. ASSUME Replayed' PROVE \A k \in 1 .. conn'.highest : k \in Seen \cup SeqsOf(wire')
    <3> DEFINE top == HighestOf(wire', conn.highest)
    <3>1. conn'.highest = top
      BY <1>5, <2>6, FirstWritten DEF Replayed
    <3>2. top \in SeqsOf(wire') \cup {conn.highest}
      BY <1>1, <2>1, HighestIs
    <3>3. \A k \in 1 .. conn.highest : k \in Seen
      BY <2>1, <2>3
    <3> HIDE DEF top
    <3> QED BY <2>1, <2>4, <3>1, <3>2, <3>3, FollowsTop
  <2> QED BY <1>2, <2>1, <2>4, <2>5, <2>6 DEF NoneMissedYet
<1>6. CASE SecondReplay \/ LiveMessage
  <2>1. client' = client
    BY <1>6, BrowserRests
  <2>2. Seen' = Seen
    BY <2>1 DEF Seen
  <2>3. CASE wire' = wire /\ (conn' = conn \/ ~ Replayed')
    BY <1>2, <2>1, <2>2, <2>3 DEF NoneMissedYet, Replayed
  <2>4. ASSUME NEW t \in Seq(Listed), wire' = wire \o t, Replayed,
               conn'.highest \in SeqsOf(t) \cup {conn.highest}, Follows(1 .. conn.highest, t)
        PROVE  NoneMissedYet'
    <3> DEFINE B == Seen \cup SeqsOf(wire)
    <3>1. 1 .. conn.highest \subseteq B
      BY <1>2, <2>4
    <3>2. Follows(B, t)
      <4>1. Begins(t, t)
        BY <2>4, LenProperties DEF Begins
      <4> HIDE DEF B
      <4> QED BY <2>4, <3>1, <4>1, FollowsPart
    <3>3. Follows(Seen, wire')
      BY <1>1, <1>2, <2>4, <3>2, FollowsJoined
    <3>4. \A k \in 1 .. conn'.highest : k \in B \cup SeqsOf(t)
      <4>1. \A k \in 1 .. conn.highest : k \in B
        BY <3>1
      <4> HIDE DEF B
      <4> QED BY <2>4, <3>2, <4>1, FollowsTop
    <3>5. SeqsOf(wire') = SeqsOf(wire) \cup SeqsOf(t)
      BY <1>1, <2>4, SeqsOfParts
    <3> QED BY <1>2, <2>1, <2>2, <3>3, <3>4, <3>5 DEF NoneMissedYet
  <2>5. CASE SecondReplay /\ ~ (wire' = wire /\ (conn' = conn \/ ~ Replayed'))
    <3> DEFINE newer == NewerThan(conn.reply, conn.highest)
               t == UpToTerminal(newer)
    <3>1. /\ t \in Seq(Listed) /\ newer \in Seq(Listed) /\ Begins(t, newer) /\ conn.pc = "reply"
          /\ conn.closed => wire' = wire /\ conn'.pc = "ended" /\ conn'.closed
          /\ ~ conn.closed => wire' = wire \o t /\ conn'.highest = HighestOf(t, conn.highest)
      BY <2>5, SecondWritten
    <3>2. ~ conn.closed
      BY <2>5, <3>1 DEF Replayed
    <3>3. Replayed
      BY <3>1, <3>2 DEF Replayed
    <3>4. Follows({}, conn.reply)
      BY <3>1, <3>2 DEF NoneDropped
    <3>5. Follows(1 .. conn.highest, newer)
      BY <1>1, <3>4, FollowsNewer
    <3> HIDE DEF newer
    <3>6. HighestOf(t, conn.highest) \in SeqsOf(t) \cup {conn.highest}
      <4> HIDE DEF t
      <4> QED BY <1>1, <3>1, HighestIs
    <3> HIDE DEF t
    <3>7. Follows(1 .. conn.highest, t)
      BY <3>1, <3>5, FollowsPart
    <3> QED BY <2>4, <3>1, <3>2, <3>3, <3>6, <3>7
  <2>6. CASE LiveMessage /\ ~ (wire' = wire /\ (conn' = conn \/ ~ Replayed'))
    <3> DEFINE e == Head(inbox)
    <3>1. /\ e \in Published /\ e \in Listed /\ conn.attached /\ inbox # <<>>
          /\ conn.closed \/ e.seq <= conn.highest => wire' = wire /\ conn' = conn
          /\ ~ conn.closed /\ ~ e.seq <= conn.highest =>
               /\ wire' = wire \o <<e>> /\ conn'.highest = e.seq
               /\ raced' = (raced \/ conn.pc \in {"range2", "reply"})
      BY <2>6, LiveIs, ListedIs
    <3>2. ~ conn.closed /\ ~ e.seq <= conn.highest
      BY <2>6, <3>1
    <3>3. conn.pc = "live" /\ Replayed
      BY <1>1, <3>1, <3>2 DEF Flags, Connections, Replayed
    <3>4. Follows(1 .. conn.highest, Coming) /\ Coming \in Seq(Listed)
      BY <3>3, ComingIs DEF NoneDropped
    <3>5. Coming # <<>> /\ Head(Coming) = e
      BY <3>1, ComingIs, JoinedShifts DEF Coming
    <3>6. \A k \in 1 .. (e.seq - 1) : k \in 1 .. conn.highest
      BY <3>4, <3>5, FollowsFirst
    <3> HIDE DEF e
    <3>7. <<e>> \in Seq(Listed) /\ DOMAIN <<e>> = {1} /\ <<e>>[1] = e
      BY <3>1
    <3>8. Follows(1 .. conn.highest, <<e>>)
      BY <3>6, <3>7, FollowsAll
    <3>9. conn'.highest \in SeqsOf(<<e>>) \cup {conn.highest}
      BY <3>1, <3>2, <3>7 DEF SeqsOf
    <3> QED BY <2>4, <3>1, <3>2, <3>3, <3>7, <3>8, <3>9
  <2> QED BY <1>6, <2>3, <2>5, <2>6
<1>7. CASE Receive
  <2> DEFINE e == Head(wire)
  <2>1. /\ wire # <<>> /\ wire' = Tail(wire) /\ wire' \in Seq(Listed) /\ e \in Listed /\ e.seq \in Nat
        /\ conn'.highest = conn.highest /\ (Replayed' => Replayed)
    BY <1>7, ReceiveIs, HandlerMoves, ListedIs
  <2>2. SeqsOf(wire) = {e.seq} \cup SeqsOf(wire')
    BY <1>1, <2>1, SeqsOfParts
  <2>3. \A k \in 1 .. (e.seq - 1) : k \in Seen
    BY <1>1, <1>2, <2>1, FollowsFirst
  <2>4. ASSUME NEW C, Seen \cup {e.seq} \subseteq C PROVE Follows(C, wire')
    BY <1>1, <1>2, <2>1, <2>4, FollowsTail
  <2>5. CASE e.type = QueuedType
    <3>1. client'.last = client.last /\ client'.handled = client.handled /\ e.seq = 0
      BY <1>7, <2>1, <2>5, ReceiveIs, ListedIs
    <3>2. Seen' = Seen
      BY <3>1 DEF Seen
    <3>3. Follows(Seen \cup {e.seq}, wire')
      BY <2>4
    <3>4. Follows(Seen, wire')
      BY <2>1, <3>1, <3>3, FollowsMore
    <3>5. Replayed' => \A k \in 1 .. conn'.highest : k \in Seen \cup SeqsOf(wire')
      <4>1. \A k \in 1 .. conn.highest : k # 0
        OBVIOUS
      <4> QED BY <1>2, <2>1, <2>2, <3>1, <4>1
    <3> QED BY <1>2, <3>1, <3>2, <3>4, <3>5 DEF NoneMissedYet
  <2>6. CASE e.type # QueuedType /\ IsNew(e)
    <3>1. client'.last = e.seq /\ client'.handled = client.handled \cup {e}
      BY <1>7, <2>6, ReceiveIs
    <3>2. Seen' = Seen \cup {e.seq}
      BY <3>1 DEF Seen
    <3> HIDE DEF e
    <3>3. \A k \in 1 .. e.seq : k \in Seen'
      <4> SUFFICES ASSUME NEW k \in 1 .. e.seq, k # e.seq PROVE k \in Seen
        BY <3>2
      <4>1. k \in 1 .. (e.seq - 1)
        BY <2>1
      <4> QED BY <2>3, <4>1
    <3>4. Follows(Seen', wire')
      BY <2>4, <3>2
    <3>5. Replayed' => \A k \in 1 .. conn'.highest : k \in Seen' \cup SeqsOf(wire')
      BY <1>2, <2>1, <2>2, <3>2
    <3>6. \A h \in client'.handled : \A k \in 1 .. h.seq : k \in Seen'
      BY <1>2, <3>1, <3>2, <3>3
    <3> QED BY <3>1, <3>3, <3>4, <3>5, <3>6 DEF NoneMissedYet
  <2>7. CASE e.type # QueuedType /\ ~ IsNew(e)
    <3>1. client'.last = e.seq /\ client'.handled = client.handled
      BY <1>7, <2>7, ReceiveIs
    <3>2. Seen' = Seen
      BY <3>1 DEF Seen
    <3> HIDE DEF e
    <3>3. PICK h \in client.handled : ~ h.seq < e.seq
      BY <2>7 DEF IsNew
    <3>4. h.seq \in Nat /\ e.seq <= h.seq
      <4>1. h.seq \in Nat
        BY <1>1, <3>3 DEF Browsers, Published
      <4> QED BY <2>1, <3>3, <4>1
    <3>5. \A k \in 1 .. e.seq : k \in Seen
      <4>1. \A k \in 1 .. e.seq : k \in 1 .. h.seq
        BY <2>1, <3>4
      <4> QED BY <1>2, <3>3, <4>1
    <3>6. e.seq \in Nat /\ (e.seq # 0 => e.seq \in Seen)
      <4>1. e.seq # 0 => e.seq \in 1 .. e.seq
        BY <2>1
      <4> QED BY <2>1, <3>5, <4>1
    <3>7. Follows(Seen \cup {e.seq}, wire')
      BY <2>4
    <3>8. Follows(Seen, wire')
      BY <2>1, <3>6, <3>7, FollowsMore
    <3>9. Replayed' => \A k \in 1 .. conn'.highest : k \in Seen \cup SeqsOf(wire')
      <4>1. \A k \in 1 .. conn.highest : k # 0
        OBVIOUS
      <4> QED BY <1>2, <2>1, <2>2, <3>6, <4>1
    <3> QED BY <1>2, <3>1, <3>2, <3>5, <3>8, <3>9 DEF NoneMissedYet
  <2> QED BY <2>5, <2>6, <2>7
<1> QED BY <1>3, <1>4, <1>5, <1>6, <1>7, Steps

\* The three together, each from the state before.
LEMMA NextKeepsNoneMissing ==
  ASSUME StreamTypeOK, Flags, FreshConnection, NoneMissing, [Next]_vars
  PROVE  NoneMissing'
<1> SUFFICES ASSUME ~ raced', Gapless' PROVE NoneMissedYet' /\ NoneAhead' /\ NoneDropped'
  BY DEF NoneMissing
<1>1. ~ raced /\ Gapless
  BY PremiseStays
<1>2. NoneMissedYet /\ NoneAhead /\ NoneDropped
  BY <1>1 DEF NoneMissing
<1> QED BY <1>1, <1>2, NextKeepsNoneMissed, NextKeepsNoneAhead, NextKeepsNoneDropped

-----------------------------------------------------------------------------
(* The theorems. *)

\* The invariant holds at first.
LEMMA InitInv == Init => StreamInv
<1> SUFFICES ASSUME Init PROVE StreamInv
  OBVIOUS
<1>1. StreamTypeOK
  BY InitType
<1>2. /\ conn = Closed /\ list = <<>> /\ wire = <<>> /\ inbox = <<>> /\ raced = FALSE
      /\ client.last = NoEventId /\ client.handled = {} /\ client.shown = {} /\ queued = "pending"
      /\ InOrder(feed)
  BY FeedIs DEF Init
<1>3. /\ conn.pc = "ended" /\ conn.closed /\ ~ conn.subscribed /\ ~ conn.timers /\ ~ conn.attached
  BY <1>2 DEF Closed
<1>4. DOMAIN list = {} /\ DOMAIN wire = {} /\ DOMAIN inbox = {}
  BY <1>2, NothingIs
<1>5. Flags /\ FreshConnection /\ NothingHandledYet
  BY <1>2, <1>3 DEF Flags, FreshConnection, NothingHandledYet
<1>6. QueuedOnce /\ QueuedIsFirst
  BY <1>2, <1>4 DEF QueuedOnce, QueuedIsFirst
<1>7. Ordered /\ HandledIsBehind
  BY <1>2, <1>3, <1>4 DEF Ordered, HandledIsBehind, InOrder, Replayed
<1>8. NoneMissing
  <2>1. Follows(Seen, wire)
    BY <1>2, FollowsNothing
  <2>2. \A k \in 1 .. client.last : FALSE
    BY <1>2 DEF NoEventId
  <2> QED BY <1>2, <1>3, <1>4, <2>1, <2>2
      DEF NoneMissing, NoneMissedYet, NoneAhead, NoneDropped, Replayed
<1> QED BY <1>1, <1>5, <1>6, <1>7, <1>8 DEF StreamInv

\* Every step keeps the invariant.
LEMMA NextKeepsInv == StreamInv /\ [Next]_vars => StreamInv'
<1> SUFFICES ASSUME StreamInv, [Next]_vars PROVE StreamInv'
  OBVIOUS
<1>1. /\ StreamTypeOK /\ Flags /\ FreshConnection /\ NothingHandledYet
      /\ QueuedOnce /\ QueuedIsFirst /\ Ordered /\ HandledIsBehind /\ NoneMissing
  BY DEF StreamInv
<1>2. StreamTypeOK'
  BY <1>1, Steps, ProducerKeepsType, RouteKeepsType, OthersKeepType
<1>3. Flags' /\ FreshConnection' /\ NothingHandledYet'
  BY <1>1, NextKeepsFlags, NextKeepsFresh, NextKeepsNothingHandled
<1>4. QueuedOnce' /\ QueuedIsFirst'
  BY <1>1, NextKeepsQueuedOnce, NextKeepsQueuedIsFirst
<1>5. Ordered' /\ HandledIsBehind'
  BY <1>1, NextKeepsOrdered, NextKeepsHandledIsBehind
<1>6. NoneMissing'
  BY <1>1, NextKeepsNoneMissing
<1> QED BY <1>2, <1>3, <1>4, <1>5, <1>6 DEF StreamInv

\* It always holds.
LEMMA StreamInvariant == Spec => []StreamInv
  BY InitInv, NextKeepsInv, PTL DEF Spec

\* The streams, the channel, the list and the browser hold what their code puts
\* there, over any number of broken connections and whatever is published.
THEOREM StreamTypeCorrect == Spec => []StreamTypeOK
<1>1. StreamInv => StreamTypeOK
  BY DEF StreamInv
<1> QED BY <1>1, StreamInvariant, PTL

\* At whichever await a stream is closed, a handler that has ended has quit its
\* subscriber and cleared its timers.
THEOREM StreamsLeakNothing == Spec => []NothingLeaks
<1>1. StreamInv => NothingLeaks
  BY DEF StreamInv, Flags, NothingLeaks
<1> QED BY <1>1, StreamInvariant, PTL

\* What the browser has handled stays on the page over any number of
\* reconnections, if 'queued' has been listed first.
THEOREM OutputIsKept == Spec => []OutputKept
<1>1. StreamInv => OutputKept
  BY DEF StreamInv, QueuedIsFirst, OutputKept
<1> QED BY <1>1, StreamInvariant, PTL

\* Nothing is written to the browser a second time: in an attempt's order always,
\* and, if the numbers do not go back, nothing it has handled before.
THEOREM NothingIsToldTwice == Spec => []NeverTwice
<1>1. StreamInv => NeverTwice
  <2> SUFFICES ASSUME StreamInv, NEW j \in DOMAIN wire, wire[j].type # QueuedType
               PROVE  /\ wire[j] \in client.handled => ~ Rising
                      /\ \A i \in 1 .. (j - 1) :
                           wire[i].attempt = wire[j].attempt => wire[i].seq < wire[j].seq
    BY DEF NeverTwice
  <2>1. wire \in Seq(Listed) /\ InOrder(wire) /\ HandledIsBehind
    BY DEF StreamInv, StreamTypeOK, Ordered
  <2>2. wire[j].seq \in Nat
    BY <2>1, EntryIs
  <2>3. ASSUME wire[j] \in client.handled, Rising PROVE FALSE
    <3>1. Behind(wire[j], wire[j])
      BY <2>1, <2>3 DEF HandledIsBehind
    <3> QED BY <2>2, <3>1 DEF Behind
  <2> QED BY <2>1, <2>3 DEF InOrder
<1> QED BY <1>1, StreamInvariant, PTL

\* The two replays and the channel together leave nothing out: without a gap in
\* the numbers and without a race, all that was numbered before an event the
\* browser has handled has been handled.
THEOREM NothingIsSkipped == Spec => []NoEventSkipped
<1>1. StreamInv => NoEventSkipped
  BY DEF StreamInv, NoneMissing, NoneMissedYet, Seen, NoEventSkipped
<1> QED BY <1>1, StreamInvariant, PTL
=============================================================================
