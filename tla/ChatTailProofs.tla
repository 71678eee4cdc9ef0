---------------------------- MODULE ChatTailProofs ----------------------------
(***************************************************************************)
(* Theorems about ChatTail, for any number of runs, any tail bound and any *)
(* budget of faults.                                                       *)
(*                                                                         *)
(* A run has a placeholder of its own after its question (Placed); a tail  *)
(* and a history that was read show the table in order (Ordered); whoever  *)
(* is past the open question holds it (Asking); without mishaps, what a    *)
(* tail lacks is what the one run under way has still to bring (Complete). *)
(***************************************************************************)
EXTENDS ChatTail, Integers, SequenceTheorems, FiniteSetTheorems, TLAPS
-----------------------------------------------------------------------------
(* Sets of places, and histories as sequences.                             *)

LEMMA Least ==
  ASSUME NEW T \in SUBSET Nat, T # {}
  PROVE  \E x \in T : \A y \in T : x <= y
<1>1. PICK x \in T : \A y \in T : ~(<<y, x>> \in OpToRel(<, Nat))
  BY NatLessThanWellFounded, WFMin
<1>2. \A y \in T : ~(y < x)
  BY <1>1 DEF OpToRel
<1> QED
  BY <1>2

\* The elements of a set of numbers up to one of them number the set.
UpTo(S, i) == {j \in S : j <= i}

LEMMA UpToFacts ==
  ASSUME NEW S \in SUBSET Nat, IsFiniteSet(S), NEW i \in Nat
  PROVE  /\ \A j : j \in UpTo(S, i) <=> j \in S /\ j \in Nat /\ j <= i
         /\ UpTo(S, i) \subseteq S
         /\ IsFiniteSet(UpTo(S, i)) /\ Cardinality(UpTo(S, i)) \in Nat
<1>1. /\ \A j : j \in UpTo(S, i) <=> j \in S /\ j \in Nat /\ j <= i
      /\ UpTo(S, i) \subseteq S
  BY DEF UpTo
<1> QED
  BY <1>1, FS_Subset, FS_CardinalityType

LEMMA Fewer ==
  ASSUME NEW S \in SUBSET Nat, IsFiniteSet(S), NEW i \in Nat, NEW k \in S, i < k
  PROVE  Cardinality(UpTo(S, i)) < Cardinality(UpTo(S, k))
<1>1. \A j \in S : j <= i => j <= k
  OBVIOUS
<1>2. UpTo(S, i) \subseteq UpTo(S, k)
  BY <1>1, UpToFacts
<1>3. k \in UpTo(S, k) /\ k \notin UpTo(S, i)
  BY UpToFacts
<1>4. IsFiniteSet(UpTo(S, k)) /\ Cardinality(UpTo(S, i)) \in Nat
      /\ Cardinality(UpTo(S, k)) \in Nat
  BY UpToFacts
<1> QED
  BY <1>2, <1>3, <1>4, FS_Subset

LEMMA Ranked ==
  ASSUME NEW hi \in Nat, NEW S \in SUBSET (1 .. hi), NEW n \in 1 .. Cardinality(S)
  PROVE  \E i \in S : Cardinality(UpTo(S, i)) = n
<1> DEFINE T == {i \in Nat : n <= Cardinality(UpTo(S, i))}
<1>0. 1 .. hi \subseteq Nat /\ IsFiniteSet(1 .. hi)
  BY FS_Interval
<1>1. S \in SUBSET Nat /\ IsFiniteSet(S) /\ Cardinality(S) \in Nat
  BY <1>0, FS_Subset, FS_CardinalityType
<1>2. UpTo(S, hi) = S /\ UpTo(S, 0) = {}
  <2>1. \A j \in S : j <= hi /\ ~(j <= 0)
    OBVIOUS
  <2>2. \A j : (j \in UpTo(S, hi) <=> j \in S) /\ j \notin UpTo(S, 0)
    BY <1>1, <2>1, UpToFacts
  <2> QED
    BY <2>2, Zenon
<1>3. hi \in T /\ 0 \notin T
  BY <1>1, <1>2, FS_EmptySet
<1>4. PICK i \in T : \A k \in T : i <= k
  BY <1>3, Least
<1>5. i \in Nat /\ i # 0 /\ i - 1 \in Nat /\ i - 1 \notin T
  BY <1>3, <1>4
<1>6. UpTo(S, i) = IF i \in S THEN UpTo(S, i - 1) \cup {i} ELSE UpTo(S, i - 1)
  <2>1. \A j \in Nat : j <= i <=> j <= i - 1 \/ j = i
    BY <1>5
  <2>2. /\ \A j : j \in UpTo(S, i) <=> j \in S /\ j \in Nat /\ j <= i
        /\ \A j : j \in UpTo(S, i - 1) <=> j \in S /\ j \in Nat /\ j <= i - 1
    BY <1>1, <1>5, UpToFacts
  <2>3. \A j : j \in UpTo(S, i) <=> j \in UpTo(S, i - 1) \/ (i \in S /\ j = i)
    BY <1>5, <2>1, <2>2
  <2> QED
    BY <2>3, Zenon
<1>7. /\ IsFiniteSet(UpTo(S, i - 1)) /\ Cardinality(UpTo(S, i - 1)) \in Nat
      /\ i \notin UpTo(S, i - 1)
  BY <1>1, <1>5, UpToFacts
<1>8. Cardinality(UpTo(S, i - 1)) < n /\ n <= Cardinality(UpTo(S, i))
  BY <1>4, <1>5, <1>7
<1>9. i \in S
  BY <1>6, <1>7, <1>8
<1>10. Cardinality(UpTo(S, i)) = Cardinality(UpTo(S, i - 1)) + 1
  BY <1>6, <1>7, <1>9, FS_AddElement
<1>11. Cardinality(UpTo(S, i)) = n
  BY <1>7, <1>8, <1>10
<1> QED
  BY <1>9, <1>11

\* What InOrder returns: what is at the places, each once, in order.
LEMMA InOrderFacts ==
  ASSUME NEW hi \in Nat, NEW S \in SUBSET (1 .. hi), \A i \in S : Shown(i) \in Entry
  PROVE  /\ InOrder(S) \in Seq(Entry) /\ Len(InOrder(S)) = Cardinality(S)
         /\ Cardinality(S) \in Nat
         /\ \A n \in 1 .. Cardinality(S) :
              /\ \E i \in S : InOrder(S)[n] = Shown(i)
              /\ \A m \in 1 .. n - 1 : InOrder(S)[m].seq < InOrder(S)[n].seq
         /\ \A i \in S : \E n \in 1 .. Cardinality(S) : InOrder(S)[n] = Shown(i)
<1> DEFINE Place(n) == CHOOSE i \in S : Cardinality(UpTo(S, i)) = n
<1>0. 1 .. hi \subseteq Nat /\ IsFiniteSet(1 .. hi)
  BY FS_Interval
<1>1. IsFiniteSet(S) /\ Cardinality(S) \in Nat /\ S \in SUBSET Nat
  BY <1>0, FS_Subset, FS_CardinalityType
<1>2. InOrder(S) = [n \in 1 .. Cardinality(S) |-> Shown(Place(n))]
  BY DEF InOrder, UpTo
<1>3. \A n \in 1 .. Cardinality(S) : Place(n) \in S /\ Cardinality(UpTo(S, Place(n))) = n
  BY Ranked
<1> HIDE DEF Place
<1>4. \A n \in 1 .. Cardinality(S) : \A m \in 1 .. n - 1 : Place(m) < Place(n)
  <2> SUFFICES ASSUME NEW n \in 1 .. Cardinality(S), NEW m \in 1 .. n - 1
               PROVE  Place(m) < Place(n)
    OBVIOUS
  <2>1. m \in 1 .. Cardinality(S)
    BY <1>1
  <2>2. PICK a \in S : a = Place(m) /\ Cardinality(UpTo(S, a)) = m
    BY <1>3, <2>1
  <2>3. PICK b \in S : b = Place(n) /\ Cardinality(UpTo(S, b)) = n
    BY <1>3
  <2>4. a \in Nat /\ b \in Nat
    BY <1>1
  <2>5. ~(b < a)
    BY <1>1, <2>2, <2>3, <2>4, Fewer
  <2>6. a # b
    BY <2>2, <2>3
  <2> QED
    BY <2>2, <2>3, <2>4, <2>5, <2>6
<1>5. \A i \in S : \E n \in 1 .. Cardinality(S) : Place(n) = i
  <2> SUFFICES ASSUME NEW i \in S PROVE \E n \in 1 .. Cardinality(S) : Place(n) = i
    OBVIOUS
  <2>0. i \in Nat /\ i <= i
    BY <1>1
  <2>1. UpTo(S, i) \subseteq S /\ i \in UpTo(S, i) /\ i \in Nat
        /\ IsFiniteSet(UpTo(S, i)) /\ Cardinality(UpTo(S, i)) \in Nat
    BY <1>1, <2>0, UpToFacts
  <2>2. Cardinality(UpTo(S, i)) \in 1 .. Cardinality(S)
    BY <1>1, <2>1, FS_Subset, FS_EmptySet
  <2>3. PICK n \in 1 .. Cardinality(S) : n = Cardinality(UpTo(S, i))
    BY <2>2
  <2>4. PICK a \in S : a = Place(n) /\ Cardinality(UpTo(S, a)) = n
    BY <1>3
  <2>5. a \in Nat
    BY <1>1
  <2>6. ~(a < i)
    BY <1>1, <2>1, <2>3, <2>4, <2>5, Fewer
  <2>7. ~(i < a)
    BY <1>1, <2>1, <2>3, <2>4, <2>5, Fewer
  <2> QED
    BY <2>1, <2>4, <2>5, <2>6, <2>7
<1>6. \A n \in 1 .. Cardinality(S) :
        InOrder(S)[n] = Shown(Place(n)) /\ Shown(Place(n)) \in Entry
        /\ Shown(Place(n)).seq = Place(n)
  BY <1>2, <1>3 DEF Shown
<1>7. InOrder(S) \in Seq(Entry) /\ Len(InOrder(S)) = Cardinality(S)
  BY <1>1, <1>2, <1>6
<1>8. \A n \in 1 .. Cardinality(S) : \A m \in 1 .. n - 1 :
        InOrder(S)[m].seq < InOrder(S)[n].seq
  <2> SUFFICES ASSUME NEW n \in 1 .. Cardinality(S), NEW m \in 1 .. n - 1
               PROVE  InOrder(S)[m].seq < InOrder(S)[n].seq
    OBVIOUS
  <2>1. m \in 1 .. Cardinality(S)
    BY <1>1
  <2> QED
    BY <1>4, <1>6, <2>1
<1>9. \A n \in 1 .. Cardinality(S) : \E i \in S : InOrder(S)[n] = Shown(i)
  BY <1>3, <1>6
<1>10. \A i \in S : \E n \in 1 .. Cardinality(S) : InOrder(S)[n] = Shown(i)
  BY <1>5, <1>6
<1> QED
  BY <1>1, <1>7, <1>8, <1>9, <1>10

LEMMA Entries ==
  ASSUME NEW h \in Seq(Entry)
  PROVE  /\ Len(h) \in Nat /\ DOMAIN h = 1 .. Len(h)
         /\ \A i \in 1 .. Len(h) : h[i] \in Entry /\ h[i].seq \in Nat
<1>1. \A i \in 1 .. Len(h) : h[i] \in Entry
  OBVIOUS
<1>2. \A e \in Entry : e.seq \in Nat
  BY DEF Entry
<1> QED
  BY <1>1, <1>2

Rising(h) == \A i \in DOMAIN h : \A j \in 1 .. i - 1 : h[j].seq < h[i].seq

\* In a rising sequence of entries the seqs are as far apart as the places.
LEMMA Spread ==
  ASSUME NEW h \in Seq(Entry), Rising(h), NEW p \in DOMAIN h
  PROVE  Len(h) - p <= h[Len(h)].seq - h[p].seq
<1> DEFINE T == {k \in Nat : p + k <= Len(h) /\ h[p + k].seq - h[p].seq < k}
<1>0. \A k : k \in T <=> k \in Nat /\ p + k <= Len(h) /\ h[p + k].seq - h[p].seq < k
  OBVIOUS
<1> HIDE DEF T
<1>1. /\ Len(h) \in Nat /\ p \in 1 .. Len(h)
      /\ \A i \in 1 .. Len(h) : h[i].seq \in Nat
  BY Entries
<1>2. CASE T = {}
  <2>1. Len(h) - p \in Nat /\ p + (Len(h) - p) = Len(h)
    BY <1>1
  <2>2. Len(h) - p \notin T
    BY <1>2
  <2>3. ~(h[Len(h)].seq - h[p].seq < Len(h) - p)
    BY <1>0, <1>1, <2>1, <2>2
  <2> QED
    BY <1>1, <2>3
<1>3. CASE T # {}
  <2>0. T \subseteq Nat
    BY <1>0
  <2>1. PICK k \in T : \A i \in T : k <= i
    BY <1>3, <2>0, Least
  <2>2. k \in Nat /\ p + k <= Len(h) /\ h[p + k].seq - h[p].seq < k
    BY <1>0, <2>1
  <2>3. k # 0
    BY <1>1, <2>2
  <2>4. k - 1 \in Nat /\ p + (k - 1) \in 1 .. Len(h) /\ p + k \in 1 .. Len(h)
        /\ p + (k - 1) <= Len(h) /\ p + (k - 1) \in 1 .. (p + k) - 1
    BY <1>1, <2>2, <2>3
  <2>5. k - 1 \notin T
    BY <2>1, <2>2
  <2>6. ~(h[p + (k - 1)].seq - h[p].seq < k - 1)
    BY <1>0, <2>4, <2>5
  <2>7. h[p + (k - 1)].seq < h[p + k].seq
    BY <2>4, Entries DEF Rising
  <2>8. h[p].seq \in Nat /\ h[p + (k - 1)].seq \in Nat /\ h[p + k].seq \in Nat
    BY <1>1, <2>4
  <2> QED
    BY <2>2, <2>6, <2>7, <2>8
<1> QED
  BY <1>2, <1>3

\* The end of a sequence is one whose elements have moved.
LEMMA Suffix ==
  ASSUME NEW all \in Seq(Entry), NEW k \in 1 .. Len(all), Rising(all)
  PROVE  LET new == SubSeq(all, k, Len(all))
         IN  /\ new \in Seq(Entry) /\ Rising(new)
             /\ \A i \in DOMAIN new : \E n \in k .. Len(all) : new[i] = all[n]
             /\ \A n \in k .. Len(all) : \E i \in DOMAIN new : new[i] = all[n]
<1> DEFINE new == SubSeq(all, k, Len(all))
<1>1. /\ k \in Int /\ Len(all) \in Int /\ k <= Len(all)
      /\ \A i \in k .. Len(all) : i \in 1 .. Len(all)
  BY Entries
<1>2. \A i \in k .. Len(all) : all[i] \in Entry
  BY <1>1
<1>3. /\ new \in Seq(Entry) /\ Len(new) = Len(all) - k + 1
      /\ \A i \in 1 .. Len(all) - k + 1 : new[i] = all[k + i - 1]
  BY <1>1, <1>2, SubSeqProperties
<1> HIDE DEF new
<1>4. DOMAIN new = 1 .. Len(all) - k + 1
  BY <1>3
<1>5. \A i \in 1 .. Len(all) - k + 1 : k + i - 1 \in k .. Len(all)
  BY <1>1
<1>6. \A n \in k .. Len(all) : n - k + 1 \in 1 .. Len(all) - k + 1 /\ k + (n - k + 1) - 1 = n
  BY <1>1
<1>7. Rising(new)
  <2> SUFFICES ASSUME NEW i \in 1 .. Len(all) - k + 1, NEW j \in 1 .. i - 1
               PROVE  new[j].seq < new[i].seq
    BY <1>4 DEF Rising
  <2>1. j \in 1 .. Len(all) - k + 1 /\ k + j - 1 \in 1 .. (k + i - 1) - 1
    BY <1>1
  <2>2. k + i - 1 \in DOMAIN all
    BY <1>1, <1>5
  <2>3. all[k + j - 1].seq < all[k + i - 1].seq
    BY <2>1, <2>2 DEF Rising
  <2> QED
    BY <1>3, <2>1, <2>3
<1>8. \A i \in DOMAIN new : \E n \in k .. Len(all) : new[i] = all[n]
  BY <1>3, <1>4, <1>5
<1>9. \A n \in k .. Len(all) : \E i \in DOMAIN new : new[i] = all[n]
  BY <1>3, <1>4, <1>6
<1> QED
  BY <1>3, <1>7, <1>8, <1>9 DEF new

LEMMA Appending ==
  ASSUME NEW h \in Seq(Entry), NEW e \in Entry, Rising(h),
         \A i \in DOMAIN h : h[i].seq < e.seq
  PROVE  LET all == Append(h, e)
         IN  /\ all \in Seq(Entry) /\ Rising(all) /\ Len(all) = Len(h) + 1
             /\ all[Len(all)] = e /\ \A i \in 1 .. Len(h) : all[i] = h[i]
<1> DEFINE all == Append(h, e)
<1>1. /\ all \in Seq(Entry) /\ Len(all) = Len(h) + 1 /\ Len(h) \in Nat
      /\ all[Len(h) + 1] = e /\ \A i \in 1 .. Len(h) : all[i] = h[i]
  OBVIOUS
<1> HIDE DEF all
<1>2. Rising(all)
  <2> SUFFICES ASSUME NEW i \in 1 .. Len(h) + 1, NEW j \in 1 .. i - 1
               PROVE  all[j].seq < all[i].seq
    BY <1>1 DEF Rising
  <2>1. j \in 1 .. Len(h)
    BY <1>1
  <2>2. CASE i \in 1 .. Len(h)
    BY <1>1, <2>1, <2>2 DEF Rising
  <2>3. CASE i = Len(h) + 1
    BY <1>1, <2>1, <2>3
  <2> QED
    BY <1>1, <2>2, <2>3
<1> QED
  BY <1>1, <1>2 DEF all

\* What the append script returns: the old messages but those trimmed, and the new.
LEMMA AppendedFacts ==
  ASSUME NEW t, NEW e \in Entry, t # NoTail, t.msgs \in Seq(Entry), Rising(t.msgs),
         \A i \in DOMAIN t.msgs : t.msgs[i].seq <= t.seq, t.seq \in Nat, t.seq < e.seq
  PROVE  \E new \in Seq(Entry) :
             /\ Appended(t, e) = [msgs |-> new, seq |-> e.seq] /\ Rising(new)
             /\ \A i \in DOMAIN new : new[i] = e \/ \E j \in DOMAIN t.msgs : new[i] = t.msgs[j]
             /\ \E i \in DOMAIN new : new[i] = e
             /\ \A j \in DOMAIN t.msgs : e.seq - MaxTail < t.msgs[j].seq =>
                  \E i \in DOMAIN new : new[i] = t.msgs[j]
<1> DEFINE all == Append(t.msgs, e)
           k == Larger(1, Len(all) - MaxTail + 1)
           new == SubSeq(all, k, Len(all))
<1>1. Appended(t, e) = [msgs |-> new, seq |-> e.seq]
  BY DEF Appended
<1>2. e.seq \in Nat /\ Len(t.msgs) \in Nat /\ \A i \in DOMAIN t.msgs : t.msgs[i].seq < e.seq
  <2>1. e.seq \in Nat
    BY DEF Entry
  <2> QED
    BY <2>1, Entries
<1>3. /\ all \in Seq(Entry) /\ Rising(all) /\ Len(all) = Len(t.msgs) + 1
      /\ all[Len(all)] = e /\ \A i \in 1 .. Len(t.msgs) : all[i] = t.msgs[i]
  BY <1>2, Appending
<1> HIDE DEF all
<1>4. k \in 1 .. Len(all) /\ (k = 1 \/ k = Len(all) - MaxTail + 1)
  BY <1>2, <1>3, TailAssumption DEF Larger
<1> HIDE DEF k
<1>5. /\ new \in Seq(Entry) /\ Rising(new)
      /\ \A i \in DOMAIN new : \E n \in k .. Len(all) : new[i] = all[n]
      /\ \A n \in k .. Len(all) : \E i \in DOMAIN new : new[i] = all[n]
  BY <1>3, <1>4, Suffix
<1> HIDE DEF new
<1>6. \A n \in k .. Len(all) : n \in 1 .. Len(t.msgs) \/ n = Len(all)
  BY <1>2, <1>3, <1>4
<1>7. \A i \in DOMAIN new : new[i] = e \/ \E j \in DOMAIN t.msgs : new[i] = t.msgs[j]
  <2>1. DOMAIN t.msgs = 1 .. Len(t.msgs)
    BY Entries
  <2>2. \A n \in k .. Len(all) : all[n] = e \/ \E j \in DOMAIN t.msgs : all[n] = t.msgs[j]
    BY <1>3, <1>6, <2>1
  <2> QED
    BY <1>5, <2>2
<1>8. \E i \in DOMAIN new : new[i] = e
  <2>1. Len(all) \in k .. Len(all)
    BY <1>2, <1>3, <1>4
  <2> QED
    BY <1>3, <1>5, <2>1
<1>9. ASSUME NEW j \in DOMAIN t.msgs, e.seq - MaxTail < t.msgs[j].seq
      PROVE  \E i \in DOMAIN new : new[i] = t.msgs[j]
  <2>1. j \in 1 .. Len(t.msgs) /\ j \in DOMAIN all /\ all[j] = t.msgs[j] /\ t.msgs[j].seq \in Nat
    BY <1>3, Entries
  <2>2. Len(all) - j <= e.seq - t.msgs[j].seq
    BY <1>3, <2>1, Spread
  <2>3. Len(all) - j <= MaxTail - 1
    BY <1>2, <1>3, <1>9, <2>1, <2>2, TailAssumption
  <2>4. j \in k .. Len(all)
    BY <1>2, <1>3, <1>4, <2>1, <2>3, TailAssumption
  <2> QED
    BY <1>5, <2>1, <2>4
<1> QED
  BY <1>1, <1>5, <1>7, <1>8, <1>9
-----------------------------------------------------------------------------
(* Types, and what the steps do to the table.                              *)

Counts ==
  /\ messages \in Seq(Message) /\ lastSeq \in Nat
  /\ snap \in [Run -> Nat] /\ slot \in [Run -> Nat]

Functions == DOMAIN pc = Run /\ context \in [Run -> Seq(Entry)]

Idle == {"new", "reply"}                   \* nothing of the run is committed
Active == {"append", "enqueue", "queued", "fetch", "populate", "run"}

\* A run that posted has a placeholder of its own after its question.
Posted(r) ==
  /\ snap[r] \in Questions /\ slot[r] \in DOMAIN messages /\ snap[r] < slot[r]
  /\ messages[slot[r]] # "question"
  /\ \A s \in Run \ {r} : slot[s] # slot[r]
  /\ pc[r] \in Active => messages[slot[r]] = "pending"
  /\ pc[r] = "record" => messages[slot[r]] = "answer"
Placed ==
  \A r \in Run :
    /\ pc[r] \in Idle => slot[r] = 0
    /\ pc[r] = "reply" => snap[r] \in DOMAIN messages /\ messages[snap[r]] \in Card
    /\ pc[r] \notin Idle => Posted(r)

\* Messages are added, and none becomes a question or ceases to be one or an answer.
Grown ==
  /\ Len(messages) \in Nat /\ DOMAIN messages = 1 .. Len(messages)
  /\ Len(messages') \in Nat /\ DOMAIN messages' = 1 .. Len(messages')
  /\ Len(messages) <= Len(messages')
  /\ \A i \in 1 .. Len(messages) :
       /\ messages[i] \in {"question", "answer"} => messages'[i] = messages[i]
       /\ messages'[i] = "question" => messages[i] = "question"

LEMMA Lengths ==
  ASSUME Counts
  PROVE  /\ Len(messages) \in Nat /\ DOMAIN messages = 1 .. Len(messages)
         /\ \A i \in 1 .. Len(messages) : messages[i] \in Message
BY DEF Counts

\* A message that changes what it is stays a message of its sequence.
LEMMA Changed ==
  ASSUME messages \in Seq(Message), NEW i, NEW m \in Message
  PROVE  [messages EXCEPT ![i] = m] \in Seq(Message)
<1>1. CASE i \in 1 .. Len(messages)
  BY <1>1, ExceptSeq
<1>2. CASE i \notin 1 .. Len(messages)
  <2>1. i \notin DOMAIN messages
    BY <1>2
  <2>2. [messages EXCEPT ![i] = m] = messages
    BY <2>1
  <2> QED
    BY <2>2
<1> QED
  BY <1>2

LEMMA CountsNext == ASSUME Counts, [Next]_vars PROVE Counts'
<1>1. ASSUME NEW r \in Run, Ask(r) PROVE Counts'
  <2>1. messages' \in Seq(Message)
    BY <1>1 DEF Ask, Counts, Message
  <2>2. Len(messages) \in Nat
    BY DEF Counts
  <2> QED
    BY <1>1, <2>1, <2>2 DEF Ask, Counts
<1>2. ASSUME NEW r \in Run, ReplyCheck(r) PROVE Counts'
  <2>1. \A i \in DOMAIN messages : i \in Nat
    BY DEF Counts
  <2> QED
    BY <1>2, <2>1 DEF ReplyCheck, Counts
<1>3. ASSUME NEW r \in Run, ReplyCommit(r) PROVE Counts'
  <2>1. messages' \in Seq(Message)
    <3>1. [messages EXCEPT ![snap[r]] = "replied"] \in Seq(Message)
      BY Changed DEF Counts, Message
    <3> QED
      BY <1>3, <3>1 DEF ReplyCommit, Message
  <2>2. Len(messages) \in Nat
    BY DEF Counts
  <2> QED
    BY <1>3, <2>1, <2>2 DEF ReplyCommit, Counts
<1>4. ASSUME NEW r \in Run, Finish(r) \/ Fail(r) PROVE Counts'
  <2>1. messages' \in Seq(Message)
    <3>1. \A m \in Message : [messages EXCEPT ![slot[r]] = m] \in Seq(Message)
      BY Changed DEF Counts
    <3> QED
      BY <1>4, <3>1 DEF Finish, Fail, Counts, Message
  <2> QED
    BY <1>4, <2>1 DEF Finish, Fail, Larger, Counts, run
<1>5. ASSUME NEW r \in Run,
             \/ AppendUser(r) \/ Enqueue(r) \/ Load(r) \/ Fetch(r)
             \/ Populate(r) \/ AppendAssistant(r) \/ Crash(r)
      PROVE  Counts'
  BY <1>5 DEF AppendUser, Enqueue, Load, Fetch, Populate,
     AppendAssistant, Crash, Counts, run
<1>6. CASE Expire \/ UNCHANGED vars
  BY <1>6 DEF Expire, vars, Counts, run
<1> QED
  BY <1>1, <1>2, <1>3, <1>4, <1>5, <1>6 DEF Next

LEMMA AskFacts ==
  ASSUME Counts, NEW r \in Run, Ask(r)
  PROVE  /\ Len(messages') = Len(messages) + 2
         /\ DOMAIN messages' = 1 .. Len(messages) + 2
         /\ \A i \in 1 .. Len(messages) : messages'[i] = messages[i]
         /\ messages'[Len(messages) + 1] = "question"
         /\ messages'[Len(messages) + 2] = "pending"
<1> DEFINE pair == <<"question", "pending">>
<1>1. pair \in Seq(Message) /\ Len(pair) = 2
      /\ pair[1] = "question" /\ pair[2] = "pending"
  BY DEF Message
<1>2. messages' = messages \o pair /\ messages \in Seq(Message)
  BY DEF Ask, Counts
<1> HIDE DEF pair
<1>3. /\ messages \o pair \in Seq(Message) /\ Len(messages \o pair) = Len(messages) + Len(pair)
      /\ \A i \in 1 .. Len(messages) + Len(pair) : (messages \o pair)[i] =
           IF i <= Len(messages) THEN messages[i] ELSE pair[i - Len(messages)]
  BY <1>1, <1>2, ConcatProperties, Zenon
<1>4. Len(messages) \in Nat
  BY Lengths
<1>5. DOMAIN (messages \o pair) = 1 .. Len(messages \o pair)
  BY <1>3, LenProperties, Zenon
<1>6. Len(messages \o pair) = Len(messages) + 2
  BY <1>1, <1>3
<1> DEFINE both == messages \o pair
<1>7. messages' = both
  BY <1>2
<1> HIDE DEF both
<1>8. \A i \in 1 .. Len(messages) + 2 :
        both[i] = IF i <= Len(messages) THEN messages[i] ELSE pair[i - Len(messages)]
  BY <1>1, <1>3 DEF both
<1> QED
  BY <1>1, <1>4, <1>5, <1>6, <1>7, <1>8 DEF both

LEMMA ReplyFacts ==
  ASSUME Counts, NEW r \in Run, ReplyCommit(r), snap[r] \in DOMAIN messages
  PROVE  /\ Len(messages') = Len(messages) + 1
         /\ DOMAIN messages' = 1 .. Len(messages) + 1
         /\ \A i \in 1 .. Len(messages) :
              messages'[i] = IF i = snap[r] THEN "replied" ELSE messages[i]
         /\ messages'[Len(messages) + 1] = "pending"
<1> DEFINE old == [messages EXCEPT ![snap[r]] = "replied"]
<1>1. messages' = Append(old, "pending")
  BY DEF ReplyCommit
<1>2. snap[r] \in 1 .. Len(messages) /\ messages \in Seq(Message)
  BY DEF Counts
<1>3. old \in Seq(Message) /\ Len(old) = Len(messages)
      /\ \A i \in 1 .. Len(messages) :
           old[i] = IF i = snap[r] THEN "replied" ELSE messages[i]
  BY <1>2, ExceptSeq DEF Message
<1> HIDE DEF old
<1>4. /\ messages' \in Seq(Message) /\ Len(messages') = Len(messages) + 1
      /\ \A i \in 1 .. Len(messages) : messages'[i] = old[i]
      /\ messages'[Len(messages) + 1] = "pending"
  BY <1>1, <1>3, AppendProperties DEF Message
<1> QED
  BY <1>3, <1>4

LEMMA SetFacts ==
  ASSUME Counts, NEW i \in 1 .. Len(messages), NEW m,
         messages' = [messages EXCEPT ![i] = m]
  PROVE  /\ Len(messages') = Len(messages)
         /\ DOMAIN messages' = 1 .. Len(messages)
         /\ messages'[i] = m
         /\ \A j \in 1 .. Len(messages) : j # i => messages'[j] = messages[j]
BY DEF Counts

\* Only four of the steps touch the table.
LEMMA TableSteps ==
  ASSUME [Next]_vars
  PROVE  \/ messages' = messages
         \/ \E r \in Run : Ask(r) \/ ReplyCommit(r) \/ Finish(r) \/ Fail(r)
BY DEF Next, vars, run, history, Expire, ReplyCheck, AppendUser, Enqueue, Load, Fetch,
   Populate, AppendAssistant, Crash

\* The end of a run writes to its own placeholder.
LEMMA EndFacts ==
  ASSUME Counts, Placed, NEW r \in Run, Finish(r) \/ Fail(r)
  PROVE  /\ pc[r] \in Active /\ slot[r] \in 1 .. Len(messages) /\ messages[slot[r]] = "pending"
         /\ snap' = snap /\ slot' = slot
         /\ pc' = [pc EXCEPT ![r] = IF Finish(r) /\ messages'[slot[r]] = "answer"
                                    THEN "record" ELSE "done"]
         /\ Len(messages') = Len(messages) /\ DOMAIN messages' = 1 .. Len(messages)
         /\ messages'[slot[r]] \in {"pending", "answer", "card", "error"}
         /\ \A j \in 1 .. Len(messages) : j # slot[r] => messages'[j] = messages[j]
<1>1. pc[r] \in Active /\ snap' = snap /\ slot' = slot
  BY DEF Finish, Fail, Active, run
<1>2. slot[r] \in 1 .. Len(messages) /\ messages[slot[r]] = "pending"
  BY <1>1, Lengths DEF Placed, Posted, Active, Idle
<1>3. \/ messages' = messages
      \/ \E m \in {"answer", "card", "error"} : messages' = [messages EXCEPT ![slot[r]] = m]
  BY DEF Finish, Fail
<1>4. /\ Len(messages') = Len(messages) /\ DOMAIN messages' = 1 .. Len(messages)
      /\ messages'[slot[r]] \in {"pending", "answer", "card", "error"}
      /\ \A j \in 1 .. Len(messages) : j # slot[r] => messages'[j] = messages[j]
  BY <1>2, <1>3, SetFacts, Lengths
<1>5. pc' = [pc EXCEPT ![r] = IF Finish(r) /\ messages'[slot[r]] = "answer"
                              THEN "record" ELSE "done"]
  <2>1. CASE Finish(r) /\ messages' = [messages EXCEPT ![slot[r]] = "answer"] /\ GoTo(r, "record")
    <3>1. messages'[slot[r]] = "answer"
      BY <1>2, <2>1, SetFacts
    <3> QED
      BY <2>1, <3>1 DEF GoTo
  <2>2. CASE Finish(r) /\ messages' = [messages EXCEPT ![slot[r]] = "card"] /\ GoTo(r, "done")
    <3>1. messages'[slot[r]] # "answer"
      BY <1>2, <2>2, SetFacts
    <3> QED
      BY <2>2, <3>1 DEF GoTo
  <2>3. CASE Fail(r)
    <3>1. messages'[slot[r]] # "answer"
      <4>1. messages' = messages \/ messages' = [messages EXCEPT ![slot[r]] = "error"]
        BY <2>3 DEF Fail
      <4> QED
        BY <1>2, <4>1, SetFacts
    <3> QED
      BY <2>3, <3>1 DEF Fail, GoTo
  <2> QED
    BY <2>1, <2>2, <2>3 DEF Finish
<1> QED
  BY <1>1, <1>2, <1>4, <1>5

LEMMA GrownNext == ASSUME Counts, Placed, [Next]_vars PROVE Grown
<1>1. CASE messages' = messages
  BY <1>1, Lengths DEF Grown
<1>2. ASSUME NEW r \in Run, Ask(r) PROVE Grown
  BY <1>2, AskFacts, Lengths DEF Grown
<1>3. ASSUME NEW r \in Run, ReplyCommit(r) PROVE Grown
  <2>1. snap[r] \in DOMAIN messages /\ messages[snap[r]] \in Card
    BY <1>3 DEF Placed, ReplyCommit
  <2> QED
    BY <1>3, <2>1, ReplyFacts, Lengths DEF Grown, Card
<1>4. ASSUME NEW r \in Run, Finish(r) \/ Fail(r) PROVE Grown
  BY <1>4, EndFacts, Lengths DEF Grown
<1> QED
  BY <1>1, <1>2, <1>3, <1>4, TableSteps

\* What is on the table stays a question, an answer, or neither.
LEMMA StaysOn ==
  ASSUME Grown
  PROVE  /\ Questions \subseteq Questions' /\ Answers \subseteq Answers'
         /\ DOMAIN messages \subseteq DOMAIN messages'
         /\ \A i \in DOMAIN messages : i \in Questions' => i \in Questions
         /\ \A i \in Questions \cup Answers : Shown(i)' = Shown(i)
         /\ \A i \in DOMAIN messages : i \in Nat /\ 1 <= i /\ i <= Len(messages)
<1>1. \A i \in 1 .. Len(messages) : i \in 1 .. Len(messages')
  BY DEF Grown
<1> QED
  BY <1>1 DEF Grown, Questions, Answers, Shown
-----------------------------------------------------------------------------
(* A placeholder for each run.                                             *)

\* What a step leaves of a run that it is not a step of.
LEMMA OthersStay ==
  ASSUME Counts, Functions, NEW r \in Run, NEW s \in Run \ {r},
         \/ Ask(r) \/ ReplyCheck(r) \/ ReplyCommit(r) \/ AppendUser(r)
         \/ Enqueue(r) \/ Load(r) \/ Fetch(r) \/ Populate(r)
         \/ Finish(r) \/ Fail(r) \/ AppendAssistant(r) \/ Crash(r)
  PROVE  /\ pc'[s] = pc[s] /\ slot'[s] = slot[s] /\ snap'[s] = snap[s]
         /\ context'[s] = context[s]
<1>1. pc'[s] = pc[s]
  BY DEF Functions, Ask, ReplyCheck, ReplyCommit, AppendUser, Enqueue, Load, Fetch,
     Populate, Finish, Fail, AppendAssistant, Crash, GoTo
<1>2. slot'[s] = slot[s]
  BY DEF Counts, Ask, ReplyCheck, ReplyCommit, AppendUser, Enqueue, Load, Fetch,
     Populate, Finish, Fail, AppendAssistant, Crash, run
<1>3. snap'[s] = snap[s]
  BY DEF Counts, Ask, ReplyCheck, ReplyCommit, AppendUser, Enqueue, Load, Fetch,
     Populate, Finish, Fail, AppendAssistant, Crash, run
<1>4. context'[s] = context[s]
  BY DEF Functions, Ask, ReplyCheck, ReplyCommit, AppendUser, Enqueue, Load, Fetch,
     Populate, Finish, Fail, AppendAssistant, Crash
<1> QED
  BY <1>1, <1>2, <1>3, <1>4

\* A run that has posted stays one unless it is a step of its own.
LEMMA PlacedNext == ASSUME Counts, Functions, Placed, [Next]_vars PROVE Placed'
<1>0. Grown
  BY GrownNext
<1>1. ASSUME NEW r \in Run, Ask(r) PROVE Placed'
  <2>1. pc[r] = "new" /\ pc' = [pc EXCEPT ![r] = "append"]
        /\ snap' = [snap EXCEPT ![r] = Len(messages) + 1]
        /\ slot' = [slot EXCEPT ![r] = Len(messages) + 2]
    BY <1>1 DEF Ask, GoTo
  <2>2. ASSUME NEW s \in Run \ {r}
        PROVE  /\ pc'[s] = pc[s] /\ slot'[s] = slot[s] /\ snap'[s] = snap[s]
               /\ slot[s] < Len(messages) + 2
    <3>1. pc[s] \in Idle => slot[s] = 0
      BY DEF Placed
    <3>2. pc[s] \notin Idle => slot[s] \in DOMAIN messages
      BY DEF Placed, Posted
    <3>3. slot[s] < Len(messages) + 2
      BY <3>1, <3>2, Lengths
    <3> QED
      BY <1>1, <3>3, OthersStay
  <2>3. pc'[r] = "append" /\ snap'[r] = Len(messages) + 1 /\ slot'[r] = Len(messages) + 2
    BY <2>1 DEF Counts, Functions
  <2>4. Posted(r)'
    <3>1. snap'[r] \in Questions'
      BY <1>1, <2>3, AskFacts, Lengths DEF Questions
    <3>2. \A s \in Run \ {r} : slot'[s] # slot'[r]
      BY <2>2, <2>3, Lengths DEF Counts
    <3> QED
      BY <1>1, <2>3, <3>1, <3>2, AskFacts, Lengths DEF Posted
  <2>5. ASSUME NEW s \in Run \ {r}, Posted(s) PROVE Posted(s)'
    <3>1. \A q \in Run \ {s} : slot'[q] # slot'[s]
      BY <2>2, <2>3, <2>5, Lengths DEF Counts, Posted
    <3>2. slot[s] \in 1 .. Len(messages) /\ messages'[slot[s]] = messages[slot[s]]
          /\ slot[s] \in DOMAIN messages'
      BY <1>1, <2>5, AskFacts, Lengths DEF Posted
    <3>3. snap[s] \in Questions'
      BY <1>0, <2>5, StaysOn DEF Posted
    <3> QED
      BY <2>2, <2>5, <3>1, <3>2, <3>3 DEF Posted
  <2>6. ASSUME NEW s \in Run \ {r}, pc[s] = "reply"
        PROVE  snap'[s] \in DOMAIN messages' /\ messages'[snap'[s]] \in Card
    <3>1. snap[s] \in DOMAIN messages /\ messages[snap[s]] \in Card
      BY <2>6 DEF Placed
    <3> QED
      BY <1>1, <2>2, <3>1, AskFacts, Lengths
  <2> QED
    BY <2>2, <2>3, <2>4, <2>5, <2>6 DEF Placed, Idle
<1>2. ASSUME NEW r \in Run, ReplyCheck(r) PROVE Placed'
  <2>1. PICK i \in DOMAIN messages : messages[i] = "card" /\ snap' = [snap EXCEPT ![r] = i]
    BY <1>2 DEF ReplyCheck
  <2>2. pc[r] = "new" /\ pc' = [pc EXCEPT ![r] = "reply"] /\ messages' = messages
        /\ slot' = slot
    BY <1>2 DEF ReplyCheck, GoTo
  <2>3. pc'[r] = "reply" /\ snap'[r] = i
    BY <2>1, <2>2 DEF Counts, Functions
  <2>4. \A s \in Run \ {r} : pc'[s] = pc[s] /\ snap'[s] = snap[s]
    BY <1>2, OthersStay
  <2>5. ASSUME NEW s \in Run \ {r}, Posted(s) PROVE Posted(s)'
    BY <2>2, <2>4, <2>5 DEF Posted, Questions
  <2> QED
    BY <2>1, <2>2, <2>3, <2>4, <2>5 DEF Placed, Idle, Card
<1>3. ASSUME NEW r \in Run, ReplyCommit(r) PROVE Placed'
  <2>1. PICK t \in Run : t # r /\ slot[t] = snap[r] /\ snap' = [snap EXCEPT ![r] = snap[t]]
    BY <1>3 DEF ReplyCommit
  <2>2. pc[r] = "reply" /\ pc' = [pc EXCEPT ![r] = "enqueue"]
        /\ slot' = [slot EXCEPT ![r] = Len(messages) + 1]
    BY <1>3 DEF ReplyCommit, GoTo
  <2>3. pc'[r] = "enqueue" /\ snap'[r] = snap[t] /\ slot'[r] = Len(messages) + 1
    BY <2>1, <2>2 DEF Counts, Functions
  <2>4. snap[r] \in DOMAIN messages /\ messages[snap[r]] \in Card
    BY <2>2 DEF Placed
  <2>5. Posted(t)
    <3>1. slot[t] # 0
      BY <2>1, <2>4, Lengths
    <3> QED
      BY <3>1 DEF Placed
  <2>6. ASSUME NEW s \in Run \ {r}
        PROVE  /\ pc'[s] = pc[s] /\ slot'[s] = slot[s] /\ snap'[s] = snap[s]
               /\ slot[s] < Len(messages) + 1
    <3>1. pc[s] \in Idle => slot[s] = 0
      BY DEF Placed
    <3>2. pc[s] \notin Idle => slot[s] \in DOMAIN messages
      BY DEF Placed, Posted
    <3>3. slot[s] < Len(messages) + 1
      BY <3>1, <3>2, Lengths
    <3> QED
      BY <1>3, <3>3, OthersStay
  <2>7. Posted(r)'
    <3>1. snap'[r] \in Questions' /\ snap'[r] < slot'[r]
      <4>1. snap[t] \in Questions /\ snap[t] < slot[t]
        BY <2>5 DEF Posted
      <4>2. snap[r] \in 1 .. Len(messages) /\ Len(messages) \in Nat /\ snap[t] \in Nat
        BY <2>4, Lengths DEF Counts
      <4>3. snap[t] < Len(messages) + 1
        BY <2>1, <4>1, <4>2
      <4>4. snap[t] \in Questions'
        BY <1>0, <4>1, StaysOn
      <4> QED
        BY <2>3, <4>3, <4>4
    <3>2. \A s \in Run \ {r} : slot'[s] # slot'[r]
      BY <2>3, <2>6, Lengths DEF Counts
    <3> QED
      BY <1>3, <2>3, <2>4, <3>1, <3>2, ReplyFacts, Lengths DEF Posted
  <2>8. ASSUME NEW s \in Run \ {r}, Posted(s) PROVE Posted(s)'
    <3>1. \A q \in Run \ {s} : slot'[q] # slot'[s]
      BY <2>3, <2>6, <2>8, Lengths DEF Counts, Posted
    <3>2. slot[s] \in 1 .. Len(messages) /\ slot[s] \in DOMAIN messages'
          /\ messages'[slot[s]] = IF slot[s] = snap[r] THEN "replied" ELSE messages[slot[s]]
      BY <1>3, <2>4, <2>8, ReplyFacts, Lengths DEF Posted
    <3>3. snap[s] \in Questions'
      BY <1>0, <2>8, StaysOn DEF Posted
    <3> QED
      BY <2>4, <2>6, <2>8, <3>1, <3>2, <3>3 DEF Posted, Card
  <2>9. ASSUME NEW s \in Run \ {r}, pc[s] = "reply"
        PROVE  snap'[s] \in DOMAIN messages' /\ messages'[snap'[s]] \in Card
    <3>1. snap[s] \in DOMAIN messages /\ messages[snap[s]] \in Card
      BY <2>9 DEF Placed
    <3> QED
      BY <1>3, <2>4, <2>6, <3>1, ReplyFacts, Lengths DEF Card
  <2> QED
    BY <2>3, <2>6, <2>7, <2>8, <2>9 DEF Placed, Idle
<1>4. ASSUME NEW r \in Run, Finish(r) \/ Fail(r) PROVE Placed'
  <2>1. /\ pc[r] \in Active /\ slot[r] \in 1 .. Len(messages) /\ messages[slot[r]] = "pending"
        /\ snap' = snap /\ slot' = slot /\ DOMAIN messages' = 1 .. Len(messages)
        /\ messages'[slot[r]] \in {"pending", "answer", "card", "error"}
        /\ \A j \in 1 .. Len(messages) : j # slot[r] => messages'[j] = messages[j]
    BY <1>4, EndFacts
  <2>2. pc' = [pc EXCEPT ![r] = IF Finish(r) /\ messages'[slot[r]] = "answer"
                                THEN "record" ELSE "done"]
    BY <1>4, EndFacts
  <2>3. /\ pc'[r] = "done" \/ (pc'[r] = "record" /\ messages'[slot[r]] = "answer")
        /\ \A s \in Run \ {r} : pc'[s] = pc[s]
    BY <2>2 DEF Functions
  <2>4. \A s \in Run : snap[s] \in Questions => snap[s] \in Questions'
    BY <1>0, StaysOn
  <2>5. ASSUME NEW s \in Run, Posted(s) PROVE Posted(s)'
    <3>1. CASE s = r
      BY <2>1, <2>3, <2>4, <2>5, <3>1, Lengths DEF Posted, Active
    <3>2. CASE s # r
      <4>1. slot[s] # slot[r] /\ slot[s] \in 1 .. Len(messages)
        BY <2>5, <3>2, Lengths DEF Posted
      <4> QED
        BY <2>1, <2>3, <2>4, <2>5, <3>2, <4>1, Lengths DEF Posted
    <3> QED
      BY <3>1, <3>2
  <2>6. ASSUME NEW s \in Run, pc'[s] = "reply"
        PROVE  snap[s] \in DOMAIN messages' /\ messages'[snap[s]] \in Card
    <3>1. pc[s] = "reply"
      BY <2>3, <2>6
    <3>2. snap[s] \in DOMAIN messages /\ messages[snap[s]] \in Card
      BY <3>1 DEF Placed
    <3>3. snap[s] # slot[r]
      BY <2>1, <3>2 DEF Card
    <3> QED
      BY <2>1, <3>2, <3>3, Lengths
  <2>7. \A s \in Run : (pc'[s] \in Idle <=> pc[s] \in Idle)
    BY <2>1, <2>3 DEF Idle, Active
  <2> QED
    BY <2>1, <2>5, <2>6, <2>7 DEF Placed
<1>5. CASE /\ messages' = messages /\ snap' = snap /\ slot' = slot
           /\ \A s \in Run : \/ pc'[s] = pc[s]
                             \/ pc[s] \in Active /\ pc'[s] \in Active
                             \/ pc[s] \notin Idle /\ pc'[s] = "done"
  <2>1. ASSUME NEW s \in Run, Posted(s) PROVE Posted(s)'
    BY <1>5, <2>1 DEF Posted, Questions, Active
  <2> QED
    BY <1>5, <2>1 DEF Placed, Idle, Active
<1>6. ASSUME NEW r \in Run,
             \/ AppendUser(r) \/ Enqueue(r) \/ Load(r) \/ Fetch(r)
             \/ Populate(r) \/ AppendAssistant(r) \/ Crash(r)
      PROVE  Placed'
  <2>1. messages' = messages /\ snap' = snap /\ slot' = slot
    BY <1>6 DEF AppendUser, Enqueue, Load, Fetch, Populate, AppendAssistant, Crash, run
  <2>2. \A s \in Run \ {r} : pc'[s] = pc[s]
    BY <1>6, OthersStay
  <2>3. \/ pc[r] \in Active /\ pc'[r] \in Active
        \/ pc[r] \notin Idle /\ pc'[r] = "done"
    BY <1>6 DEF AppendUser, Enqueue, Load, Fetch, Populate, AppendAssistant, Crash, GoTo,
       Active, Idle, Functions
  <2> QED
    BY <1>5, <2>1, <2>2, <2>3
<1>7. CASE Expire \/ UNCHANGED vars
  BY <1>5, <1>7 DEF Expire, vars, run
<1> QED
  BY <1>1, <1>2, <1>3, <1>4, <1>6, <1>7 DEF Next
-----------------------------------------------------------------------------
(* What is read and cached is in order.                                    *)

\* A history that shows messages up to m in their order.
Listed(table, h, m) ==
  /\ h \in Seq(Entry) /\ Rising(h)
  /\ \A i \in DOMAIN h :
       /\ h[i].seq \in DOMAIN table /\ h[i].seq <= m
       /\ (h[i].kind = "question") <=> (table[h[i].seq] = "question")

Ordered ==
  /\ tail # NoTail => tail.seq \in DOMAIN messages /\ Listed(messages, tail.msgs, tail.seq)
  /\ \A r \in Run : pc[r] = "populate" => Listed(messages, context[r], slot[r] - 1)

LEMMA ShownFacts ==
  ASSUME Counts, NEW i \in DOMAIN messages, messages[i] \notin Card
  PROVE  /\ Shown(i) \in Entry /\ Shown(i).seq = i
         /\ (Shown(i).kind = "question") <=> (messages[i] = "question")
<1>1. i \in Nat /\ messages[i] \in {"question", "pending", "answer", "error"}
  BY Lengths DEF Message, Card
<1> QED
  BY <1>1 DEF Shown, Entry

\* The query returns the messages of its window, all but the cards.
LEMMA RecentFacts ==
  ASSUME Counts, NEW hi \in DOMAIN messages
  PROVE  /\ Listed(messages, Recent(hi), hi)
         /\ \A i \in DOMAIN messages :
              i <= hi /\ hi < i + MaxTail /\ messages[i] \notin Card =>
                \E j \in DOMAIN Recent(hi) : Recent(hi)[j] = Shown(i)
<1> DEFINE lo == IF hi > MaxTail THEN hi - MaxTail + 1 ELSE 1
           S == Kept(lo, hi)
           h == InOrder(S)
<1>1. hi \in Nat /\ hi <= Len(messages) /\ lo \in Nat /\ 1 <= lo
      /\ (lo = 1 \/ lo = hi - MaxTail + 1)
  BY Lengths, TailAssumption
<1>2. \A i : i \in S <=> i \in lo .. hi /\ messages[i] \notin Card
  BY DEF Kept
<1>3. Recent(hi) = h
  BY DEF Recent
<1>4. \A i \in lo .. hi : i \in 1 .. hi /\ i \in DOMAIN messages /\ i <= hi
  BY <1>1, Lengths
<1>5. \A i \in DOMAIN messages : i <= hi /\ hi < i + MaxTail => i \in lo .. hi
  BY <1>1, Lengths, TailAssumption
<1> HIDE DEF lo, S
<1>6. S \in SUBSET (1 .. hi) /\ \A i \in S : i \in DOMAIN messages /\ messages[i] \notin Card
  BY <1>2, <1>4
<1>7. \A i \in S : /\ Shown(i) \in Entry /\ Shown(i).seq = i
                   /\ (Shown(i).kind = "question") <=> (messages[i] = "question")
  BY <1>6, ShownFacts
<1>8. /\ h \in Seq(Entry) /\ Len(h) = Cardinality(S) /\ Cardinality(S) \in Nat
      /\ \A n \in 1 .. Cardinality(S) :
           /\ \E i \in S : h[n] = Shown(i)
           /\ \A m \in 1 .. n - 1 : h[m].seq < h[n].seq
      /\ \A i \in S : \E n \in 1 .. Cardinality(S) : h[n] = Shown(i)
  BY <1>1, <1>6, <1>7, InOrderFacts
<1> HIDE DEF h
<1>9. DOMAIN h = 1 .. Cardinality(S)
  BY <1>8, Entries
<1>10. \A n \in DOMAIN h : \E i \in S : h[n] = Shown(i)
  BY <1>8, <1>9
<1>11. Rising(h)
  BY <1>8, <1>9 DEF Rising
<1>12. Listed(messages, h, hi)
  <2> SUFFICES ASSUME NEW n \in DOMAIN h
               PROVE  /\ h[n].seq \in DOMAIN messages /\ h[n].seq <= hi
                      /\ (h[n].kind = "question") <=> (messages[h[n].seq] = "question")
    BY <1>8, <1>11 DEF Listed
  <2>1. PICK i \in S : h[n] = Shown(i)
    BY <1>10
  <2>2. i \in DOMAIN messages /\ i <= hi
    BY <1>2, <1>4
  <2> QED
    BY <1>7, <2>1, <2>2
<1>13. ASSUME NEW i \in DOMAIN messages, i <= hi, hi < i + MaxTail, messages[i] \notin Card
       PROVE  \E j \in DOMAIN h : h[j] = Shown(i)
  BY <1>2, <1>5, <1>8, <1>9, <1>13
<1> QED
  BY <1>3, <1>12, <1>13

LEMMA Carried ==
  ASSUME Grown, NEW h, NEW m, Listed(messages, h, m)
  PROVE  Listed(messages', h, m)
<1>1. \A i \in DOMAIN messages : /\ i \in DOMAIN messages'
                                 /\ (messages'[i] = "question") <=> (messages[i] = "question")
  BY StaysOn DEF Questions
<1> QED
  BY <1>1 DEF Listed

\* How the tail comes to change.
TailMove ==
  \/ tail' = tail \/ tail' = NoTail
  \/ /\ messages' = messages /\ tail # NoTail
     /\ \E x \in Questions \cup Answers : tail.seq < x /\ tail' = Appended(tail, Shown(x))
  \/ /\ messages' = messages
     /\ \E r \in Run : /\ pc[r] = "populate"
                       /\ tail' = [msgs |-> context[r], seq |-> slot[r] - 1]
                       /\ tail # NoTail => ~(tail.seq >= slot[r] - 1)

\* A tail is replaced by an append or a populate only, neither of which adds a
\* message to the table.
LEMMA TailSteps == ASSUME Counts, Placed, [Next]_vars PROVE TailMove
<1>1. ASSUME NEW r \in Run, AppendUser(r) \/ AppendAssistant(r) PROVE TailMove
  <2>1. \/ tail' = tail
        \/ pc[r] = "append" /\ tail' = Appended(tail, Shown(snap[r]))
        \/ pc[r] = "record" /\ tail' = Appended(tail, Shown(slot[r]))
    BY <1>1 DEF AppendUser, AppendAssistant
  <2>2. Posted(r)
    BY <1>1 DEF AppendUser, AppendAssistant, Placed, Idle
  <2>3. /\ pc[r] = "append" => snap[r] \in Questions \cup Answers
        /\ pc[r] = "record" => slot[r] \in Questions \cup Answers
    BY <2>2 DEF Posted, Answers
  <2>4. messages' = messages
    BY <1>1 DEF AppendUser, AppendAssistant
  <2>5. \A x : Appended(tail, Shown(x)) = tail \/ (tail # NoTail /\ x > tail.seq)
    BY DEF Appended, Shown
  <2>6. \A x \in Questions \cup Answers : tail # NoTail => (x > tail.seq <=> tail.seq < x)
    BY Lengths DEF Questions, Answers, Counts
  <2> QED
    BY <2>1, <2>3, <2>4, <2>5, <2>6 DEF TailMove
<1>2. ASSUME NEW r \in Run, Populate(r) PROVE TailMove
  BY <1>2 DEF Populate, Populated, TailMove
<1>3. ASSUME NEW r \in Run,
             \/ Ask(r) \/ ReplyCheck(r) \/ ReplyCommit(r) \/ Enqueue(r)
             \/ Load(r) \/ Fetch(r) \/ Finish(r) \/ Fail(r) \/ Crash(r)
      PROVE  TailMove
  BY <1>3 DEF Ask, ReplyCheck, ReplyCommit, Enqueue, Load, Fetch, Finish,
     Fail, Crash, TailMove
<1>4. CASE Expire \/ UNCHANGED vars
  BY <1>4 DEF Expire, vars, TailMove
<1> QED
  BY <1>1, <1>2, <1>3, <1>4 DEF Next

\* What the append leaves of a tail in order.
LEMMA AppendedListed ==
  ASSUME Counts, Ordered, tail # NoTail, NEW x \in Questions \cup Answers, tail.seq < x
  PROVE  \E new \in Seq(Entry) :
             /\ Appended(tail, Shown(x)) = [msgs |-> new, seq |-> x]
             /\ Listed(messages, new, x)
             /\ \E i \in DOMAIN new : new[i] = Shown(x)
             /\ \A j \in DOMAIN tail.msgs : x - MaxTail < tail.msgs[j].seq =>
                  \E i \in DOMAIN new : new[i] = tail.msgs[j]
<1>1. x \in DOMAIN messages /\ messages[x] \notin Card
  BY DEF Questions, Answers, Card
<1>2. /\ Shown(x) \in Entry /\ Shown(x).seq = x
      /\ (Shown(x).kind = "question") <=> (messages[x] = "question")
  BY <1>1, ShownFacts
<1>3. tail.seq \in DOMAIN messages /\ Listed(messages, tail.msgs, tail.seq) /\ tail.seq \in Nat /\ x \in Nat
  BY <1>1, Lengths DEF Ordered
<1>4. PICK new \in Seq(Entry) :
         /\ Appended(tail, Shown(x)) = [msgs |-> new, seq |-> Shown(x).seq] /\ Rising(new)
         /\ \A i \in DOMAIN new : new[i] = Shown(x) \/ \E j \in DOMAIN tail.msgs : new[i] = tail.msgs[j]
         /\ \E i \in DOMAIN new : new[i] = Shown(x)
         /\ \A j \in DOMAIN tail.msgs : Shown(x).seq - MaxTail < tail.msgs[j].seq =>
              \E i \in DOMAIN new : new[i] = tail.msgs[j]
  <2>1. /\ tail.msgs \in Seq(Entry) /\ Rising(tail.msgs) /\ tail.seq < Shown(x).seq
        /\ \A i \in DOMAIN tail.msgs : tail.msgs[i].seq <= tail.seq
    BY <1>2, <1>3 DEF Listed
  <2> QED
    BY <1>2, <1>3, <2>1, AppendedFacts
<1>5. Listed(messages, new, x)
  <2> SUFFICES ASSUME NEW i \in DOMAIN new
               PROVE  /\ new[i].seq \in DOMAIN messages /\ new[i].seq <= x
                      /\ (new[i].kind = "question") <=> (messages[new[i].seq] = "question")
    BY <1>4 DEF Listed
  <2>1. CASE new[i] = Shown(x)
    BY <1>1, <1>2, <1>3, <2>1
  <2>2. ASSUME NEW j \in DOMAIN tail.msgs, new[i] = tail.msgs[j]
        PROVE  /\ new[i].seq \in DOMAIN messages /\ new[i].seq <= x
               /\ (new[i].kind = "question") <=> (messages[new[i].seq] = "question")
    <3>1. /\ tail.msgs[j].seq \in DOMAIN messages /\ tail.msgs[j].seq <= tail.seq
          /\ (tail.msgs[j].kind = "question") <=> (messages[tail.msgs[j].seq] = "question")
      BY <1>3 DEF Listed
    <3>2. tail.msgs[j].seq \in Nat
      BY <3>1, Lengths
    <3> QED
      BY <1>3, <2>2, <3>1, <3>2
  <2> QED
    BY <1>4, <2>1, <2>2
<1> QED
  BY <1>2, <1>4, <1>5

\* A run that works with a history got it in this step, or keeps it.
LEMMA AtWork ==
  ASSUME Counts, Functions, [Next]_vars, NEW r \in Run,
         pc'[r] \in {"fetch", "populate", "run"}
  PROVE  \/ Fetch(r) \/ Load(r)
         \/ /\ pc[r] \in {"fetch", "populate", "run"}
            /\ pc'[r] = "fetch" => pc[r] = "fetch"
            /\ pc'[r] = "populate" => pc[r] = "populate"
            /\ pc'[r] = "run" => pc[r] \in {"populate", "run"}
            /\ context'[r] = context[r] /\ slot'[r] = slot[r] /\ snap'[r] = snap[r]
<1> DEFINE Stays == /\ pc[r] \in {"fetch", "populate", "run"}
                    /\ pc'[r] = "fetch" => pc[r] = "fetch"
                    /\ pc'[r] = "populate" => pc[r] = "populate"
                    /\ pc'[r] = "run" => pc[r] \in {"populate", "run"}
                    /\ context'[r] = context[r] /\ slot'[r] = slot[r] /\ snap'[r] = snap[r]
<1>1. ASSUME NEW s \in Run,
             \/ Ask(s) \/ ReplyCheck(s) \/ ReplyCommit(s) \/ AppendUser(s)
             \/ Enqueue(s) \/ Load(s) \/ Fetch(s) \/ Populate(s)
             \/ Finish(s) \/ Fail(s) \/ AppendAssistant(s) \/ Crash(s)
      PROVE  Fetch(r) \/ Load(r) \/ Stays
  <2>1. CASE s # r
    BY <1>1, <2>1, OthersStay
  <2>2. CASE s = r
    BY <1>1, <2>2 DEF Functions, Ask, ReplyCheck, ReplyCommit, AppendUser, Enqueue,
       Populate, Finish, Fail, AppendAssistant, Crash, GoTo, run
  <2> QED
    BY <2>1, <2>2
<1>2. CASE Expire \/ UNCHANGED vars
  BY <1>2 DEF Expire, vars, run
<1> QED
  BY <1>1, <1>2 DEF Next

LEMMA CrossedGrows == ASSUME [Next]_vars PROVE crossed \subseteq crossed'
BY DEF Next, vars, history, Expire, Ask, ReplyCheck, ReplyCommit, AppendUser, Enqueue, Load,
   Fetch, Populate, Finish, Fail, AppendAssistant, Crash, NoteCrossed

LEMMA FetchFacts ==
  ASSUME Counts, Functions, Placed, NEW r \in Run, Fetch(r)
  PROVE  /\ slot[r] - 1 \in DOMAIN messages /\ context'[r] = Recent(slot[r] - 1)
         /\ messages' = messages /\ snap' = snap /\ slot' = slot /\ tail' = tail
         /\ pc' = [pc EXCEPT ![r] = "populate"] /\ pc[r] = "fetch"
         /\ crossed' = crossed /\ mishaps' = mishaps
         /\ Listed(messages, context'[r], slot[r] - 1)
         /\ \A i \in DOMAIN messages :
              i < slot[r] /\ slot[r] <= i + MaxTail /\ messages[i] \notin Card =>
                \E j \in DOMAIN context'[r] : context'[r][j] = Shown(i)
<1>1. /\ messages' = messages /\ snap' = snap /\ slot' = slot /\ tail' = tail
      /\ pc' = [pc EXCEPT ![r] = "populate"] /\ pc[r] = "fetch"
      /\ crossed' = crossed /\ mishaps' = mishaps
      /\ context'[r] = Recent(slot[r] - 1)
  BY DEF Fetch, run, history, GoTo, Functions
<1>2. Posted(r)
  BY <1>1 DEF Placed, Idle
<1>3. slot[r] - 1 \in DOMAIN messages /\ slot[r] \in Nat
  BY <1>2, Lengths DEF Posted, Questions
<1>4. \A i \in DOMAIN messages : i < slot[r] => i <= slot[r] - 1
  BY <1>3, Lengths
<1>5. \A i \in DOMAIN messages : slot[r] <= i + MaxTail => slot[r] - 1 < i + MaxTail
  BY <1>3, Lengths, TailAssumption
<1> QED
  BY <1>1, <1>3, <1>4, <1>5, RecentFacts

LEMMA OrderedNext ==
  ASSUME Counts, Functions, Placed, Ordered, [Next]_vars PROVE Ordered'
<1>0. Grown
  BY GrownNext
<1>1. tail' # NoTail => tail'.seq \in DOMAIN messages' /\ Listed(messages', tail'.msgs, tail'.seq)
  <2>1. CASE tail' = tail
    <3>1. tail # NoTail => Listed(messages', tail.msgs, tail.seq) /\ tail.seq \in DOMAIN messages'
      BY <1>0, Carried, StaysOn DEF Ordered
    <3> QED
      BY <2>1, <3>1
  <2>2. ASSUME NEW x \in Questions \cup Answers, tail # NoTail, tail.seq < x,
               tail' = Appended(tail, Shown(x))
        PROVE  tail'.seq \in DOMAIN messages' /\ Listed(messages', tail'.msgs, tail'.seq)
    <3>1. PICK new \in Seq(Entry) :
            Appended(tail, Shown(x)) = [msgs |-> new, seq |-> x] /\ Listed(messages, new, x)
      BY <2>2, AppendedListed
    <3>2. Listed(messages', new, x) /\ x \in DOMAIN messages'
      BY <1>0, <3>1, Carried, StaysOn DEF Questions, Answers
    <3>3. tail'.msgs = new /\ tail'.seq = x
      BY <2>2, <3>1
    <3> QED
      BY <3>2, <3>3
  <2>3. ASSUME NEW r \in Run, pc[r] = "populate",
               tail' = [msgs |-> context[r], seq |-> slot[r] - 1]
        PROVE  tail'.seq \in DOMAIN messages' /\ Listed(messages', tail'.msgs, tail'.seq)
    <3>1. Posted(r)
      BY <2>3 DEF Placed, Idle
    <3>2. slot[r] - 1 \in DOMAIN messages
      BY <3>1, Lengths DEF Posted, Questions
    <3>3. Listed(messages', context[r], slot[r] - 1) /\ slot[r] - 1 \in DOMAIN messages'
      BY <1>0, <2>3, <3>2, Carried, StaysOn DEF Ordered
    <3>4. tail'.msgs = context[r] /\ tail'.seq = slot[r] - 1
      BY <2>3
    <3> QED
      BY <3>3, <3>4
  <2> QED
    BY <2>1, <2>2, <2>3, TailSteps DEF TailMove
<1>2. ASSUME NEW r \in Run, pc'[r] = "populate"
      PROVE  Listed(messages', context'[r], slot'[r] - 1)
  <2>1. CASE Fetch(r)
    <3>1. Listed(messages, context'[r], slot[r] - 1) /\ slot' = slot /\ messages' = messages
      BY <2>1, FetchFacts
    <3> QED
      BY <3>1
  <2>2. CASE /\ pc[r] = "populate" /\ context'[r] = context[r]
             /\ slot'[r] = slot[r] /\ snap'[r] = snap[r]
    <3>1. Listed(messages, context[r], slot[r] - 1)
      BY <2>2 DEF Ordered
    <3> QED
      BY <1>0, <2>2, <3>1, Carried
  <2>3. ~Load(r)
    BY <1>2 DEF Load, GoTo, Functions
  <2> QED
    BY <1>2, <2>1, <2>2, <2>3, AtWork
<1> QED
  BY <1>1, <1>2 DEF Ordered
-----------------------------------------------------------------------------
(* The open question is held.                                              *)

\* The newest question, which nobody has answered, within the window.
Open(q) ==
  /\ q \in Questions /\ \A i \in Questions \cup Answers : i <= q
  /\ Len(messages) <= q + MaxTail
Holds(h, q) == \E i \in DOMAIN h : h[i].seq = q

\* Whoever is past the open question holds it.
Asking ==
  /\ tail # NoTail => \A q \in Questions : Open(q) /\ q <= tail.seq => Holds(tail.msgs, q)
  /\ \A r \in Run : pc[r] = "populate" =>
       \A q \in Questions : Open(q) /\ q < slot[r] => Holds(context[r], q)
  /\ \A r \in Run \ crossed :
       /\ pc[r] = "fetch" => \A i \in Questions : i <= snap[r] \/ slot[r] <= i
       /\ pc[r] \in {"populate", "run"} /\ slot[r] <= snap[r] + MaxTail => AnswersItsQuestion(r)

LEMMA OpenBefore ==
  ASSUME Grown, NEW q \in DOMAIN messages, Open(q)'
  PROVE  Open(q) /\ q \in Questions
<1>1. q \in Questions /\ \A i \in Questions \cup Answers : i <= q
  BY StaysOn DEF Open
<1>2. q \in Nat /\ Len(messages) <= Len(messages') /\ Len(messages') <= q + MaxTail
      /\ Len(messages) \in Nat /\ Len(messages') \in Nat
  BY StaysOn DEF Open, Grown
<1> QED
  BY <1>1, <1>2, TailAssumption DEF Open

\* A history that holds the last question it lists ends its questions with it.
LEMMA LastAsked ==
  ASSUME NEW h, NEW m, Listed(messages, h, m), NEW q \in Questions, Holds(h, q), q \in Nat,
         \A i \in Questions : i <= m => i <= q
  PROVE  \E i \in DOMAIN h :
           /\ h[i].kind = "question" /\ h[i].seq = q
           /\ \A j \in DOMAIN h : h[j].kind = "question" => j <= i
<1>1. PICK i \in DOMAIN h : h[i].seq = q
  BY DEF Holds
<1>2. h[i].kind = "question"
  BY <1>1 DEF Listed, Questions
<1>3. ASSUME NEW j \in DOMAIN h, h[j].kind = "question", ~(j <= i) PROVE FALSE
  <2>1. h[j].seq <= q
    BY <1>3 DEF Listed, Questions
  <2>2. h \in Seq(Entry) /\ i \in 1 .. Len(h) /\ j \in 1 .. Len(h) /\ Len(h) \in Nat
    BY Entries DEF Listed
  <2>3. i \in 1 .. j - 1 /\ h[j].seq \in Nat
    BY <1>3, <2>2, Entries
  <2>4. h[i].seq < h[j].seq
    BY <2>3 DEF Listed, Rising
  <2> QED
    BY <1>1, <2>1, <2>3, <2>4
<1> QED
  BY <1>1, <1>2, <1>3

LEMMA LoadFacts ==
  ASSUME Counts, Functions, Placed, NEW r \in Run, Load(r)
  PROVE  /\ pc[r] = "queued" /\ Posted(r) /\ mishaps' = mishaps
         /\ messages' = messages /\ snap' = snap /\ slot' = slot /\ tail' = tail
         /\ \/ pc' = [pc EXCEPT ![r] = "fetch"] /\ context' = context
            \/ /\ pc' = [pc EXCEPT ![r] = "run"] /\ context'[r] = tail.msgs
               /\ tail # NoTail /\ tail.seq >= snap[r]
         /\ crossed' \in {crossed, crossed \cup {r}}
         /\ r \notin crossed' => /\ Len(messages) <= slot[r]
                                 /\ \A i \in Questions \cup Answers : i <= snap[r]
<1>1. pc[r] = "queued" /\ Posted(r)
  BY DEF Load, Placed, Idle
<1>2. \/ pc' = [pc EXCEPT ![r] = "fetch"] /\ context' = context
      \/ /\ pc' = [pc EXCEPT ![r] = "run"] /\ context'[r] = tail.msgs
         /\ tail # NoTail /\ tail.seq >= snap[r]
  BY DEF Load, GoTo, Functions
<1>3. /\ messages' = messages /\ snap' = snap /\ slot' = slot /\ tail' = tail
      /\ mishaps' = mishaps /\ NoteCrossed(r)
  BY DEF Load, run
<1>4. \A i \in Questions \cup Answers : ~(i > snap[r]) => i <= snap[r]
  BY Lengths DEF Questions, Answers, Counts
<1>5. ~(Len(messages) > slot[r]) => Len(messages) <= slot[r]
  BY Lengths DEF Counts
<1>6. /\ crossed' \in {crossed, crossed \cup {r}}
      /\ r \notin crossed' => /\ ~(Len(messages) > slot[r])
                              /\ \A i \in Questions \cup Answers : ~(i > snap[r])
  BY <1>3, Zenon DEF NoteCrossed
<1> QED
  BY <1>1, <1>2, <1>3, <1>4, <1>5, <1>6

LEMMA AskingNext ==
  ASSUME Counts, Functions, Placed, Ordered, Asking, [Next]_vars PROVE Asking'
<1>0. Grown
  BY GrownNext
<1>1. ASSUME tail' # NoTail, NEW q \in Questions', Open(q)', q <= tail'.seq
      PROVE  Holds(tail'.msgs, q)
  <2>1. CASE tail' = tail
    <3>1. tail.seq \in DOMAIN messages /\ q \in DOMAIN messages' /\ tail # NoTail
      BY <1>1, <2>1 DEF Ordered, Questions
    <3>2. q \in DOMAIN messages
      BY <1>0, <1>1, <2>1, <3>1 DEF Grown
    <3>3. Open(q) /\ q \in Questions
      BY <1>0, <1>1, <3>2, OpenBefore
    <3> QED
      BY <1>1, <2>1, <3>1, <3>3 DEF Asking
  <2>2. ASSUME NEW x \in Questions \cup Answers, tail # NoTail, tail.seq < x,
               tail' = Appended(tail, Shown(x)), messages' = messages
        PROVE  Holds(tail'.msgs, q)
    <3>1. PICK new \in Seq(Entry) :
            /\ Appended(tail, Shown(x)) = [msgs |-> new, seq |-> x]
            /\ \E i \in DOMAIN new : new[i] = Shown(x)
      BY <2>2, AppendedListed
    <3>2. tail'.msgs = new /\ tail'.seq = x
      BY <2>2, <3>1
    <3>3. x <= q /\ x \in Nat /\ q \in Nat
      BY <1>1, <2>2, Lengths DEF Open, Questions, Answers
    <3>4. q = x
      BY <1>1, <3>2, <3>3
    <3>5. Shown(x).seq = x
      BY DEF Shown
    <3> QED
      BY <3>1, <3>2, <3>4, <3>5 DEF Holds
  <2>3. ASSUME NEW r \in Run, pc[r] = "populate", messages' = messages,
               tail' = [msgs |-> context[r], seq |-> slot[r] - 1]
        PROVE  Holds(tail'.msgs, q)
    <3>1. slot[r] \in Nat /\ q \in Nat /\ q <= slot[r] - 1
      BY <1>1, <2>3, Lengths DEF Questions, Counts
    <3>2. q < slot[r] /\ Open(q) /\ q \in Questions
      BY <1>1, <2>3, <3>1 DEF Open, Questions, Answers
    <3> QED
      BY <2>3, <3>2 DEF Asking
  <2> QED
    BY <1>1, <2>1, <2>2, <2>3, TailSteps DEF TailMove
<1>2. ASSUME NEW r \in Run, pc'[r] = "populate",
             NEW q \in Questions', Open(q)', q < slot'[r]
      PROVE  Holds(context'[r], q)
  <2>1. CASE Fetch(r)
    <3>1. /\ slot' = slot /\ messages' = messages /\ slot[r] - 1 \in DOMAIN messages
          /\ \A i \in DOMAIN messages :
               i < slot[r] /\ slot[r] <= i + MaxTail /\ messages[i] \notin Card =>
                 \E j \in DOMAIN context'[r] : context'[r][j] = Shown(i)
      BY <2>1, FetchFacts
    <3>2. q \in DOMAIN messages /\ messages[q] = "question" /\ Len(messages) <= q + MaxTail
      BY <1>2, <3>1 DEF Questions, Open
    <3>3. slot[r] \in DOMAIN messages
      BY <2>1 DEF Fetch, Placed, Posted, Idle
    <3>4. q < slot[r] /\ slot[r] <= q + MaxTail
      BY <1>2, <3>1, <3>2, <3>3, Lengths, TailAssumption
    <3>5. \E j \in DOMAIN context'[r] : context'[r][j] = Shown(q)
      BY <3>1, <3>2, <3>4 DEF Card
    <3> QED
      BY <3>5 DEF Holds, Shown
  <2>2. CASE /\ pc[r] = "populate" /\ context'[r] = context[r] /\ slot'[r] = slot[r]
    <3>1. slot[r] \in DOMAIN messages
      BY <2>2 DEF Placed, Posted, Idle
    <3>2. q \in DOMAIN messages
      BY <1>0, <1>2, <2>2, <3>1 DEF Grown, Questions
    <3>3. Open(q) /\ q \in Questions
      BY <1>0, <1>2, <3>2, OpenBefore
    <3> QED
      BY <1>2, <2>2, <3>3 DEF Asking
  <2>3. ~Load(r)
    BY <1>2 DEF Load, GoTo, Functions
  <2> QED
    BY <1>2, <2>1, <2>2, <2>3, AtWork
<1>3. ASSUME NEW r \in Run, r \notin crossed', pc'[r] = "fetch",
             NEW i \in Questions'
      PROVE  i <= snap'[r] \/ slot'[r] <= i
  <2>1. CASE Load(r)
    <3>1. i \in Questions /\ snap' = snap
      BY <2>1, LoadFacts DEF Questions
    <3> QED
      BY <1>3, <2>1, <3>1, LoadFacts
  <2>2. CASE /\ pc[r] = "fetch" /\ slot'[r] = slot[r] /\ snap'[r] = snap[r]
    <3>1. r \notin crossed
      BY <1>3, CrossedGrows
    <3>2. CASE i \in DOMAIN messages
      <4>1. i \in Questions
        BY <1>0, <1>3, <3>2, StaysOn
      <4> QED
        BY <2>2, <3>1, <4>1 DEF Asking
    <3>3. CASE i \notin DOMAIN messages
      <4>1. slot[r] \in DOMAIN messages /\ i \in DOMAIN messages'
        BY <1>3, <2>2 DEF Placed, Posted, Idle, Questions
      <4> QED
        BY <1>0, <2>2, <3>3, <4>1 DEF Grown
    <3> QED
      BY <3>2, <3>3
  <2>3. ~Fetch(r)
    BY <1>3 DEF Fetch, GoTo, Functions
  <2> QED
    BY <1>3, <2>1, <2>2, <2>3, AtWork
<1>4. ASSUME NEW r \in Run, r \notin crossed', pc'[r] \in {"populate", "run"},
             slot'[r] <= snap'[r] + MaxTail
      PROVE  AnswersItsQuestion(r)'
  <2> DEFINE Last(h, q) == \E i \in DOMAIN h :
                /\ h[i].kind = "question" /\ h[i].seq = q
                /\ \A j \in DOMAIN h : h[j].kind = "question" => j <= i
  <2>0. /\ Last(context[r], snap[r]) <=> AnswersItsQuestion(r)
        /\ Last(context'[r], snap'[r]) <=> AnswersItsQuestion(r)'
    BY DEF AnswersItsQuestion, Asked
  <2> HIDE DEF Last
  <2>1. CASE Fetch(r)
    <3>1. /\ slot[r] - 1 \in DOMAIN messages
          /\ snap' = snap /\ slot' = slot /\ crossed' = crossed /\ pc[r] = "fetch"
          /\ Listed(messages, context'[r], slot[r] - 1)
          /\ \A i \in DOMAIN messages :
               i < slot[r] /\ slot[r] <= i + MaxTail /\ messages[i] \notin Card =>
                 \E j \in DOMAIN context'[r] : context'[r][j] = Shown(i)
      BY <2>1, FetchFacts
    <3>2. snap[r] \in Questions /\ snap[r] < slot[r] /\ slot[r] \in DOMAIN messages
      BY <3>1 DEF Placed, Posted, Idle
    <3>3. \E j \in DOMAIN context'[r] : context'[r][j] = Shown(snap[r])
      BY <1>4, <3>1, <3>2 DEF Questions, Card
    <3>4. Holds(context'[r], snap[r])
      BY <3>3 DEF Holds, Shown
    <3>5. \A i \in Questions : i <= snap[r] \/ slot[r] <= i
      BY <1>4, <3>1 DEF Asking
    <3>6. \A i \in Questions : i <= slot[r] - 1 => i <= snap[r]
      BY <3>2, <3>5, Lengths DEF Questions
    <3>7. snap[r] \in Nat
      BY <3>2, Lengths DEF Questions
    <3>8. Last(context'[r], snap[r])
      BY <3>1, <3>2, <3>4, <3>6, <3>7, LastAsked DEF Last
    <3> QED
      BY <2>0, <3>1, <3>8
  <2>2. CASE Load(r)
    <3>1. /\ Posted(r) /\ snap' = snap /\ slot' = slot
          /\ Len(messages) <= slot[r] /\ \A i \in Questions \cup Answers : i <= snap[r]
      BY <1>4, <2>2, LoadFacts
    <3>2. context'[r] = tail.msgs /\ tail # NoTail /\ tail.seq >= snap[r]
      BY <1>4, <2>2, LoadFacts DEF Functions
    <3>3. snap[r] \in Questions /\ snap[r] \in Nat /\ slot[r] \in Nat
      BY <3>1, Lengths DEF Posted, Questions
    <3>4. Open(snap[r])
      BY <1>4, <3>1, <3>3, Lengths, TailAssumption DEF Open
    <3>5. tail.seq \in DOMAIN messages /\ Listed(messages, tail.msgs, tail.seq)
      BY <3>2 DEF Ordered
    <3>6. snap[r] <= tail.seq
      BY <3>2, <3>3, <3>5, Lengths
    <3>7. Holds(tail.msgs, snap[r])
      BY <3>2, <3>3, <3>4, <3>6 DEF Asking
    <3>8. Last(tail.msgs, snap[r])
      BY <3>1, <3>3, <3>5, <3>7, LastAsked DEF Last
    <3> QED
      BY <2>0, <3>1, <3>2, <3>8
  <2>3. CASE /\ pc[r] \in {"populate", "run"} /\ context'[r] = context[r]
             /\ slot'[r] = slot[r] /\ snap'[r] = snap[r]
    <3>1. r \notin crossed
      BY <1>4, CrossedGrows
    <3>2. AnswersItsQuestion(r)
      BY <1>4, <2>3, <3>1 DEF Asking
    <3> QED
      BY <2>0, <2>3, <3>2
  <2> QED
    BY <1>4, <2>1, <2>2, <2>3, AtWork
<1> QED
  BY <1>1, <1>2, <1>3, <1>4 DEF Asking
-----------------------------------------------------------------------------
(* Without mishaps nothing is missing.                                     *)

Shows(h, lo, hi) ==
  \A i \in Questions \cup Answers : lo <= i /\ i <= hi =>
    \E j \in DOMAIN h : h[j] = Shown(i)
Quiet == {"new", "done"}

\* Without overlaps one run is under way, and nothing is past its placeholder.
Alone == \A r \in Run : pc[r] \notin Quiet => \A s \in Run \ {r} : pc[s] \in Quiet
Latest ==
  \A r \in Run : pc[r] \notin Quiet \cup {"reply"} =>
    slot[r] = Len(messages) /\ (tail # NoTail => tail.seq < slot[r])

\* What a run has read is the window before it.
Given ==
  \A r \in Run : pc[r] \in {"populate", "run"} =>
    Shows(context[r], slot[r] - MaxTail, slot[r] - 1)

\* What a tail lacks is what the run under way has still to bring.
Bringing(i) ==
  \E r \in Run : \/ pc[r] \in Active \ {"run"} /\ i = snap[r]
                 \/ pc[r] = "record" /\ i = slot[r]
Whole ==
  tail # NoTail =>
    /\ Shows(tail.msgs, tail.seq - MaxTail + 1, tail.seq)
    /\ \A i \in Questions \cup Answers : i > tail.seq => Bringing(i)

Complete == Alone /\ Latest /\ Given /\ Whole

StepOf(r) ==
  \/ Ask(r) \/ ReplyCheck(r) \/ ReplyCommit(r) \/ AppendUser(r)
  \/ Enqueue(r) \/ Load(r) \/ Fetch(r) \/ Populate(r)
  \/ Finish(r) \/ Fail(r) \/ AppendAssistant(r) \/ Crash(r)

LEMMA MishapsGrow == ASSUME [Next]_vars, mishaps' = {} PROVE mishaps = {}
BY DEF Next, vars, history, Expire, Ask, ReplyCheck, ReplyCommit, AppendUser, Enqueue, Load,
   Fetch, Populate, Finish, Fail, AppendAssistant, Crash, NoteHole, NoteOverlap

\* The others are at rest, before a step that is no mishap and after it.
LEMMA OthersQuiet ==
  ASSUME Counts, Functions, Alone, NEW r \in Run, StepOf(r), mishaps' = {}
  PROVE  /\ pc[r] # "done"
         /\ \A s \in Run \ {r} : /\ pc[s] \in Quiet /\ pc'[s] \in Quiet
                                 /\ pc'[s] = pc[s] /\ slot'[s] = slot[s] /\ snap'[s] = snap[s]
                                 /\ context'[s] = context[s]
<1>1. \A s \in Run \ {r} : /\ pc'[s] = pc[s] /\ slot'[s] = slot[s] /\ snap'[s] = snap[s]
                           /\ context'[s] = context[s]
  BY OthersStay DEF StepOf
<1>2. pc[r] # "done"
  BY DEF StepOf, Ask, ReplyCheck, ReplyCommit, AppendUser, Enqueue, Load, Fetch,
     Populate, Finish, Fail, AppendAssistant, Crash
<1>3. CASE pc[r] = "new"
  <2>1. NoteOverlap
    BY <1>3 DEF StepOf, Ask, ReplyCheck, ReplyCommit, AppendUser, Enqueue, Load, Fetch,
       Populate, Finish, Fail, AppendAssistant, Crash
  <2>2. \A s \in Run : pc[s] \in Quiet
    BY <2>1 DEF NoteOverlap, Quiet
  <2> QED
    BY <1>1, <1>2, <2>2
<1>4. CASE pc[r] # "new"
  BY <1>1, <1>2, <1>4 DEF Alone, Quiet
<1> QED
  BY <1>3, <1>4

\* All the tail lacks is what the one run under way brings.
LEMMA OnlyIts ==
  ASSUME Whole, tail # NoTail, NEW r \in Run, \A s \in Run \ {r} : pc[s] \in Quiet,
         NEW i \in Questions \cup Answers, i > tail.seq
  PROVE  \/ pc[r] \in Active \ {"run"} /\ i = snap[r]
         \/ pc[r] = "record" /\ i = slot[r]
BY DEF Whole, Bringing, Quiet, Active

LEMMA LatestNext ==
  ASSUME Counts, Functions, Placed, Ordered, Alone, Latest, mishaps' = {},
         NEW r \in Run, StepOf(r)
  PROVE  Latest'
<1>0. \A s \in Run \ {r} : pc'[s] \in Quiet
  BY OthersQuiet
<1>1. tail # NoTail => tail.seq \in Nat /\ tail.seq <= Len(messages)
  BY Lengths DEF Ordered
<1>2. SUFFICES ASSUME pc'[r] \notin Quiet \cup {"reply"}
               PROVE  slot'[r] = Len(messages') /\ (tail' # NoTail => tail'.seq < slot'[r])
  BY <1>0 DEF Latest
<1>3. CASE Ask(r)
  <2>1. tail' = tail /\ slot'[r] = Len(messages) + 2
    BY <1>3 DEF Ask, Counts
  <2> QED
    BY <1>1, <1>3, <2>1, AskFacts, Lengths
<1>4. CASE ReplyCommit(r)
  <2>1. tail' = tail /\ slot'[r] = Len(messages) + 1 /\ snap[r] \in DOMAIN messages
    BY <1>4 DEF ReplyCommit, Counts, Placed, history
  <2> QED
    BY <1>1, <1>4, <2>1, ReplyFacts, Lengths
<1>5. CASE ~Ask(r) /\ ~ReplyCommit(r)
  <2>1. pc[r] \notin Quiet \cup {"reply"} /\ slot' = slot /\ snap' = snap
    BY <1>2, <1>5 DEF StepOf, ReplyCheck, AppendUser, Enqueue, Load, Fetch,
       Populate, Finish, Fail, AppendAssistant, Crash, Quiet, GoTo, Functions, run
  <2>2. slot[r] = Len(messages) /\ (tail # NoTail => tail.seq < slot[r])
    BY <2>1 DEF Latest
  <2>3. Len(messages') = Len(messages)
    <3>1. CASE Finish(r) \/ Fail(r)
      BY <3>1, EndFacts
    <3>2. CASE ~(Finish(r) \/ Fail(r))
      <4>1. messages' = messages
        BY <1>5, <3>2 DEF StepOf, ReplyCheck, AppendUser, Enqueue, Load, Fetch,
           Populate, AppendAssistant, Crash
      <4> QED
        BY <4>1
    <3> QED
      BY <3>1, <3>2
  <2>4. snap[r] < slot[r] /\ slot[r] \in Nat
    BY <2>1 DEF Placed, Posted, Idle, Quiet, Counts
  <2>5. tail' # NoTail => tail'.seq < slot[r]
    <3>1. CASE AppendUser(r)
      <4>1. tail' = tail \/ tail' = Appended(tail, Shown(snap[r]))
        BY <3>1 DEF AppendUser
      <4>2. tail' = tail \/ tail'.seq = snap[r]
        BY <4>1 DEF Appended, Shown
      <4> QED
        BY <2>2, <2>4, <4>2
    <3>2. CASE Populate(r)
      <4>1. tail' = tail \/ tail' = Populated(tail, context[r], slot[r] - 1)
        BY <3>2 DEF Populate
      <4>2. tail' = tail \/ tail'.seq = slot[r] - 1
        BY <4>1 DEF Populated
      <4> QED
        BY <2>2, <2>4, <4>2
    <3>3. CASE ~AppendUser(r) /\ ~Populate(r)
      <4>1. tail' = tail
        BY <1>2, <1>5, <3>3 DEF StepOf, ReplyCheck, Enqueue, Load, Fetch,
           Finish, Fail, AppendAssistant, Crash, Quiet, GoTo, Functions
      <4> QED
        BY <2>2, <4>1
    <3> QED
      BY <3>1, <3>2, <3>3
  <2> QED
    BY <2>1, <2>2, <2>3, <2>5
<1> QED
  BY <1>3, <1>4, <1>5

LEMMA GivenNext ==
  ASSUME Counts, Functions, Placed, Ordered, Complete, mishaps' = {},
         NEW r \in Run, StepOf(r)
  PROVE  Given'
<1>0. \A s \in Run \ {r} : pc'[s] \in Quiet /\ pc[s] \in Quiet
  BY OthersQuiet DEF Complete
<1>1. SUFFICES ASSUME pc'[r] \in {"populate", "run"}, NEW i \in Questions' \cup Answers',
                      slot'[r] - MaxTail <= i, i <= slot'[r] - 1
               PROVE  \E j \in DOMAIN context'[r] : context'[r][j] = Shown(i)'
  <2>1. \A s \in Run : pc'[s] \in {"populate", "run"} => s = r
    BY <1>0 DEF Quiet
  <2> QED
    BY <1>1, <2>1 DEF Given, Shows
<1>2. [Next]_vars
  BY DEF StepOf, Next
<1>3. messages' = messages /\ snap' = snap /\ slot' = slot
  BY <1>1 DEF StepOf, Ask, ReplyCheck, ReplyCommit, AppendUser, Enqueue, Load, Fetch,
     Populate, Finish, Fail, AppendAssistant, Crash, GoTo, Functions, run
<1>4. i \in Questions \cup Answers /\ Shown(i)' = Shown(i)
  BY <1>1, <1>3 DEF Questions, Answers, Shown
<1>5. i \in DOMAIN messages /\ messages[i] \notin Card /\ i \in Nat
  BY <1>4, Lengths DEF Questions, Answers, Card
<1>6. slot[r] \in Nat /\ slot[r] - MaxTail <= i /\ i <= slot[r] - 1
  BY <1>1, <1>3 DEF Counts
<1>7. CASE Fetch(r)
  <2>1. i < slot[r] /\ slot[r] <= i + MaxTail
    BY <1>5, <1>6, TailAssumption
  <2> QED
    BY <1>4, <1>5, <1>7, <2>1, FetchFacts
<1>8. CASE Load(r)
  <2>1. /\ pc[r] = "queued" /\ context'[r] = tail.msgs
        /\ tail # NoTail /\ tail.seq >= snap[r]
    BY <1>1, <1>8, LoadFacts DEF Functions
  <2>2. tail.seq \in Nat /\ snap[r] \in Nat
    BY <2>1, Lengths DEF Ordered, Counts
  <2>3. ~(i > tail.seq)
    BY <1>0, <1>4, <2>1, <2>2, OnlyIts DEF Complete
  <2>4. tail.seq < slot[r]
    BY <2>1 DEF Complete, Latest, Quiet
  <2>5. tail.seq - MaxTail + 1 <= i /\ i <= tail.seq
    BY <1>5, <1>6, <2>2, <2>3, <2>4, TailAssumption
  <2> QED
    BY <1>4, <2>1, <2>5 DEF Complete, Whole, Shows
<1>9. CASE pc[r] \in {"populate", "run"} /\ context'[r] = context[r]
  BY <1>4, <1>6, <1>9 DEF Complete, Given, Shows
<1> QED
  BY <1>1, <1>2, <1>7, <1>8, <1>9, AtWork

\* A step that leaves the table and the tail alone leaves the tail whole.
LEMMA WholeKept ==
  ASSUME Counts, Functions, Placed, Ordered, Complete, mishaps' = {},
         NEW r \in Run, StepOf(r), messages' = messages, tail' = tail, tail # NoTail,
         NEW i \in Questions \cup Answers, i > tail.seq
  PROVE  Bringing(i)'
<1>0. \A s \in Run \ {r} : pc[s] \in Quiet
  BY OthersQuiet DEF Complete
<1>1. \/ pc[r] \in Active \ {"run"} /\ i = snap[r]
      \/ pc[r] = "record" /\ i = slot[r]
  BY <1>0, OnlyIts DEF Complete
<1>2. snap' = snap /\ slot' = slot
  BY <1>1 DEF StepOf, Ask, ReplyCheck, ReplyCommit, AppendUser, Enqueue, Load, Fetch,
     Populate, Finish, Fail, AppendAssistant, Crash, Active, run
<1>3. \A x : NoteHole(x) => ~(tail.seq < x)
  BY DEF NoteHole
<1>4. tail.seq \in Nat /\ i \in Nat /\ tail.seq < i /\ snap[r] \in Nat /\ slot[r] \in Nat
  BY Lengths DEF Ordered, Questions, Answers, Counts
<1>5. CASE pc[r] = "record" /\ i = slot[r]
  <2>1. NoteHole(slot[r])
    BY <1>5 DEF StepOf, Ask, ReplyCheck, ReplyCommit, AppendUser, Enqueue, Load, Fetch,
       Populate, Finish, Fail, AppendAssistant, Crash
  <2> QED
    BY <1>3, <1>4, <1>5, <2>1
<1>6. CASE pc[r] \in Active \ {"run"} /\ i = snap[r]
  <2>1. ~NoteHole(snap[r])
    BY <1>3, <1>4, <1>6
  <2>2. CASE Load(r)
    <3>1. ~(tail.seq >= snap[r])
      BY <1>4, <1>6
    <3>2. pc'[r] = "fetch"
      BY <2>2, <3>1, LoadFacts DEF Functions
    <3> QED
      BY <1>2, <1>6, <3>2 DEF Bringing, Active
  <2>3. CASE Populate(r)
    <3>1. tail = Populated(tail, context[r], slot[r] - 1)
      BY <2>1, <2>3 DEF Populate
    <3>2. tail.seq >= slot[r] - 1
      BY <3>1, <1>4 DEF Populated
    <3>3. snap[r] < slot[r]
      BY <1>6 DEF Placed, Posted, Active, Idle
    <3> QED
      BY <1>4, <1>6, <3>2, <3>3
  <2>4. CASE ~Load(r) /\ ~Populate(r)
    <3>1. pc'[r] \in Active \ {"run"}
      BY <1>6, <2>1, <2>4 DEF StepOf, Ask, ReplyCheck, ReplyCommit, AppendUser, Enqueue, Fetch,
         Finish, Fail, AppendAssistant, Crash, GoTo, Functions, Active
    <3> QED
      BY <1>2, <1>6, <3>1 DEF Bringing
  <2> QED
    BY <2>2, <2>3, <2>4
<1> QED
  BY <1>1, <1>5, <1>6

\* A step on the table leaves alone what the tail shows, and the one run brings
\* what it adds.
LEMMA WholeAdded ==
  ASSUME Counts, Functions, Placed, Ordered, Complete, mishaps' = {}, tail # NoTail,
         NEW r \in Run, Ask(r) \/ ReplyCommit(r) \/ Finish(r) \/ Fail(r),
         NEW i \in Questions' \cup Answers'
  PROVE  /\ i <= tail.seq => i \in Questions \cup Answers
         /\ i > tail.seq => Bringing(i)'
<1>0. StepOf(r) /\ tail' = tail
  BY DEF StepOf, Ask, ReplyCommit, Finish, Fail, history
<1>1. \A s \in Run \ {r} : pc[s] \in Quiet
  BY <1>0, OthersQuiet DEF Complete
<1>2. tail.seq \in Nat /\ tail.seq <= Len(messages) /\ Len(messages) \in Nat
  BY Lengths DEF Ordered
<1>3. CASE Ask(r)
  <2>1. pc[r] = "new" /\ pc'[r] = "append" /\ snap'[r] = Len(messages) + 1
    BY <1>3 DEF Ask, GoTo, Functions, Counts
  <2>2. i = Len(messages) + 1 \/ (i \in Questions \cup Answers /\ i \in 1 .. Len(messages))
    BY <1>2, <1>3, AskFacts, Lengths DEF Questions, Answers
  <2>3. CASE i = Len(messages) + 1
    BY <1>2, <2>1, <2>3 DEF Bringing, Active
  <2>4. CASE i \in Questions \cup Answers
    BY <1>1, <2>1, <2>4, OnlyIts DEF Complete, Active
  <2> QED
    BY <2>2, <2>3, <2>4
<1>4. CASE ReplyCommit(r)
  <2>1. pc[r] = "reply" /\ snap[r] \in DOMAIN messages
    BY <1>4 DEF ReplyCommit, Placed
  <2>2. i \in Questions \cup Answers
    BY <1>2, <1>4, <2>1, ReplyFacts, Lengths DEF Questions, Answers
  <2> QED
    BY <1>1, <2>1, <2>2, OnlyIts DEF Complete, Active
<1>5. CASE Finish(r) \/ Fail(r)
  <2>1. /\ pc[r] \in Active /\ slot[r] \in 1 .. Len(messages) /\ messages[slot[r]] = "pending"
        /\ DOMAIN messages' = 1 .. Len(messages) /\ slot' = slot /\ snap' = snap
        /\ messages'[slot[r]] \in {"pending", "answer", "card", "error"}
        /\ \A j \in 1 .. Len(messages) : j # slot[r] => messages'[j] = messages[j]
        /\ pc' = [pc EXCEPT ![r] = IF Finish(r) /\ messages'[slot[r]] = "answer"
                                   THEN "record" ELSE "done"]
    BY <1>5, EndFacts
  <2>2. tail.seq < slot[r] /\ i \in Nat /\ slot[r] \in Nat
    BY <1>2, <2>1, Lengths DEF Complete, Latest, Quiet, Active, Questions, Answers
  <2>3. i = slot[r] \/ i \in Questions \cup Answers
    BY <2>1, Lengths DEF Questions, Answers
  <2>4. CASE i = slot[r]
    <3>1. messages'[slot[r]] = "answer"
      BY <2>1, <2>4 DEF Questions, Answers
    <3>2. Finish(r)
      <4>1. messages' = messages \/ messages' = [messages EXCEPT ![slot[r]] = "error"] \/ Finish(r)
        BY <1>5 DEF Fail
      <4>2. ~(messages' = [messages EXCEPT ![slot[r]] = "error"])
        BY <2>1, <3>1, SetFacts
      <4> QED
        BY <2>1, <3>1, <4>1, <4>2
    <3>3. pc'[r] = "record"
      BY <2>1, <3>1, <3>2 DEF Functions
    <3>4. Bringing(i)'
      BY <2>1, <2>4, <3>3 DEF Bringing
    <3>5. ~(i <= tail.seq)
      BY <1>2, <2>2, <2>4
    <3> QED
      BY <3>4, <3>5
  <2>5. CASE i \in Questions \cup Answers /\ i > tail.seq
    <3>1. pc[r] \in Active \ {"run"} /\ i = snap[r]
      BY <1>1, <2>1, <2>5, OnlyIts DEF Complete, Active
    <3>2. Fail(r) /\ NoteHole(snap[r])
      BY <1>5, <3>1 DEF Finish, Fail
    <3>3. ~(tail.seq < snap[r])
      BY <1>0, <3>2 DEF NoteHole
    <3> QED
      BY <1>2, <2>2, <2>5, <3>1, <3>3
  <2> QED
    BY <1>2, <2>2, <2>3, <2>4, <2>5
<1> QED
  BY <1>3, <1>4, <1>5

LEMMA WholeNext ==
  ASSUME Counts, Functions, Placed, Ordered, Complete, mishaps' = {},
         NEW r \in Run, StepOf(r)
  PROVE  Whole'
<1>0. \A s \in Run \ {r} : pc[s] \in Quiet
  BY OthersQuiet DEF Complete
<1>1. Grown /\ TailMove
  <2>1. [Next]_vars
    BY DEF StepOf, Next
  <2> QED
    BY <2>1, GrownNext, TailSteps
<1>2. SUFFICES ASSUME tail' # NoTail, NEW i \in Questions' \cup Answers'
               PROVE  /\ tail'.seq - MaxTail + 1 <= i /\ i <= tail'.seq =>
                           \E j \in DOMAIN tail'.msgs : tail'.msgs[j] = Shown(i)'
                      /\ i > tail'.seq => Bringing(i)'
  BY DEF Whole, Shows
<1>3. CASE messages' # messages
  <2>1. Ask(r) \/ ReplyCommit(r) \/ Finish(r) \/ Fail(r)
    BY <1>3 DEF StepOf, ReplyCheck, AppendUser, Enqueue, Load, Fetch, Populate,
       AppendAssistant, Crash
  <2>2. tail' = tail
    BY <2>1 DEF Ask, ReplyCommit, Finish, Fail, history
  <2>3. /\ i <= tail.seq => i \in Questions \cup Answers
        /\ i > tail.seq => Bringing(i)'
    BY <1>2, <2>1, <2>2, WholeAdded
  <2>4. i \in Questions \cup Answers => Shown(i)' = Shown(i)
    BY <1>1, StaysOn
  <2> QED
    BY <1>2, <2>2, <2>3, <2>4 DEF Complete, Whole, Shows
<1>4. CASE messages' = messages
  <2>0. i \in Questions \cup Answers /\ Shown(i)' = Shown(i) /\ i \in Nat
    BY <1>2, <1>4, Lengths DEF Questions, Answers, Shown
  <2>1. CASE tail' = tail
    BY <1>2, <1>4, <2>0, <2>1, WholeKept DEF Complete, Whole, Shows
  <2>2. ASSUME NEW x \in Questions \cup Answers, tail # NoTail, tail.seq < x,
               tail' = Appended(tail, Shown(x))
        PROVE  /\ tail'.seq - MaxTail + 1 <= i /\ i <= tail'.seq =>
                    \E j \in DOMAIN tail'.msgs : tail'.msgs[j] = Shown(i)
               /\ ~(i > tail'.seq)
    <3>1. PICK new \in Seq(Entry) :
             /\ Appended(tail, Shown(x)) = [msgs |-> new, seq |-> x]
             /\ \E j \in DOMAIN new : new[j] = Shown(x)
             /\ \A j \in DOMAIN tail.msgs : x - MaxTail < tail.msgs[j].seq =>
                  \E k \in DOMAIN new : new[k] = tail.msgs[j]
      BY <2>2, AppendedListed
    <3>2. tail'.msgs = new /\ tail'.seq = x
      BY <2>2, <3>1
    <3>3. x \in Nat /\ tail.seq \in Nat /\ x > tail.seq
      BY <2>2, Lengths DEF Questions, Answers, Ordered
    <3>4. i > tail.seq => i = x
      BY <1>0, <2>0, <2>2, <3>3, OnlyIts DEF Complete, Active
    <3>5. ASSUME x - MaxTail + 1 <= i, i <= x
          PROVE  \E j \in DOMAIN new : new[j] = Shown(i)
      <4>1. CASE i > tail.seq
        BY <3>1, <3>4, <4>1
      <4>2. CASE ~(i > tail.seq)
        <5>1. tail.seq - MaxTail + 1 <= i /\ i <= tail.seq /\ x - MaxTail < i
          BY <2>0, <3>3, <3>5, <4>2, TailAssumption
        <5>2. PICK j \in DOMAIN tail.msgs : tail.msgs[j] = Shown(i)
          BY <2>0, <2>2, <5>1 DEF Complete, Whole, Shows
        <5>3. tail.msgs[j].seq = i
          BY <5>2 DEF Shown
        <5> QED
          BY <3>1, <5>1, <5>2, <5>3
      <4> QED
        BY <4>1, <4>2
    <3>6. ~(i > x)
      BY <2>0, <3>3, <3>4
    <3> QED
      BY <3>2, <3>5, <3>6
  <2>3. ASSUME NEW s \in Run, pc[s] = "populate",
               tail' = [msgs |-> context[s], seq |-> slot[s] - 1]
        PROVE  /\ tail'.seq - MaxTail + 1 <= i /\ i <= tail'.seq =>
                    \E j \in DOMAIN tail'.msgs : tail'.msgs[j] = Shown(i)
               /\ ~(i > tail'.seq)
    <3>1. Posted(s) /\ slot[s] = Len(messages) /\ messages[slot[s]] = "pending"
      BY <2>3 DEF Complete, Latest, Quiet, Placed, Posted, Idle, Active
    <3>2. tail'.msgs = context[s] /\ tail'.seq = slot[s] - 1 /\ slot[s] \in Nat
      BY <2>3, <3>1, Lengths
    <3>3. i # slot[s] /\ i <= slot[s]
      <4>1. i \in 1 .. Len(messages) /\ messages[i] # "pending"
        BY <2>0, Lengths DEF Questions, Answers
      <4> QED
        BY <3>1, <4>1
    <3>4. ~(i > slot[s] - 1)
      BY <2>0, <3>2, <3>3
    <3>5. slot[s] - 1 - MaxTail + 1 <= i => slot[s] - MaxTail <= i
      BY <2>0, <3>2, TailAssumption
    <3> QED
      BY <2>0, <2>3, <3>2, <3>4, <3>5 DEF Complete, Given, Shows
  <2> QED
    BY <1>1, <1>2, <2>0, <2>1, <2>2, <2>3 DEF TailMove
<1> QED
  BY <1>3, <1>4

LEMMA CompleteNext ==
  ASSUME Counts, Functions, Placed, Ordered, mishaps = {} => Complete, [Next]_vars,
         mishaps' = {}
  PROVE  Complete'
<1>0. Complete
  BY MishapsGrow
<1>1. ASSUME NEW r \in Run, StepOf(r) PROVE Complete'
  <2>1. Alone'
    <3>1. \A s \in Run \ {r} : pc'[s] \in Quiet
      BY <1>0, <1>1, OthersQuiet DEF Complete
    <3> QED
      BY <3>1 DEF Alone
  <2> QED
    BY <1>0, <1>1, <2>1, LatestNext, GivenNext, WholeNext DEF Complete
<1>2. CASE Expire
  BY <1>0, <1>2 DEF Expire, run, history, Complete, Alone, Latest, Given, Whole, Shows,
     Questions, Answers, Shown
<1>3. CASE UNCHANGED vars
  BY <1>0, <1>3 DEF vars, run, history, Complete, Alone, Latest, Given, Whole, Shows,
     Questions, Answers, Shown, Bringing
<1> QED
  BY <1>1, <1>2, <1>3 DEF Next, StepOf

LEMMA FunctionsNext ==
  ASSUME Counts, Functions, Placed, Ordered, [Next]_vars PROVE Functions'
<1>1. ASSUME NEW r \in Run, Fetch(r) PROVE Functions'
  <2>1. Recent(slot[r] - 1) \in Seq(Entry)
    BY <1>1, FetchFacts DEF Listed
  <2> QED
    BY <1>1, <2>1 DEF Fetch, GoTo, Functions
<1>2. ASSUME NEW r \in Run, Load(r) PROVE Functions'
  <2>1. tail # NoTail => tail.msgs \in Seq(Entry)
    BY DEF Ordered, Listed
  <2> QED
    BY <1>2, <2>1 DEF Load, GoTo, Functions
<1>3. ASSUME NEW r \in Run,
             \/ Ask(r) \/ ReplyCheck(r) \/ ReplyCommit(r) \/ AppendUser(r)
             \/ Enqueue(r) \/ Populate(r)
             \/ Finish(r) \/ Fail(r) \/ AppendAssistant(r) \/ Crash(r)
      PROVE  Functions'
  BY <1>3 DEF Functions, Ask, ReplyCheck, ReplyCommit, AppendUser, Enqueue, Populate,
     Finish, Fail, AppendAssistant, Crash, GoTo
<1>4. CASE Expire \/ UNCHANGED vars
  BY <1>4 DEF Functions, Expire, vars
<1> QED
  BY <1>1, <1>2, <1>3, <1>4 DEF Next
-----------------------------------------------------------------------------
(* The theorems.                                                           *)

Inv == /\ Counts /\ Functions /\ Placed /\ Ordered /\ Asking
       /\ mishaps = {} => Complete

LEMMA InvInit == Init => Inv
BY DEF Init, Inv, Counts, Functions, Placed, Idle, Ordered, Asking, Complete, Alone, Latest,
   Given, Whole, Quiet, Active

LEMMA InvNext == Inv /\ [Next]_vars => Inv'
BY CountsNext, FunctionsNext, PlacedNext, OrderedNext, AskingNext, CompleteNext DEF Inv

LEMMA Invariant == Spec => []Inv
BY InvInit, InvNext, PTL DEF Spec

\* Whoever appends, populates late, repeats or dies, a live tail is only ever
\* replaced by one at least as new: the two scripts compare latest_seq in the
\* same step in which they write.
THEOREM TailNeverOlder == Spec => NewerTailKept
<1> DEFINE Newer == tail # NoTail /\ tail' # NoTail => tail'.seq >= tail.seq
<1>1. Inv /\ [Next]_vars => [Newer]_vars
  <2> SUFFICES ASSUME Inv, [Next]_vars, tail # NoTail, tail' # NoTail
               PROVE  tail'.seq >= tail.seq
    OBVIOUS
  <2>1. tail.seq \in Nat /\ TailMove
    BY TailSteps, Lengths DEF Inv, Ordered
  <2>2. CASE tail' = tail
    BY <2>1, <2>2
  <2>3. ASSUME NEW x \in Questions \cup Answers, tail.seq < x, tail' = Appended(tail, Shown(x))
        PROVE  tail'.seq >= tail.seq
    <3>1. x \in Nat /\ Shown(x).seq = x
      BY Lengths DEF Inv, Questions, Answers, Shown
    <3> QED
      BY <2>1, <2>3, <3>1 DEF Appended
  <2>4. ASSUME NEW r \in Run, tail' = [msgs |-> context[r], seq |-> slot[r] - 1],
               ~(tail.seq >= slot[r] - 1)
        PROVE  tail'.seq >= tail.seq
    BY <2>1, <2>4 DEF Inv, Counts
  <2> QED
    BY <2>1, <2>2, <2>3, <2>4 DEF TailMove
<1> QED
  BY <1>1, Invariant, PTL DEF Spec, NewerTailKept

\* Whichever runs append, populate, repeat or expire, the cached tail lists
\* messages of the conversation in their order, none twice and none past its
\* latest_seq, and shows questions as questions.
THEOREM TailListed == Spec => []TailInOrder
<1>1. Inv => TailInOrder
  BY DEF Inv, Ordered, Listed, Rising, TailInOrder, Questions
<1> QED
  BY <1>1, Invariant, PTL

\* A run that nobody posted or answered beside works with a history whose last
\* question is its own, through lost appends, expiries, late populates and
\* redeliveries, unless cards pushed the question out of the window.
THEOREM OwnLast == Spec => []OwnQuestion
<1>1. Inv => OwnQuestion
  BY DEF Inv, Asking, OwnQuestion
<1> QED
  BY <1>1, Invariant, PTL

\* Without overlaps and losses a run sees each question and answer of the last
\* messages before its placeholder, whether from the tail or from the table.
THEOREM NothingMissing == Spec => []HistoryComplete
<1>1. Inv => HistoryComplete
  <2> SUFFICES ASSUME Inv, mishaps = {}, NEW r \in Run, pc[r] = "run", NEW i \in DOMAIN messages,
                      i < slot[r], i + MaxTail >= slot[r], messages[i] \in {"question", "answer"}
               PROVE  \E j \in DOMAIN context[r] : context[r][j] = Shown(i)
    BY DEF HistoryComplete
  <2>1. i \in Nat /\ slot[r] \in Nat
    BY Lengths DEF Inv, Counts
  <2>2. slot[r] - MaxTail <= i /\ i <= slot[r] - 1
    BY <2>1, TailAssumption
  <2>3. i \in Questions \cup Answers
    BY DEF Questions, Answers
  <2> QED
    BY <2>2, <2>3 DEF Inv, Complete, Given, Shows
<1> QED
  BY <1>1, Invariant, PTL
=============================================================================
