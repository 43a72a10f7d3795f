------------------------- MODULE EventStream_proofs -------------------------
(***************************************************************************)
(* Proofs about the delivery of run events, for any number of events,      *)
(* writing processes, broken connections and repeated appends, and every   *)
(* replay limit.                                                           *)
(***************************************************************************)
EXTENDS EventStream, FiniteSetTheorems, SequenceTheorems, WellFoundedInduction, TLAPS

SeqType == seq \in [Event -> Nat]

\* The order under the sequences s, and: the event x comes no later than the cursor c.
Bef(s, x, y) == s[x] < s[y] \/ (s[x] = s[y] /\ x < y)
AtMost(s, c, x) == c # Nobody /\ (x = c \/ Bef(s, x, c))

-----------------------------------------------------------------------------
(* The order of the store.                                                  *)

LEMMA EventFacts ==
  /\ EventCount \in Nat /\ EventCount > 0 /\ Event \subseteq Nat /\ Nobody \notin Event
  /\ ErrorFrame \notin Event /\ Nobody = 0 /\ ErrorFrame = 0
  /\ IsFiniteSet(Event) /\ Cardinality(Event) = EventCount
<1>1. EventCount \in Nat /\ EventCount > 0
  BY ConstantsAssumption
<1>2. IsFiniteSet(1 .. EventCount) /\ Cardinality(1 .. EventCount) = EventCount
  BY <1>1, FS_Interval
<1> QED BY <1>1, <1>2 DEF Event, Nobody, ErrorFrame

\* Bef is a total order, and AtMost the initial segments of it.
LEMMA OrderFacts ==
  ASSUME NEW s \in [Event -> Nat]
  PROVE  /\ \A x \in Event : ~Bef(s, x, x) /\ AtMost(s, x, x)
         /\ \A x, y \in Event : x = y \/ Bef(s, x, y) \/ Bef(s, y, x)
         /\ \A x, y \in Event : Bef(s, x, y) => ~Bef(s, y, x) /\ x # y /\ ~AtMost(s, x, y) /\ AtMost(s, y, x)
         /\ \A x, y, z \in Event : Bef(s, x, y) /\ Bef(s, y, z) => Bef(s, x, z)
         /\ \A c \in Event \cup {Nobody} : \A x, y \in Event : AtMost(s, c, x) /\ Bef(s, y, x) => AtMost(s, c, y)
         /\ \A c \in Event \cup {Nobody} : \A x, y \in Event : AtMost(s, c, y) /\ ~AtMost(s, c, x) => Bef(s, y, x)
         /\ \A c \in Event \cup {Nobody} : \A d, x \in Event : AtMost(s, c, d) /\ AtMost(s, d, x) => AtMost(s, c, x)
         /\ \A c, x \in Event : ~AtMost(s, c, x) <=> Bef(s, c, x)
         /\ \A x : ~AtMost(s, Nobody, x)
<1>1. /\ \A x \in Event : s[x] \in Nat /\ x \in Nat /\ x # Nobody
  BY EventFacts
<1> DEFINE Lt(x, y) == s[x] < s[y] \/ (s[x] = s[y] /\ x < y)
<1>2. \A x, y : Bef(s, x, y) <=> Lt(x, y)
  BY DEF Bef
<1>3. \A x \in Event : ~Bef(s, x, x)
  BY <1>1, <1>2
<1>4. \A x, y \in Event : x = y \/ Bef(s, x, y) \/ Bef(s, y, x)
  BY <1>1, <1>2
<1>5. \A x, y \in Event : Bef(s, x, y) => ~Bef(s, y, x)
  BY <1>1, <1>2
<1>6. \A x, y, z \in Event : Bef(s, x, y) /\ Bef(s, y, z) => Bef(s, x, z)
  BY <1>1, <1>2
<1>7. \A c, x : AtMost(s, c, x) <=> c # Nobody /\ (x = c \/ Bef(s, x, c))
  BY DEF AtMost
<1>8. \A c \in Event \cup {Nobody} : c # Nobody => c \in Event
  OBVIOUS
<1>9. \A x \in Event : x # Nobody
  BY <1>1
<1>10. \A c \in Event \cup {Nobody} : \A x, y \in Event : AtMost(s, c, x) /\ Bef(s, y, x) => AtMost(s, c, y)
  BY <1>6, <1>7, <1>8
<1>11. \A c \in Event \cup {Nobody} : \A x, y \in Event : AtMost(s, c, y) /\ ~AtMost(s, c, x) => Bef(s, y, x)
  BY <1>4, <1>6, <1>7, <1>8
<1>12. \A c \in Event \cup {Nobody} : \A d, x \in Event : AtMost(s, c, d) /\ AtMost(s, d, x) => AtMost(s, c, x)
  BY <1>6, <1>7, <1>8
<1>13. \A c, x \in Event : ~AtMost(s, c, x) <=> Bef(s, c, x)
  BY <1>3, <1>4, <1>5, <1>7, <1>9
<1>14. \A x \in Event : AtMost(s, x, x)
  BY <1>7, <1>9
<1>15. \A x, y \in Event : Bef(s, x, y) => x # y /\ AtMost(s, y, x)
  BY <1>3, <1>7, <1>9
<1> QED BY <1>3, <1>4, <1>5, <1>6, <1>7, <1>10, <1>11, <1>12, <1>13, <1>14, <1>15

\* The list of a set of events holds each of them once, in order.
LEMMA InOrderList ==
  ASSUME SeqType, NEW S \in SUBSET Event
  PROVE  /\ inOrder(S) \in Seq(S) /\ Len(inOrder(S)) = Cardinality(S) /\ Cardinality(S) \in Nat
         /\ \A x \in S : \E i \in 1 .. Len(inOrder(S)) : inOrder(S)[i] = x
         /\ \A i, j \in 1 .. Len(inOrder(S)) : i < j => Bef(seq, inOrder(S)[i], inOrder(S)[j])
<1> DEFINE below(e) == {f \in S : Bef(seq, f, e)}
           n == Cardinality(S)
           rank == [e \in S |-> Cardinality(below(e)) + 1]
<1>1. IsFiniteSet(S) /\ n \in Nat
  BY EventFacts, FS_Subset, FS_CardinalityType
<1>2. \A e \in S : below(e) \in SUBSET S /\ IsFiniteSet(below(e)) /\ Cardinality(below(e)) \in Nat
  BY <1>1, FS_Subset, FS_CardinalityType
<1>3. \A e \in S : Cardinality(below(e)) < n
  <2> TAKE e \in S
  <2>1. e \notin below(e) /\ below(e) # S
    BY OrderFacts DEF SeqType
  <2>2. Cardinality(below(e)) <= n /\ (n = Cardinality(below(e)) => S = below(e))
    BY <1>1, <1>2, FS_Subset
  <2> QED BY <2>1, <2>2, <1>1, <1>2
<1>4. \A e, f \in S : Bef(seq, e, f) => Cardinality(below(e)) < Cardinality(below(f))
  <2> SUFFICES ASSUME NEW e \in S, NEW f \in S, Bef(seq, e, f)
               PROVE  Cardinality(below(e)) < Cardinality(below(f))
    OBVIOUS
  <2>1. below(e) \subseteq below(f) /\ e \in below(f) /\ e \notin below(e)
    BY OrderFacts DEF SeqType
  <2>2. Cardinality(below(e)) <= Cardinality(below(f)) /\ (Cardinality(below(f)) = Cardinality(below(e)) => below(f) = below(e))
    BY <2>1, <1>2, FS_Subset
  <2> QED BY <2>1, <2>2, <1>2
<1> HIDE DEF below
<1>5. rank \in [S -> 1 .. n] /\ \A e \in S : rank[e] = Cardinality(below(e)) + 1
  BY <1>1, <1>2, <1>3
<1>6. \A e, f \in S : Bef(seq, e, f) => rank[e] < rank[f]
  BY <1>2, <1>4, <1>5
<1> HIDE DEF rank
<1>7. \A e, f \in S : rank[e] \in Nat
  BY <1>1, <1>5
<1>8. \A e, f \in S : rank[e] = rank[f] => e = f
  <2> TAKE e, f \in S
  <2>1. e = f \/ Bef(seq, e, f) \/ Bef(seq, f, e)
    BY OrderFacts DEF SeqType
  <2> QED BY <2>1, <1>6, <1>7
<1>9. rank \in Injection(S, 1 .. n)
  BY <1>5, <1>8 DEF Injection, IsInjective
<1>10. IsFiniteSet(1 .. n) /\ Cardinality(1 .. n) = n
  BY <1>1, FS_Interval
<1>11. rank \in Surjection(S, 1 .. n)
  BY <1>9, <1>10, FS_Injection
<1>12. \A i \in 1 .. n : \E e \in S : rank[e] = i
  BY <1>11 DEF Surjection
<1>13. \A i \in 1 .. n : \A e \in S : (Cardinality(below(e)) = i - 1 <=> rank[e] = i)
  BY <1>1, <1>2, <1>5
<1> DEFINE s == inOrder(S)
<1>14. s = [i \in 1 .. n |-> CHOOSE e \in S : Cardinality(below(e)) = i - 1]
  BY DEF inOrder, below, Before, Bef
<1> HIDE DEF s, n
<1>15. \A i \in 1 .. n : s[i] \in S /\ rank[s[i]] = i
  <2> TAKE i \in 1 .. n
  <2>1. s[i] = CHOOSE e \in S : Cardinality(below(e)) = i - 1
    BY <1>14
  <2>2. \E e \in S : Cardinality(below(e)) = i - 1
    BY <1>12, <1>13
  <2>3. s[i] \in S /\ Cardinality(below(s[i])) = i - 1
    BY <2>1, <2>2
  <2> QED BY <2>3, <1>13
<1>16. s \in Seq(S) /\ Len(s) = n
  <2>1. s \in [1 .. n -> S]
    BY <1>14, <1>15
  <2> QED BY <2>1, <1>1, IsASeq, LenProperties
<1>17. \A x \in S : \E i \in 1 .. n : s[i] = x
  <2> TAKE x \in S
  <2>1. rank[x] \in 1 .. n
    BY <1>5
  <2> QED BY <2>1, <1>8, <1>15
<1>18. \A i, j \in 1 .. n : i < j => Bef(seq, s[i], s[j])
  <2> SUFFICES ASSUME NEW i \in 1 .. n, NEW j \in 1 .. n, i < j
               PROVE  Bef(seq, s[i], s[j])
    OBVIOUS
  <2>1. s[i] \in S /\ s[j] \in S /\ rank[s[i]] = i /\ rank[s[j]] = j
    BY <1>15
  <2>2. s[i] # s[j] /\ i \in Nat /\ j \in Nat
    BY <2>1, <1>1
  <2>3. ~Bef(seq, s[j], s[i])
    BY <2>1, <2>2, <1>6
  <2> QED BY <2>1, <2>2, <2>3, OrderFacts DEF SeqType
<1> QED BY <1>1, <1>16, <1>17, <1>18 DEF s, n

-----------------------------------------------------------------------------
(* The store: what the appends of several processes keep.                   *)

StoreType ==
  /\ origin \in Origins
  /\ seq \in [Event -> 0 .. EventCount]
  /\ chosen \in [Event -> 0 .. EventCount]

\* Sequences are at most as many as events are stored, whoever numbers them.
Counted ==
  \A e \in Event :
    /\ seq[e] <= Cardinality(Stored)
    /\ seq[e] = 0 => chosen[e] <= Cardinality(Stored) + 1

\* One writer has one append under way, and what it chose is larger than
\* everything stored.
Serial ==
  OneWriter =>
    \A e \in Event :
      chosen[e] # 0 /\ seq[e] = 0 =>
        /\ \A f \in Event : seq[f] < chosen[e]
        /\ \A f \in Event : chosen[f] # 0 /\ seq[f] = 0 => f = e

StoreInv == StoreType /\ Counted /\ Serial /\ SequencesUnique

LEMMA StoreTyped ==
  ASSUME StoreInv
  PROVE  /\ SeqType
         /\ \A e \in Event : seq[e] \in Nat /\ chosen[e] \in Nat /\ seq[e] <= EventCount /\ chosen[e] <= EventCount
         /\ Stored \in SUBSET Event /\ IsFiniteSet(Stored) /\ Cardinality(Stored) \in Nat
<1>1. Stored \in SUBSET Event
  BY DEF Stored
<1>2. IsFiniteSet(Stored) /\ Cardinality(Stored) \in Nat
  BY <1>1, EventFacts, FS_Subset, FS_CardinalityType
<1> QED BY <1>1, <1>2, EventFacts DEF StoreInv, StoreType, SeqType

\* A set of naturals that is not empty has a least element.
LEMMA LeastNumber ==
  ASSUME NEW T, \A x \in T : x \in Nat, T # {}
  PROVE  \E x \in T : \A y \in T : x <= y
<1> DEFINE R == OpToRel(<, Nat)
<1>1. IsWellFoundedOn(R, Nat)
  BY NatLessThanWellFounded
<1>2. \A x, y \in Nat : <<x, y>> \in R <=> x < y
  BY DEF OpToRel
<1> HIDE DEF R
<1>3. PICK x \in T : \A y \in T : ~(<<y, x>> \in R)
  BY <1>1, WFMin, T \subseteq Nat
<1>4. x \in Nat /\ \A y \in T : ~(y < x)
  BY <1>2, <1>3
<1> QED BY <1>4

\* select coalesce(max(sequence), 0) + 1 is larger than every sequence, and one
\* of them plus one.
LEMMA NextSequence ==
  ASSUME StoreInv
  PROVE  /\ nextSequence \in Nat /\ nextSequence # 0
         /\ \A f \in Event : seq[f] < nextSequence
         /\ nextSequence <= Cardinality(Stored) + 1
<1> DEFINE T == {seq[e] : e \in Event}
           U == {EventCount - seq[e] : e \in Event}
<1>1. \A e \in Event : seq[e] \in Nat /\ seq[e] <= EventCount
  BY StoreTyped
<1>2. EventCount \in Nat /\ 1 \in Event
  BY EventFacts DEF Event
<1>3. U # {} /\ \A x \in U : x \in Nat
  BY <1>1, <1>2
<1>4. PICK x \in U : \A y \in U : x <= y
  <2> HIDE DEF U
  <2> QED BY <1>3, LeastNumber
<1>5. PICK e \in Event : x = EventCount - seq[e]
  BY <1>4
<1>6. \A f \in Event : seq[f] <= seq[e]
  <2> TAKE f \in Event
  <2>1. EventCount - seq[e] <= EventCount - seq[f]
    BY <1>4, <1>5
  <2> QED BY <2>1, <1>1, <1>2, <1>5
<1>7. seq[e] \in T /\ \A y \in T : seq[e] >= y
  BY <1>1, <1>5, <1>6
<1>8. PICK m \in T : m = Max(T) /\ \A y \in T : m >= y
  <2> HIDE DEF T
  <2> QED BY <1>7 DEF Max
<1>9. nextSequence = m + 1
  BY <1>8 DEF nextSequence
<1>10. PICK g \in Event : m = seq[g]
  BY <1>8
<1>11. \A f \in Event : seq[f] <= m
  BY <1>8, <1>1, <1>10
<1>12. m \in Nat /\ m <= Cardinality(Stored) /\ Cardinality(Stored) \in Nat
  BY <1>1, <1>10, StoreTyped DEF StoreInv, Counted
<1> QED BY <1>1, <1>9, <1>11, <1>12

\* What the insert of an append does to the order: stored events keep theirs, and
\* the event of a single writer comes last.
LEMMA OrderGrows ==
  ASSUME StoreInv, NEW e \in Event, chosen[e] # 0, seq[e] = 0,
         seq' = [seq EXCEPT ![e] = chosen[e]], UNCHANGED <<origin, chosen>>
  PROVE  /\ StoreInv' /\ Stored' = Stored \cup {e} /\ e \notin Stored
         /\ \A x, y \in Stored : Bef(seq', x, y) <=> Bef(seq, x, y)
         /\ OneWriter => \A x \in Stored : Bef(seq', x, e) /\ ~Bef(seq', e, x)
<1>1. /\ SeqType /\ Stored \in SUBSET Event /\ IsFiniteSet(Stored) /\ Cardinality(Stored) \in Nat
      /\ \A f \in Event : seq[f] \in Nat /\ chosen[f] \in Nat /\ seq[f] <= EventCount /\ chosen[f] <= EventCount
  BY StoreTyped
<1>2. DOMAIN seq = Event
  BY <1>1 DEF SeqType
<1>3. seq'[e] = chosen[e] /\ \A f \in Event : f # e => seq'[f] = seq[f]
  BY <1>2
<1>4. e \notin Stored /\ Stored' = Stored \cup {e}
  BY <1>3 DEF Stored
<1>5. Cardinality(Stored') = Cardinality(Stored) + 1
  BY <1>1, <1>4, FS_AddElement
<1>6. StoreType'
  BY EventFacts DEF StoreInv, StoreType
<1>7. Counted'
  <2>1. \A f \in Event : seq'[f] <= Cardinality(Stored) + 1
    BY <1>1, <1>3 DEF StoreInv, Counted
  <2>2. \A f \in Event : seq'[f] = 0 => chosen[f] <= Cardinality(Stored) + 2
    BY <1>1, <1>3 DEF StoreInv, Counted
  <2> QED BY <1>1, <1>5, <2>1, <2>2 DEF Counted
<1>8. OneWriter' <=> OneWriter
  BY DEF OneWriter
<1>9. OneWriter => \A f \in Event : seq[f] < chosen[e]
  BY DEF StoreInv, Serial
<1>10. Serial'
  <2> SUFFICES ASSUME OneWriter, NEW g \in Event, chosen[g] # 0, seq'[g] = 0
               PROVE  FALSE
    BY <1>8 DEF Serial
  <2>1. g # e /\ seq[g] = 0
    BY <1>3
  <2> QED BY <2>1 DEF StoreInv, Serial
<1>11. SequencesUnique'
  <2> SUFFICES ASSUME OneWriter, NEW x \in Stored \cup {e}, NEW y \in Stored \cup {e}, x # y
               PROVE  seq'[x] # seq'[y]
    BY <1>4, <1>8 DEF SequencesUnique
  <2>1. CASE x = e
    BY <2>1, <1>1, <1>3, <1>9
  <2>2. CASE y = e
    BY <2>2, <1>1, <1>3, <1>9
  <2>3. CASE x # e /\ y # e
    <3>1. seq'[x] = seq[x] /\ seq'[y] = seq[y]
      BY <2>3, <1>1, <1>3
    <3> QED BY <2>3, <3>1 DEF StoreInv, SequencesUnique
  <2> QED BY <2>1, <2>2, <2>3
<1>12. \A x, y \in Stored : Bef(seq', x, y) <=> Bef(seq, x, y)
  BY <1>1, <1>3, <1>4 DEF Bef
<1>13. OneWriter => \A x \in Stored : Bef(seq', x, e) /\ ~Bef(seq', e, x)
  BY <1>1, <1>3, <1>4, <1>9 DEF Bef
<1> QED BY <1>4, <1>6, <1>7, <1>10, <1>11, <1>12, <1>13 DEF StoreInv

\* The choice of a sequence.
LEMMA ChoosesNext ==
  ASSUME StoreInv, NEW e \in Event, chooseSequence(e)
  PROVE  StoreInv'
<1>1. /\ seq[e] = 0 /\ chosen[e] = 0 /\ ~InAppend(origin[e]) /\ origin' = origin /\ seq' = seq
      /\ chosen' = [chosen EXCEPT ![e] = nextSequence]
  BY DEF chooseSequence
<1>2. /\ Stored \in SUBSET Event /\ IsFiniteSet(Stored) /\ Cardinality(Stored) \in Nat
      /\ \A f \in Event : seq[f] \in Nat /\ chosen[f] \in Nat
  BY StoreTyped
<1>3. PICK n \in Nat : n = nextSequence
  BY NextSequence
<1>4. n # 0 /\ (\A f \in Event : seq[f] < n) /\ n <= Cardinality(Stored) + 1
  BY <1>3, NextSequence
<1>5. DOMAIN chosen = Event
  BY DEF StoreInv, StoreType
<1>6. chosen'[e] = n /\ \A f \in Event : f # e => chosen'[f] = chosen[f]
  BY <1>1, <1>3, <1>5
<1>7. n <= EventCount
  <2>1. e \notin Stored /\ Stored \cup {e} \in SUBSET Event
    BY <1>1, <1>2 DEF Stored
  <2>2. Cardinality(Stored \cup {e}) = Cardinality(Stored) + 1
    BY <2>1, <1>2, FS_AddElement
  <2>3. Cardinality(Stored \cup {e}) <= EventCount
    BY <2>1, EventFacts, FS_Subset
  <2> QED BY <2>2, <2>3, <1>2, <1>4, EventFacts
<1>8. Stored' = Stored /\ (OneWriter' <=> OneWriter)
  BY <1>1 DEF Stored, OneWriter
<1>9. StoreType'
  <2>1. n \in 0 .. EventCount
    BY <1>7, EventFacts
  <2> QED BY <1>1, <1>3, <2>1 DEF StoreInv, StoreType
<1>10. Counted'
  <2>1. \A f \in Event : seq[f] <= Cardinality(Stored)
    BY DEF StoreInv, Counted
  <2>2. \A f \in Event : seq[f] = 0 => chosen'[f] <= Cardinality(Stored) + 1
    BY <1>4, <1>6 DEF StoreInv, Counted
  <2> QED BY <2>1, <2>2, <1>1, <1>8 DEF Counted
<1>11. Serial'
  <2> SUFFICES ASSUME OneWriter, NEW g \in Event, chosen'[g] # 0, seq[g] = 0
               PROVE  /\ \A f \in Event : seq[f] < chosen'[g]
                      /\ \A f \in Event : chosen'[f] # 0 /\ seq[f] = 0 => f = g
    BY <1>1, <1>8 DEF Serial
  <2>1. \A f \in Event : origin[f] = origin[e]
    BY DEF OneWriter
  <2>2. \A f \in Event : ~(chosen[f] # 0 /\ seq[f] = 0)
    BY <1>1, <2>1 DEF InAppend
  <2>3. g = e /\ \A f \in Event : chosen'[f] # 0 /\ seq[f] = 0 => f = e
    BY <2>2, <1>6
  <2> QED BY <2>3, <1>4, <1>6
<1>12. SequencesUnique'
  BY <1>1, <1>8 DEF StoreInv, SequencesUnique
<1> QED BY <1>9, <1>10, <1>11, <1>12 DEF StoreInv

\* A step that does not append.
LEMMA StoreKept ==
  ASSUME StoreInv, UNCHANGED store
  PROVE  StoreInv' /\ Stored' = Stored /\ (OneWriter' <=> OneWriter) /\ seq' = seq
<1>1. origin' = origin /\ seq' = seq /\ chosen' = chosen
  BY DEF store
<1>2. Stored' = Stored /\ (OneWriter' <=> OneWriter)
  BY <1>1 DEF Stored, OneWriter
<1>3. StoreInv'
  BY <1>1, <1>2 DEF StoreInv, StoreType, Counted, Serial, SequencesUnique
<1> QED BY <1>1, <1>2, <1>3

-----------------------------------------------------------------------------
(* The stream and the client.                                               *)

LinkType ==
  /\ server \in Server /\ channel \in Seq(Event \cup {ErrorFrame}) /\ client \in Client
  /\ breaks \in 0 .. MaxBreaks /\ repeats \in 0 .. MaxRepeats

Connection ==
  /\ server.state = "closed" => channel = <<>>
  /\ client.state # "connected" => server.state = "closed"
  /\ server.reading => server.state # "closed"

\* Whatever is on its way, shown or remembered as a cursor is stored.
Persisted ==
  /\ client.shown \subseteq Stored /\ client.seen \subseteq Stored
  /\ \A i \in 1 .. Len(channel) : channel[i] # ErrorFrame => channel[i] \in Stored
  /\ \A i \in 1 .. Len(server.list) : server.list[i] \in Stored
  /\ client.cursor # Nobody => client.cursor \in Stored
  /\ server.cursor # Nobody => server.cursor \in Stored

\* What the client was sent: everything up to its cursor, and nothing beyond it.
UpToCursor == \A e \in Stored : AtMost(seq, client.cursor, e) => e \in client.shown
SeenBefore == \A e \in client.seen : AtMost(seq, client.cursor, e)

\* Between the client's cursor and the server's there is exactly the channel, in
\* order.
NoGap ==
  server.state # "closed" =>
    \A e \in Stored :
      AtMost(seq, server.cursor, e) =>
        AtMost(seq, client.cursor, e) \/ \E i \in 1 .. Len(channel) : channel[i] = e
ServerAhead ==
  server.state # "closed" /\ client.cursor # Nobody => AtMost(seq, server.cursor, client.cursor)
ChannelAhead ==
  \A i \in 1 .. Len(channel) :
    channel[i] # ErrorFrame =>
      AtMost(seq, server.cursor, channel[i]) /\ ~AtMost(seq, client.cursor, channel[i])
ChannelSorted ==
  \A i, j \in 1 .. Len(channel) :
    i < j /\ channel[i] # ErrorFrame /\ channel[j] # ErrorFrame => Bef(seq, channel[i], channel[j])

\* A replay that was read is the list of what follows the server's cursor, up to
\* its last event, and goes into an empty channel.
ListSorted ==
  \A i, j \in 1 .. Len(server.list) : i < j => Bef(seq, server.list[i], server.list[j])
ListAhead == \A i \in 1 .. Len(server.list) : ~AtMost(seq, server.cursor, server.list[i])
ListWhole ==
  \A e \in Stored : \A i \in 1 .. Len(server.list) :
    Bef(seq, e, server.list[i]) /\ ~AtMost(seq, server.cursor, e) =>
      \E j \in 1 .. Len(server.list) : server.list[j] = e
ReadsWhenEmpty == server.reading \/ server.state = "opening" => channel = <<>>

Delivery ==
  /\ UpToCursor /\ SeenBefore /\ NoGap /\ ServerAhead /\ ChannelAhead /\ ChannelSorted
  /\ ListSorted /\ ListAhead /\ ListWhole /\ ReadsWhenEmpty

LinkInv == LinkType /\ Connection /\ Persisted /\ (OneWriter => Delivery)

StreamInv == StoreInv /\ LinkInv

LEMMA Fields ==
  ASSUME LinkType
  PROVE  /\ server.state \in {"closed", "opening", "live"} /\ server.cursor \in Event \cup {Nobody}
         /\ server.list \in Seq(Event) /\ server.reading \in BOOLEAN
         /\ client.state \in {"apart", "connected", "ended"} /\ client.cursor \in Event \cup {Nobody}
         /\ client.seen \in SUBSET Event /\ client.shown \in SUBSET Event
         /\ client.last \in Event \cup {Nobody} /\ client.attempt \in Nat
         /\ Len(channel) \in Nat /\ Len(server.list) \in Nat
         /\ \A i \in 1 .. Len(channel) : channel[i] \in Event \cup {ErrorFrame}
         /\ \A i \in 1 .. Len(server.list) : server.list[i] \in Event
<1>1. /\ server.state \in {"closed", "opening", "live"} /\ server.cursor \in Event \cup {Nobody}
      /\ server.list \in Seq(Event) /\ server.reading \in BOOLEAN
  BY DEF LinkType, Server
<1>2. /\ client.state \in {"apart", "connected", "ended"} /\ client.cursor \in Event \cup {Nobody}
      /\ client.seen \in SUBSET Event /\ client.shown \in SUBSET Event
      /\ client.last \in Event \cup {Nobody} /\ client.attempt \in Nat
  BY DEF LinkType, Client
<1>3. /\ Len(channel) \in Nat /\ \A i \in 1 .. Len(channel) : channel[i] \in Event \cup {ErrorFrame}
  BY ElementOfSeq, LenProperties DEF LinkType
<1>4. /\ Len(server.list) \in Nat /\ \A i \in 1 .. Len(server.list) : server.list[i] \in Event
  BY <1>1, ElementOfSeq, LenProperties
<1> QED BY <1>1, <1>2, <1>3, <1>4

\* A broadcast, after the event is stored.
LEMMA PublishKeeps ==
  ASSUME LinkInv, NEW e \in Event, publish(e), Stored \subseteq Stored', e \in Stored',
         UNCHANGED client, breaks' \in 0 .. MaxBreaks, repeats' \in 0 .. MaxRepeats
  PROVE  /\ LinkType' /\ Connection' /\ Persisted'
         /\ origin[e] # "api" => server' = server /\ channel' = channel
<1>1. CASE server' = server /\ channel' = channel
  BY <1>1 DEF LinkInv, LinkType, Connection, Persisted
<1>2. CASE /\ origin[e] = "api" /\ server.state = "live"
           /\ server' = [server EXCEPT !.cursor = e] /\ channel' = Append(channel, e)
  <2>1. /\ server' \in Server /\ server'.state = server.state /\ server'.cursor = e
        /\ server'.list = server.list /\ server'.reading = server.reading
    BY <1>2 DEF LinkInv, LinkType, Server
  <2>2. channel \in Seq(Event \cup {ErrorFrame}) /\ e \in Event \cup {ErrorFrame} /\ Len(channel) \in Nat
    BY LenProperties DEF LinkInv, LinkType
  <2>3. /\ channel' \in Seq(Event \cup {ErrorFrame}) /\ Len(channel') = Len(channel) + 1
        /\ \A i \in 1 .. Len(channel) : channel'[i] = channel[i]
        /\ channel'[Len(channel) + 1] = e
    BY <1>2, <2>2, AppendProperties
  <2>4. \A i \in 1 .. Len(channel') : i \in 1 .. Len(channel) \/ i = Len(channel) + 1
    BY <2>2, <2>3
  <2>5. LinkType' /\ Connection'
    BY <1>2, <2>1, <2>3 DEF LinkInv, LinkType, Connection
  <2>6. \A i \in 1 .. Len(channel') : channel'[i] # ErrorFrame => channel'[i] \in Stored'
    BY <2>3, <2>4 DEF LinkInv, Persisted
  <2> QED BY <1>2, <2>1, <2>5, <2>6 DEF LinkInv, Persisted
<1> QED BY <1>1, <1>2 DEF publish

\* With one writer that is not the API process nothing is broadcast.
LEMMA OneWriterSilent ==
  ASSUME OneWriter, NEW e \in Event
  PROVE  origin[e] # "api"
BY DEF OneWriter

LEMMA InsertStep ==
  ASSUME StreamInv, NEW e \in Event, insertEvent(e)
  PROVE  StreamInv'
<1>1. /\ chosen[e] # 0 /\ seq[e] = 0 /\ seq' = [seq EXCEPT ![e] = chosen[e]] /\ UNCHANGED <<origin, chosen>>
      /\ publish(e) /\ client' = client /\ breaks' = breaks /\ repeats' = repeats
  BY DEF insertEvent
<1>2. /\ StoreInv' /\ Stored' = Stored \cup {e} /\ e \notin Stored
      /\ \A x, y \in Stored : Bef(seq', x, y) <=> Bef(seq, x, y)
      /\ OneWriter => \A x \in Stored : Bef(seq', x, e) /\ ~Bef(seq', e, x)
  BY <1>1, OrderGrows DEF StreamInv
<1>3. /\ LinkType' /\ Connection' /\ Persisted'
      /\ origin[e] # "api" => server' = server /\ channel' = channel
  BY <1>1, <1>2, PublishKeeps DEF StreamInv, LinkInv, LinkType
<1>4. OneWriter' <=> OneWriter
  BY <1>1 DEF OneWriter
<1>5. ASSUME OneWriter
      PROVE  Delivery'
  <2>1. server' = server /\ channel' = channel
    BY <1>3, <1>5, OneWriterSilent
  <2>2. Delivery /\ Persisted /\ LinkType
    BY <1>5 DEF StreamInv, LinkInv
  <2>3. \A c, x : c \in Stored \cup {Nobody} /\ x \in Stored => (AtMost(seq', c, x) <=> AtMost(seq, c, x))
    BY <1>2 DEF AtMost
  <2>4. \A c \in Stored \cup {Nobody} : ~AtMost(seq', c, e)
    BY <1>2, <1>5 DEF AtMost
  <2>5. \A x \in Stored : ~Bef(seq', e, x)
    BY <1>2, <1>5
  <2>6. client.cursor \in Stored \cup {Nobody} /\ server.cursor \in Stored \cup {Nobody}
    BY <2>2 DEF Persisted
  <2>7. UpToCursor'
    BY <1>1, <1>2, <2>2, <2>3, <2>4, <2>6 DEF Delivery, UpToCursor
  <2>8. SeenBefore'
    BY <1>1, <2>2, <2>3, <2>6 DEF Delivery, SeenBefore, Persisted
  <2>9. NoGap'
    BY <1>1, <1>2, <2>1, <2>2, <2>3, <2>4, <2>6 DEF Delivery, NoGap
  <2>10. ServerAhead'
    BY <1>1, <2>1, <2>2, <2>3, <2>6 DEF Delivery, ServerAhead
  <2>11. ChannelAhead'
    BY <1>1, <2>1, <2>2, <2>3, <2>6 DEF Delivery, ChannelAhead, Persisted
  <2>12. ChannelSorted'
    BY <1>2, <2>1, <2>2 DEF Delivery, ChannelSorted, Persisted
  <2>13. ListSorted' /\ ListAhead'
    BY <1>2, <2>1, <2>2, <2>3, <2>6 DEF Delivery, ListSorted, ListAhead, Persisted
  <2>14. ListWhole'
    BY <1>2, <2>1, <2>2, <2>3, <2>5, <2>6 DEF Delivery, ListWhole, Persisted
  <2>15. ReadsWhenEmpty'
    BY <2>1, <2>2 DEF Delivery, ReadsWhenEmpty
  <2> QED BY <2>7, <2>8, <2>9, <2>10, <2>11, <2>12, <2>13, <2>14, <2>15 DEF Delivery
<1> QED BY <1>2, <1>3, <1>4, <1>5 DEF StreamInv, LinkInv

LEMMA AgainStep ==
  ASSUME StreamInv, NEW e \in Event, appendAgain(e)
  PROVE  StreamInv'
<1>1. /\ e \in Stored /\ origin[e] = "api" /\ publish(e) /\ repeats < MaxRepeats /\ repeats' = repeats + 1
      /\ UNCHANGED store /\ client' = client /\ breaks' = breaks
  BY DEF appendAgain
<1>2. StoreInv' /\ Stored' = Stored /\ (OneWriter' <=> OneWriter)
  BY <1>1, StoreKept DEF StreamInv
<1>3. repeats' \in 0 .. MaxRepeats
  BY <1>1, ConstantsAssumption DEF StreamInv, LinkInv, LinkType
<1>4. LinkType' /\ Connection' /\ Persisted'
  BY <1>1, <1>2, <1>3, PublishKeeps DEF StreamInv, LinkInv, LinkType
<1>5. ~OneWriter
  BY <1>1, OneWriterSilent
<1> QED BY <1>2, <1>4, <1>5 DEF StreamInv, LinkInv

\* The fields of a closed stream.
LEMMA ClosedFields ==
  /\ Closed \in Server /\ Closed.state = "closed" /\ Closed.cursor = Nobody
  /\ Closed.reading = FALSE /\ Closed.list = <<>>
<1>1. PICK no \in BOOLEAN : no = FALSE
  OBVIOUS
<1>2. Closed = [state |-> "closed", cursor |-> Nobody, reading |-> no, list |-> <<>>]
  BY <1>1, Zenon DEF Closed
<1>3. <<>> \in Seq(Event)
  OBVIOUS
<1>4. /\ Closed \in Server /\ Closed.state = "closed" /\ Closed.cursor = Nobody
      /\ Closed.reading = no /\ Closed.list = <<>>
  BY <1>2, <1>3 DEF Server
<1> QED BY <1>1, <1>4, Zenon

LEMMA OpenStep ==
  ASSUME StreamInv, openStream
  PROVE  StreamInv'
<1>1. /\ client.state = "apart" /\ server' = [Closed EXCEPT !.state = "opening", !.cursor = client.cursor]
      /\ client' = [client EXCEPT !.state = "connected", !.attempt = 0]
      /\ UNCHANGED store /\ channel' = channel /\ breaks' = breaks /\ repeats' = repeats
  BY DEF openStream
<1>2. StoreInv' /\ Stored' = Stored /\ (OneWriter' <=> OneWriter) /\ seq' = seq
  BY <1>1, StoreKept DEF StreamInv
<1>3. LinkType /\ Connection /\ Persisted
  BY DEF StreamInv, LinkInv
<1>4. channel = <<>> /\ Len(channel) = 0
  BY <1>1, <1>3 DEF Connection
<1>5. /\ server' \in Server /\ server'.state = "opening" /\ server'.cursor = client.cursor /\ server'.list = <<>>
  BY <1>1, <1>3, Fields, ClosedFields DEF Server
<1>6. /\ client' \in Client /\ client'.state = "connected" /\ client'.cursor = client.cursor
      /\ client'.seen = client.seen /\ client'.shown = client.shown
  BY <1>1, <1>3 DEF LinkType, Client
<1>7. LinkType' /\ Connection' /\ Persisted'
  BY <1>1, <1>2, <1>3, <1>4, <1>5, <1>6 DEF LinkType, Connection, Persisted
<1>8. ASSUME OneWriter
      PROVE  Delivery'
  <2>1. Delivery
    BY <1>8 DEF StreamInv, LinkInv
  <2>2. UpToCursor' /\ SeenBefore'
    BY <1>2, <1>6, <2>1 DEF Delivery, UpToCursor, SeenBefore
  <2>3. NoGap'
    BY <1>5, <1>6 DEF NoGap
  <2>4. ServerAhead'
    BY <1>5, <1>6 DEF ServerAhead, AtMost
  <2>5. /\ ChannelAhead' /\ ChannelSorted' /\ ReadsWhenEmpty'
    BY <1>1, <1>4 DEF ChannelAhead, ChannelSorted, ReadsWhenEmpty
  <2>6. Len(server'.list) = 0
    BY <1>5
  <2>7. ListSorted' /\ ListAhead' /\ ListWhole'
    BY <2>6 DEF ListSorted, ListAhead, ListWhole
  <2> QED BY <2>2, <2>3, <2>4, <2>5, <2>7 DEF Delivery
<1> QED BY <1>2, <1>7, <1>8 DEF StreamInv, LinkInv

\* What a replay holds: the first events after the cursor, in order.
LEMMA ReplayList ==
  ASSUME StoreInv, NEW c, c = Nobody \/ c \in Stored
  PROVE  LET list == limitEnvelopes(eventsAfter(c), ReplayLimit + 1)
         IN  /\ list \in Seq(Event) /\ Len(list) \in Nat
             /\ \A i \in 1 .. Len(list) : list[i] \in Stored /\ ~AtMost(seq, c, list[i])
             /\ \A i, j \in 1 .. Len(list) : i < j => Bef(seq, list[i], list[j])
             /\ \A e \in Stored : \A i \in 1 .. Len(list) :
                  Bef(seq, e, list[i]) /\ ~AtMost(seq, c, e) => \E j \in 1 .. Len(list) : list[j] = e
<1> DEFINE S == StoredAfter(c)
           all == inOrder(S)
           n == Min({Len(all), ReplayLimit + 1})
           list == limitEnvelopes(eventsAfter(c), ReplayLimit + 1)
<1>1. SeqType /\ Stored \in SUBSET Event
  BY StoreTyped
<1>2. S \in SUBSET Event /\ \A e : e \in S <=> e \in Stored /\ ~AtMost(seq, c, e)
  <2>1. Nobody \notin Stored
    BY <1>1, EventFacts
  <2>2. \A e : e \in S <=> e \in Stored /\ (c \in Stored => Before(c, e))
    BY DEF StoredAfter
  <2>3. \A e \in Stored : c \in Stored => (Before(c, e) <=> ~AtMost(seq, c, e))
    <3>1. \A e \in Stored : c \in Stored => (Bef(seq, c, e) <=> ~AtMost(seq, c, e))
      BY <1>1, OrderFacts DEF SeqType
    <3> QED BY <3>1 DEF Before, Bef
  <2>4. c \notin Stored => \A e : ~AtMost(seq, c, e)
    BY DEF AtMost
  <2> QED BY <1>1, <2>2, <2>3, <2>4
<1> HIDE DEF S
<1>3. /\ all \in Seq(S) /\ Len(all) \in Nat
      /\ \A x \in S : \E i \in 1 .. Len(all) : all[i] = x
      /\ \A i, j \in 1 .. Len(all) : i < j => Bef(seq, all[i], all[j])
  BY <1>1, <1>2, InOrderList
<1>4. ReplayLimit + 1 \in Nat
  BY ConstantsAssumption
<1>5. n \in Nat /\ n <= Len(all)
  <2>1. \A a, b \in Nat : Min({a, b}) \in {a, b} /\ Min({a, b}) <= a
    <3> TAKE a, b \in Nat
    <3>1. \E x \in {a, b} : \A y \in {a, b} : x <= y
      BY a <= b \/ b <= a
    <3>2. Min({a, b}) \in {a, b} /\ \A y \in {a, b} : Min({a, b}) <= y
      BY <3>1 DEF Min
    <3> QED BY <3>2
  <2> QED BY <2>1, <1>3, <1>4
<1>6. list = SubSeq(all, 1, n)
  BY DEF limitEnvelopes, eventsAfter, S
<1> HIDE DEF all, n
<1>7. /\ list \in Seq(S) /\ Len(list) = n /\ \A i \in 1 .. n : list[i] = all[i]
  <2>1. SubSeq(all, 1, n) \in Seq(S) /\ Len(SubSeq(all, 1, n)) = n /\ \A i \in 1 .. n : SubSeq(all, 1, n)[i] = all[i]
    BY <1>3, <1>5, SubSeqProperties
  <2> QED BY <1>6, <2>1
<1> HIDE DEF list
<1>8. list \in Seq(Event)
  BY <1>2, <1>7, SeqMonotonic
<1>9. \A i \in 1 .. Len(all) : all[i] \in S
  BY <1>3, ElementOfSeq
<1>10. 1 .. n \subseteq 1 .. Len(all)
  BY <1>3, <1>5
<1>11. \A i \in 1 .. n : list[i] \in Stored /\ ~AtMost(seq, c, list[i])
  BY <1>2, <1>7, <1>9, <1>10
<1>12. \A i, j \in 1 .. n : i < j => Bef(seq, list[i], list[j])
  BY <1>3, <1>7, <1>10
<1>13. ASSUME NEW e \in Stored, NEW i \in 1 .. n, Bef(seq, e, list[i]), ~AtMost(seq, c, e)
       PROVE  \E j \in 1 .. n : list[j] = e
  <2>1. PICK k \in 1 .. Len(all) : all[k] = e
    BY <1>2, <1>3, <1>13
  <2>2. i \in 1 .. Len(all) /\ list[i] = all[i] /\ all[i] \in Event /\ e \in Event
    BY <1>1, <1>2, <1>7, <1>9, <1>10, <1>13
  <2>3. ~(i < k)
    <3>1. i < k => Bef(seq, all[i], e)
      BY <1>3, <2>1, <2>2
    <3> QED BY <3>1, <2>2, <1>1, <1>13, OrderFacts DEF SeqType
  <2>4. k \in 1 .. n
    BY <2>1, <2>3, <1>3, <1>5, <1>13
  <2> QED BY <2>1, <2>4, <1>7
<1> QED BY <1>5, <1>7, <1>8, <1>11, <1>12, <1>13 DEF list

LEMMA ReadStep ==
  ASSUME StreamInv, readReplay
  PROVE  StreamInv'
<1>1. /\ server.state # "closed" /\ (server.state = "live" => channel = <<>>)
      /\ server' = [server EXCEPT !.reading = TRUE,
                                  !.list = limitEnvelopes(eventsAfter(server.cursor), ReplayLimit + 1)]
      /\ UNCHANGED store /\ channel' = channel /\ client' = client /\ breaks' = breaks /\ repeats' = repeats
  BY DEF readReplay
<1>2. StoreInv' /\ Stored' = Stored /\ (OneWriter' <=> OneWriter) /\ seq' = seq
  BY <1>1, StoreKept DEF StreamInv
<1>3. StoreInv /\ LinkType /\ Connection /\ Persisted
  BY DEF StreamInv, LinkInv
<1>4. PICK list \in Seq(Event) :
         /\ list = limitEnvelopes(eventsAfter(server.cursor), ReplayLimit + 1)
         /\ \A i \in 1 .. Len(list) : list[i] \in Stored /\ ~AtMost(seq, server.cursor, list[i])
         /\ \A i, j \in 1 .. Len(list) : i < j => Bef(seq, list[i], list[j])
         /\ \A e \in Stored : \A i \in 1 .. Len(list) :
              Bef(seq, e, list[i]) /\ ~AtMost(seq, server.cursor, e) => \E j \in 1 .. Len(list) : list[j] = e
  <2>1. server.cursor = Nobody \/ server.cursor \in Stored
    BY <1>3 DEF Persisted
  <2> QED BY <1>3, <2>1, ReplayList
<1>5. PICK yes \in BOOLEAN : yes = TRUE
  OBVIOUS
<1>6. server' = [server EXCEPT !.reading = yes, !.list = list]
  BY <1>1, <1>4, <1>5, Zenon
<1>7. server' \in Server /\ server'.state = server.state /\ server'.cursor = server.cursor /\ server'.list = list
  BY <1>3, <1>6 DEF LinkType, Server
<1>8. LinkType' /\ Connection' /\ Persisted'
  BY <1>1, <1>2, <1>3, <1>4, <1>7 DEF LinkType, Connection, Persisted
<1>9. ASSUME OneWriter
      PROVE  Delivery'
  <2>1. Delivery
    BY <1>9 DEF StreamInv, LinkInv
  <2>2. channel = <<>>
    BY <1>1, <1>3, <2>1, Fields DEF Delivery, ReadsWhenEmpty
  <2>3. UpToCursor' /\ SeenBefore' /\ NoGap' /\ ServerAhead' /\ ChannelAhead' /\ ChannelSorted'
    BY <1>1, <1>2, <1>7, <2>1 DEF Delivery, UpToCursor, SeenBefore, NoGap, ServerAhead, ChannelAhead, ChannelSorted
  <2>4. ListSorted' /\ ListAhead' /\ ListWhole'
    BY <1>2, <1>4, <1>7 DEF ListSorted, ListAhead, ListWhole
  <2>5. ReadsWhenEmpty'
    BY <1>1, <2>2 DEF ReadsWhenEmpty
  <2> QED BY <2>3, <2>4, <2>5 DEF Delivery
<1> QED BY <1>2, <1>8, <1>9 DEF StreamInv, LinkInv

LEMMA SendStep ==
  ASSUME StreamInv, sendReplay
  PROVE  StreamInv'
<1> DEFINE list == server.list
<1>1. StoreInv /\ LinkType /\ Connection /\ Persisted /\ SeqType /\ Stored \in SUBSET Event
  BY StoreTyped DEF StreamInv, LinkInv
<1>2. /\ list \in Seq(Event) /\ Len(list) \in Nat /\ Len(channel) \in Nat
      /\ \A i \in 1 .. Len(list) : list[i] \in Event /\ list[i] \in Stored
      /\ server.cursor \in Event \cup {Nobody} /\ client.cursor \in Event \cup {Nobody}
      /\ channel \in Seq(Event \cup {ErrorFrame})
  BY <1>1, Fields DEF Persisted, LinkType
<1>3. /\ server.reading /\ UNCHANGED store /\ client' = client /\ breaks' = breaks /\ repeats' = repeats
  BY DEF sendReplay
<1>4. StoreInv' /\ Stored' = Stored /\ (OneWriter' <=> OneWriter) /\ seq' = seq
  BY <1>1, <1>3, StoreKept
<1>5. PICK no \in BOOLEAN : no = FALSE
  OBVIOUS
<1>6. \/ /\ channel' = channel \o <<ErrorFrame>>
         /\ server' = [state |-> "live", reading |-> no, list |-> <<>>, cursor |-> server.cursor]
      \/ /\ list = <<>> /\ channel' = channel \o list
         /\ server' = [state |-> "live", reading |-> no, list |-> <<>>, cursor |-> server.cursor]
      \/ /\ list # <<>> /\ channel' = channel \o list
         /\ server' = [state |-> "live", reading |-> no, list |-> <<>>, cursor |-> Last(list)]
  BY <1>5, Zenon DEF sendReplay
<1> HIDE DEF list
<1>7. PICK added \in Seq(Event \cup {ErrorFrame}), cursor \in Event \cup {Nobody} :
         /\ channel' = channel \o added
         /\ server' = [state |-> "live", reading |-> no, list |-> <<>>, cursor |-> cursor]
         /\ \/ added = <<ErrorFrame>> /\ cursor = server.cursor
            \/ list = <<>> /\ added = <<>> /\ cursor = server.cursor
            \/ list # <<>> /\ added = list /\ cursor = list[Len(list)]
  <2>1. <<ErrorFrame>> \in Seq(Event \cup {ErrorFrame}) /\ <<>> \in Seq(Event \cup {ErrorFrame})
    OBVIOUS
  <2>2. list \in Seq(Event \cup {ErrorFrame})
    BY <1>2, SeqMonotonic
  <2>3. list # <<>> => Last(list) = list[Len(list)] /\ list[Len(list)] \in Event
    <3>1. list # <<>> => Len(list) \in 1 .. Len(list)
      BY <1>2, EmptySeq
    <3> QED BY <3>1, <1>2 DEF Last
  <2> QED BY <1>2, <1>6, <2>1, <2>2, <2>3
<1>8. \A i \in 1 .. Len(added) : added[i] # ErrorFrame => added[i] \in Stored
  <2>1. CASE added = <<ErrorFrame>>
    BY <2>1
  <2>2. CASE added = <<>>
    BY <2>2
  <2>3. CASE added = list
    BY <2>3, <1>2
  <2> QED BY <1>7, <2>1, <2>2, <2>3
<1>9. cursor # Nobody => cursor \in Stored
  <2>1. list # <<>> => Len(list) \in 1 .. Len(list)
    BY <1>2, EmptySeq
  <2> QED BY <1>1, <1>2, <1>7, <2>1 DEF Persisted
<1>10. /\ channel' \in Seq(Event \cup {ErrorFrame}) /\ Len(channel') = Len(channel) + Len(added) /\ Len(added) \in Nat
       /\ \A i \in 1 .. Len(channel) + Len(added) :
             channel'[i] = IF i <= Len(channel) THEN channel[i] ELSE added[i - Len(channel)]
  BY <1>2, <1>7, ConcatProperties, LenProperties
<1>11. /\ server' \in Server /\ server'.state = "live" /\ server'.cursor = cursor /\ server'.list = <<>>
       /\ server'.reading = no
  <2>1. <<>> \in Seq(Event)
    OBVIOUS
  <2> QED BY <1>7, <2>1 DEF Server
<1>12. \A i \in 1 .. Len(channel') : channel'[i] # ErrorFrame => channel'[i] \in Stored
  <2> SUFFICES ASSUME NEW i \in 1 .. Len(channel'), channel'[i] # ErrorFrame
               PROVE  channel'[i] \in Stored
    OBVIOUS
  <2>1. CASE i <= Len(channel)
    <3>1. i \in 1 .. Len(channel) /\ channel'[i] = channel[i]
      BY <2>1, <1>2, <1>10
    <3> QED BY <3>1, <1>1 DEF Persisted
  <2>2. CASE ~(i <= Len(channel))
    <3>1. i - Len(channel) \in 1 .. Len(added) /\ channel'[i] = added[i - Len(channel)]
      BY <2>2, <1>2, <1>10
    <3> QED BY <3>1, <1>8
  <2> QED BY <2>1, <2>2
<1>13. LinkType' /\ Connection' /\ Persisted'
  <2>1. Len(server'.list) = 0
    BY <1>11
  <2>3. LinkType'
    BY <1>1, <1>3, <1>10, <1>11 DEF LinkType
  <2>4. Persisted'
    BY <1>1, <1>3, <1>4, <1>9, <1>11, <1>12, <2>1 DEF Persisted
  <2>5. Connection'
    BY <1>1, <1>3, <1>11 DEF Connection
  <2> QED BY <2>3, <2>4, <2>5
<1>14. ASSUME OneWriter
       PROVE  Delivery'
  <2>1. Delivery /\ server.state # "closed"
    BY <1>1, <1>3, <1>14 DEF StreamInv, LinkInv, Connection
  <2>2. channel = <<>> /\ Len(channel) = 0
    BY <1>3, <2>1 DEF Delivery, ReadsWhenEmpty
  <2>3. Len(channel') = Len(added) /\ \A i \in 1 .. Len(added) : channel'[i] = added[i]
    BY <1>10, <2>2
  <2>4. UpToCursor' /\ SeenBefore'
    BY <1>3, <1>4, <2>1 DEF Delivery, UpToCursor, SeenBefore
  <2>5. \A e \in Stored : AtMost(seq, server.cursor, e) => AtMost(seq, client.cursor, e)
    BY <2>1, <2>2 DEF Delivery, NoGap
  <2>6. ListSorted' /\ ListAhead' /\ ListWhole'
    <3>1. Len(server'.list) = 0
      BY <1>11
    <3> QED BY <3>1 DEF ListSorted, ListAhead, ListWhole
  <2>7. ReadsWhenEmpty'
    <3>1. ~server'.reading
      BY <1>5, <1>11, Zenon
    <3> QED BY <3>1, <1>11 DEF ReadsWhenEmpty
  <2>8. CASE (added = <<ErrorFrame>> \/ added = <<>>) /\ cursor = server.cursor
    <3>1. \A i \in 1 .. Len(added) : added[i] = ErrorFrame
      <4>1. CASE added = <<ErrorFrame>>
        BY <4>1
      <4>2. CASE added = <<>>
        BY <4>2
      <4> QED BY <2>8, <4>1, <4>2
    <3>2. cursor = server.cursor
      BY <2>8
    <3>3. NoGap' /\ ServerAhead'
      BY <1>3, <1>4, <1>11, <2>1, <2>5, <3>2 DEF Delivery, NoGap, ServerAhead
    <3>4. ChannelAhead' /\ ChannelSorted'
      BY <2>3, <3>1 DEF ChannelAhead, ChannelSorted
    <3> QED BY <2>4, <2>6, <2>7, <3>3, <3>4 DEF Delivery
  <2>9. CASE list # <<>> /\ added = list /\ cursor = list[Len(list)]
    <3>1. /\ \A i \in 1 .. Len(list) : ~AtMost(seq, server.cursor, list[i])
          /\ \A i, j \in 1 .. Len(list) : i < j => Bef(seq, list[i], list[j])
          /\ \A e \in Stored : \A i \in 1 .. Len(list) :
                Bef(seq, e, list[i]) /\ ~AtMost(seq, server.cursor, e) => \E j \in 1 .. Len(list) : list[j] = e
      BY <2>1 DEF Delivery, ListSorted, ListAhead, ListWhole, list
    <3>2. Len(list) \in 1 .. Len(list) /\ cursor \in Event /\ cursor # Nobody
      BY <1>2, <2>9, EmptySeq, EventFacts
    <3>3. /\ \A e \in Stored : e = cursor \/ Bef(seq, e, cursor) \/ ~AtMost(seq, cursor, e)
      BY DEF AtMost
    <3>4. NoGap'
      <4> SUFFICES ASSUME NEW e \in Stored, AtMost(seq, cursor, e)
                   PROVE  AtMost(seq, client.cursor, e) \/ \E i \in 1 .. Len(list) : list[i] = e
        BY <1>3, <1>4, <1>11, <2>3, <2>9 DEF NoGap
      <4>1. CASE e = cursor
        BY <4>1, <3>2, <2>9
      <4>2. CASE Bef(seq, e, cursor)
        BY <4>2, <2>5, <2>9, <3>1, <3>2
      <4> QED BY <3>3, <4>1, <4>2
    <3>5. \A x \in Event : AtMost(seq, server.cursor, x) => AtMost(seq, cursor, x)
      <4> TAKE x \in Event
      <4>1. ~AtMost(seq, server.cursor, cursor)
        BY <2>9, <3>1, <3>2
      <4>2. AtMost(seq, server.cursor, x) => Bef(seq, x, cursor)
        BY <4>1, <1>1, <1>2, <3>2, OrderFacts DEF SeqType
      <4> QED BY <4>2, <3>2 DEF AtMost
    <3>6. ServerAhead'
      <4>1. client.cursor # Nobody => client.cursor \in Event /\ AtMost(seq, server.cursor, client.cursor)
        BY <1>2, <2>1 DEF Delivery, ServerAhead
      <4> QED BY <1>3, <1>4, <1>11, <3>5, <4>1 DEF ServerAhead
    <3>7. ChannelSorted'
      BY <1>4, <2>3, <2>9, <3>1 DEF ChannelSorted
    <3>8. \A i \in 1 .. Len(list) : AtMost(seq, cursor, list[i])
      <4> TAKE i \in 1 .. Len(list)
      <4>1. i < Len(list) \/ i = Len(list)
        BY <1>2
      <4> QED BY <4>1, <3>1, <3>2, <2>9 DEF AtMost
    <3>9. \A i \in 1 .. Len(list) : ~AtMost(seq, client.cursor, list[i])
      <4> TAKE i \in 1 .. Len(list)
      <4>1. CASE client.cursor = Nobody
        BY <4>1 DEF AtMost
      <4>2. CASE client.cursor # Nobody
        <5>1. client.cursor \in Event /\ AtMost(seq, server.cursor, client.cursor) /\ list[i] \in Event
          BY <4>2, <1>2, <2>1 DEF Delivery, ServerAhead
        <5>2. AtMost(seq, client.cursor, list[i]) => AtMost(seq, server.cursor, list[i])
          BY <5>1, <1>1, <1>2, OrderFacts DEF SeqType
        <5> QED BY <5>2, <3>1
      <4> QED BY <4>1, <4>2
    <3>10. ChannelAhead'
      BY <1>3, <1>4, <1>11, <2>3, <2>9, <3>8, <3>9 DEF ChannelAhead
    <3> QED BY <2>4, <2>6, <2>7, <3>4, <3>6, <3>7, <3>10 DEF Delivery
  <2> QED BY <1>7, <2>8, <2>9
<1> QED BY <1>4, <1>13, <1>14 DEF StreamInv, LinkInv

LEMMA ReceiveStep ==
  ASSUME StreamInv, receive
  PROVE  StreamInv'
<1> DEFINE e == Head(channel)
<1>1. StoreInv /\ LinkType /\ Connection /\ Persisted /\ SeqType /\ Stored \in SUBSET Event
  BY StoreTyped DEF StreamInv, LinkInv
<1>2. /\ channel # <<>> /\ channel' = Tail(channel) /\ UNCHANGED store
      /\ server' = server /\ breaks' = breaks /\ repeats' = repeats
  BY DEF receive
<1>3. StoreInv' /\ Stored' = Stored /\ (OneWriter' <=> OneWriter) /\ seq' = seq
  BY <1>1, <1>2, StoreKept
<1>4. /\ channel \in Seq(Event \cup {ErrorFrame}) /\ Len(channel) \in Nat /\ Len(channel) > 0
      /\ e \in Event \cup {ErrorFrame} /\ e = channel[1] /\ 1 \in 1 .. Len(channel)
      /\ channel' \in Seq(Event \cup {ErrorFrame}) /\ Len(channel') = Len(channel) - 1
      /\ \A i \in 1 .. Len(channel') : channel'[i] = channel[i + 1]
  <2>1. channel \in Seq(Event \cup {ErrorFrame}) /\ Len(channel) \in Nat /\ Len(channel) > 0
    BY <1>1, <1>2, LenProperties, EmptySeq DEF LinkType
  <2> QED BY <1>2, <2>1, HeadTailProperties, ElementOfSeq
<1>5. \A i \in 1 .. Len(channel') : i + 1 \in 1 .. Len(channel) /\ 1 < i + 1 /\ channel'[i] = channel[i + 1]
  BY <1>4
<1>6. server.state # "closed"
  BY <1>1, <1>2 DEF Connection
<1>7. e # ErrorFrame => e \in Event /\ e \in Stored /\ e # Nobody
  BY <1>1, <1>4, EventFacts DEF Persisted
<1>8. \/ (e = ErrorFrame \/ e \in client.seen) /\ client' = client
      \/ /\ e # ErrorFrame /\ e \notin client.seen
         /\ client' = print([client EXCEPT !.seen = @ \cup {e}, !.cursor = e], e)
  BY DEF receive
<1> HIDE DEF e
<1>9. \/ (e = ErrorFrame \/ e \in client.seen) /\ client' = client
      \/ /\ e # ErrorFrame /\ e \notin client.seen
         /\ client' \in Client /\ client'.state = client.state /\ client'.cursor = e
         /\ client'.seen = client.seen \cup {e} /\ client'.shown = client.shown \cup {e}
  <2> SUFFICES ASSUME e # ErrorFrame, client' = print([client EXCEPT !.seen = @ \cup {e}, !.cursor = e], e)
               PROVE  /\ client' \in Client /\ client'.state = client.state /\ client'.cursor = e
                      /\ client'.seen = client.seen \cup {e} /\ client'.shown = client.shown \cup {e}
    BY <1>8
  <2>1. client \in Client /\ e \in Event
    BY <1>1, <1>7 DEF LinkType
  <2>2. PICK c \in Client : c = [client EXCEPT !.seen = @ \cup {e}, !.cursor = e]
    BY <2>1 DEF Client
  <2>3. c.seen = client.seen \cup {e} /\ c.cursor = e /\ c.shown = client.shown /\ c.state = client.state
    BY <2>1, <2>2 DEF Client
  <2>4. client' = IF e \in c.shown THEN c ELSE [c EXCEPT !.shown = @ \cup {e}, !.last = e]
    BY <2>2 DEF print
  <2>5. CASE e \in c.shown
    BY <2>3, <2>4, <2>5
  <2>6. CASE e \notin c.shown
    <3>1. PICK shown \in SUBSET Event : shown = c.shown \cup {e}
      BY <2>1 DEF Client
    <3>2. client' = [c EXCEPT !.shown = shown, !.last = e]
      BY <2>4, <2>6, <3>1
    <3>3. /\ client' \in Client /\ client'.state = c.state /\ client'.cursor = c.cursor
          /\ client'.seen = c.seen /\ client'.shown = shown
      BY <2>1, <3>2 DEF Client
    <3> QED BY <2>3, <3>1, <3>3
  <2> QED BY <2>5, <2>6
<1>10. LinkType' /\ Connection'
  BY <1>1, <1>2, <1>4, <1>6, <1>9 DEF LinkType, Connection
<1>11. Persisted'
  <2>1. \A i \in 1 .. Len(channel') : channel'[i] # ErrorFrame => channel'[i] \in Stored
    BY <1>1, <1>5 DEF Persisted
  <2> QED BY <1>1, <1>2, <1>3, <1>7, <1>9, <2>1 DEF Persisted
<1>12. ASSUME OneWriter
       PROVE  Delivery'
  <2>1. Delivery
    BY <1>12 DEF StreamInv, LinkInv
  <2>2. ListSorted' /\ ListAhead' /\ ListWhole'
    BY <1>2, <1>3, <2>1 DEF Delivery, ListSorted, ListAhead, ListWhole
  <2>3. ReadsWhenEmpty'
    BY <1>2, <2>1 DEF Delivery, ReadsWhenEmpty
  <2>4. ChannelSorted'
    <3> SUFFICES ASSUME NEW i \in 1 .. Len(channel'), NEW j \in 1 .. Len(channel'), i < j,
                        channel'[i] # ErrorFrame, channel'[j] # ErrorFrame
                 PROVE  Bef(seq, channel'[i], channel'[j])
      BY <1>3 DEF ChannelSorted
    <3>1. i + 1 < j + 1 /\ i + 1 \in 1 .. Len(channel) /\ j + 1 \in 1 .. Len(channel)
      BY <1>4, <1>5
    <3> QED BY <3>1, <1>5, <2>1 DEF Delivery, ChannelSorted
  <2>5. /\ \A i \in 1 .. Len(channel) : channel[i] # ErrorFrame =>
              AtMost(seq, server.cursor, channel[i]) /\ ~AtMost(seq, client.cursor, channel[i])
        /\ \A f \in Stored : AtMost(seq, server.cursor, f) =>
              AtMost(seq, client.cursor, f) \/ \E i \in 1 .. Len(channel) : channel[i] = f
    BY <1>6, <2>1 DEF Delivery, ChannelAhead, NoGap
  <2>6. \A i \in 1 .. Len(channel) : i = 1 \/ (i - 1 \in 1 .. Len(channel') /\ channel'[i - 1] = channel[i])
    <3> TAKE i \in 1 .. Len(channel)
    <3>1. i # 1 => i - 1 \in 1 .. Len(channel') /\ (i - 1) + 1 = i
      BY <1>4
    <3> QED BY <3>1, <1>5
  <2>7. \A f \in Stored : (\E i \in 1 .. Len(channel) : channel[i] = f) =>
           f = e \/ \E i \in 1 .. Len(channel') : channel'[i] = f
    BY <2>6, <1>4
  <2>8. e # ErrorFrame => e \notin client.seen
    BY <1>4, <2>1, <2>5 DEF Delivery, SeenBefore
  <2>9. CASE e = ErrorFrame /\ client' = client
    <3>1. UpToCursor' /\ SeenBefore' /\ ServerAhead'
      BY <1>2, <1>3, <2>1, <2>9 DEF Delivery, UpToCursor, SeenBefore, ServerAhead
    <3>2. \A f \in Stored : f # ErrorFrame
      BY <1>1, EventFacts
    <3>3. NoGap'
      BY <1>2, <1>3, <2>5, <2>7, <2>9, <3>2 DEF NoGap
    <3>4. ChannelAhead'
      BY <1>2, <1>3, <1>5, <2>5, <2>9 DEF ChannelAhead
    <3> QED BY <2>2, <2>3, <2>4, <3>1, <3>3, <3>4 DEF Delivery
  <2>10. CASE /\ e # ErrorFrame /\ client'.cursor = e
              /\ client'.seen = client.seen \cup {e} /\ client'.shown = client.shown \cup {e}
    <3>1. /\ e \in Event /\ e # Nobody /\ AtMost(seq, server.cursor, e) /\ ~AtMost(seq, client.cursor, e)
      BY <2>10, <1>4, <1>7, <2>5
    <3>2. server.cursor \in Event \cup {Nobody} /\ client.cursor \in Event \cup {Nobody}
      BY <1>1, Fields
    <3>3. \A f \in Event : AtMost(seq, client.cursor, f) => AtMost(seq, e, f)
      <4> TAKE f \in Event
      <4>1. AtMost(seq, client.cursor, f) => Bef(seq, f, e)
        BY <1>1, <3>1, <3>2, OrderFacts DEF SeqType
      <4> QED BY <4>1, <3>1 DEF AtMost
    <3>4. \A i \in 1 .. Len(channel') : channel'[i] # ErrorFrame => channel'[i] \in Event /\ Bef(seq, e, channel'[i])
      <4> SUFFICES ASSUME NEW i \in 1 .. Len(channel'), channel'[i] # ErrorFrame
                   PROVE  channel'[i] \in Event /\ Bef(seq, e, channel'[i])
        OBVIOUS
      <4>1. i + 1 \in 1 .. Len(channel) /\ 1 < i + 1 /\ channel'[i] = channel[i + 1]
        BY <1>5
      <4>2. Bef(seq, channel[1], channel[i + 1])
        BY <4>1, <1>4, <2>1, <2>10 DEF Delivery, ChannelSorted
      <4>3. channel[i + 1] \in Event
        BY <4>1, <1>1, Fields
      <4> QED BY <4>1, <4>2, <4>3, <1>4
    <3>5. UpToCursor'
      <4> SUFFICES ASSUME NEW f \in Stored, AtMost(seq, e, f)
                   PROVE  f \in client.shown \cup {e}
        BY <1>3, <2>10 DEF UpToCursor
      <4>1. CASE f = e
        BY <4>1
      <4>2. CASE f # e
        <5>1. f \in Event /\ Bef(seq, f, e)
          BY <4>2, <1>1 DEF AtMost
        <5>2. AtMost(seq, server.cursor, f)
          BY <5>1, <1>1, <3>1, <3>2, OrderFacts DEF SeqType
        <5>3. ~ \E i \in 1 .. Len(channel) : channel[i] = f
          <6>1. ~ \E i \in 1 .. Len(channel') : channel'[i] = f
            <7>1. f # ErrorFrame /\ ~Bef(seq, e, f)
              BY <5>1, <1>1, <3>1, EventFacts, OrderFacts DEF SeqType
            <7> QED BY <7>1, <3>4
          <6> QED BY <6>1, <2>7, <4>2
        <5>4. AtMost(seq, client.cursor, f)
          BY <5>2, <5>3, <2>5
        <5> QED BY <5>4, <2>1 DEF Delivery, UpToCursor
      <4> QED BY <4>1, <4>2
    <3>6. SeenBefore'
      <4>1. AtMost(seq, e, e) /\ client.seen \subseteq Event
        BY <1>1, <3>1 DEF AtMost, Persisted
      <4> QED BY <1>3, <2>1, <2>10, <3>3, <4>1 DEF Delivery, SeenBefore
    <3>7. NoGap'
      <4> SUFFICES ASSUME NEW f \in Stored, AtMost(seq, server.cursor, f)
                   PROVE  AtMost(seq, e, f) \/ \E i \in 1 .. Len(channel') : channel'[i] = f
        BY <1>2, <1>3, <2>10 DEF NoGap
      <4>1. AtMost(seq, e, e) /\ f \in Event
        BY <1>1, <3>1 DEF AtMost
      <4> QED BY <2>5, <2>7, <3>3, <4>1
    <3>8. ServerAhead'
      BY <1>2, <1>3, <2>10, <3>1 DEF ServerAhead
    <3>9. ChannelAhead'
      <4> SUFFICES ASSUME NEW i \in 1 .. Len(channel'), channel'[i] # ErrorFrame
                   PROVE  AtMost(seq, server.cursor, channel'[i]) /\ ~AtMost(seq, e, channel'[i])
        BY <1>2, <1>3, <2>10 DEF ChannelAhead
      <4>1. AtMost(seq, server.cursor, channel'[i])
        BY <1>5, <2>5
      <4>2. ~AtMost(seq, e, channel'[i])
        BY <3>1, <3>4, <1>1, OrderFacts DEF SeqType
      <4> QED BY <4>1, <4>2
    <3> QED BY <2>2, <2>3, <2>4, <3>5, <3>6, <3>7, <3>8, <3>9 DEF Delivery
  <2> QED BY <1>9, <2>8, <2>9, <2>10
<1> QED BY <1>3, <1>10, <1>11, <1>12 DEF StreamInv, LinkInv

\* What becomes of a client that counts a failure: only what it shows may grow, by
\* events that are stored.
LEMMA AfterFailure ==
  ASSUME StoreInv, NEW c \in Client, NEW d \in afterFailure(c), c.state = "apart"
  PROVE  /\ d \in Client /\ d.state \in {"apart", "ended"} /\ d.cursor = c.cursor /\ d.seen = c.seen
         /\ c.shown \subseteq d.shown /\ d.shown \subseteq c.shown \cup Stored
<1> DEFINE new == inOrder(StoredAfter(c.last) \ c.shown)
<1>1. d = c \/ d = fallback(c) \/ d = [c EXCEPT !.state = "ended"]
  BY DEF afterFailure
<1>2. CASE d = c
  BY <1>2
<1>3. CASE d = [c EXCEPT !.state = "ended"]
  BY <1>3 DEF Client
<1>4. CASE d = fallback(c)
  <2>1. SeqType /\ Stored \in SUBSET Event
    BY StoreTyped
  <2>2. StoredAfter(c.last) \ c.shown \in SUBSET Event /\ StoredAfter(c.last) \ c.shown \subseteq Stored
    BY <2>1 DEF StoredAfter
  <2>3. new \in Seq(StoredAfter(c.last) \ c.shown)
    BY <2>1, <2>2, InOrderList
  <2>4. DOMAIN new = 1 .. Len(new) /\ \A i \in 1 .. Len(new) : new[i] \in Stored
    BY <2>2, <2>3, LenProperties, ElementOfSeq
  <2>5. Range(new) \subseteq Stored
    BY <2>4 DEF Range
  <2>6. new # <<>> => Last(new) \in Event
    <3>1. new # <<>> => Len(new) \in 1 .. Len(new)
      BY <2>3, EmptySeq, LenProperties
    <3> QED BY <3>1, <2>1, <2>4 DEF Last
  <2>7. d = [c EXCEPT !.shown = c.shown \cup Range(new), !.last = IF new = <<>> THEN c.last ELSE Last(new)]
    BY <1>4 DEF fallback
  <2> HIDE DEF new
  <2>8. PICK last \in Event \cup {Nobody} : last = IF new = <<>> THEN c.last ELSE Last(new)
    BY <2>6 DEF Client
  <2>9. PICK shown \in SUBSET Event : shown = c.shown \cup Range(new)
    BY <2>1, <2>5 DEF Client
  <2>10. d = [c EXCEPT !.shown = shown, !.last = last]
    BY <2>7, <2>8, <2>9
  <2>11. d \in Client /\ d.state = c.state /\ d.cursor = c.cursor /\ d.seen = c.seen /\ d.shown = shown
    BY <2>10 DEF Client
  <2> QED BY <2>5, <2>9, <2>11
<1> QED BY <1>1, <1>2, <1>3, <1>4

LEMMA FailureStep ==
  ASSUME StreamInv, breakConnection \/ connectFails
  PROVE  StreamInv'
<1>1. StoreInv /\ LinkType /\ Connection /\ Persisted
  BY DEF StreamInv, LinkInv
<1>2. UNCHANGED store /\ repeats' = repeats /\ breaks < MaxBreaks /\ breaks' = breaks + 1
  BY DEF breakConnection, connectFails
<1>3. StoreInv' /\ Stored' = Stored /\ (OneWriter' <=> OneWriter) /\ seq' = seq
  BY <1>1, <1>2, StoreKept
<1>4. channel' = <<>> /\ (server' = Closed \/ (server' = server /\ server.state = "closed"))
  BY <1>1 DEF breakConnection, connectFails, Connection
<1>5. server' \in Server /\ server'.state = "closed" /\ (server'.cursor # Nobody => server'.cursor \in Stored)
  BY <1>1, <1>4, ClosedFields DEF LinkType, Persisted
<1>6. ~server'.reading
  <2>1. ~Closed.reading
    BY ClosedFields, Zenon
  <2>2. server.state = "closed" => ~server.reading
    BY <1>1 DEF Connection
  <2> QED BY <1>4, <2>1, <2>2
<1>7. /\ client' \in Client /\ client'.state \in {"apart", "ended"}
      /\ client'.cursor = client.cursor /\ client'.seen = client.seen
      /\ client.shown \subseteq client'.shown /\ client'.shown \subseteq client.shown \cup Stored
  <2>1. client \in Client /\ client.attempt + 1 \in Nat
    BY <1>1, Fields DEF LinkType
  <2>2. PICK gone \in Client : gone = [client EXCEPT !.state = "apart"]
    BY <2>1 DEF Client
  <2>3. PICK failed \in Client : failed = [gone EXCEPT !.attempt = @ + 1]
    <3>1. gone.attempt + 1 \in Nat
      BY DEF Client
    <3> QED BY <3>1 DEF Client
  <2>4. PICK again \in Client : again = [client EXCEPT !.attempt = @ + 1]
    BY <2>1 DEF Client
  <2>5. /\ gone.state = "apart" /\ gone.cursor = client.cursor /\ gone.seen = client.seen /\ gone.shown = client.shown
        /\ failed.state = "apart" /\ failed.cursor = client.cursor /\ failed.seen = client.seen
        /\ failed.shown = client.shown
        /\ again.state = client.state /\ again.cursor = client.cursor /\ again.seen = client.seen
        /\ again.shown = client.shown
    BY <2>1, <2>2, <2>3, <2>4 DEF Client
  <2>6. client' = gone \/ client' \in afterFailure(failed) \/ (client.state = "apart" /\ client' \in afterFailure(again))
    BY <2>2, <2>3, <2>4 DEF breakConnection, connectFails
  <2>7. CASE client' = gone
    BY <2>5, <2>7
  <2>8. CASE client' \in afterFailure(failed)
    BY <1>1, <2>5, <2>8, AfterFailure
  <2>9. CASE client.state = "apart" /\ client' \in afterFailure(again)
    BY <1>1, <2>5, <2>9, AfterFailure
  <2> QED BY <2>6, <2>7, <2>8, <2>9
<1>8. Len(channel') = 0 /\ channel' \in Seq(Event \cup {ErrorFrame})
  BY <1>4
<1>9. breaks' \in 0 .. MaxBreaks
  BY <1>1, <1>2, ConstantsAssumption DEF LinkType
<1>10. LinkType' /\ Connection'
  BY <1>1, <1>2, <1>4, <1>5, <1>6, <1>7, <1>8, <1>9 DEF LinkType, Connection
<1>11. server'.list = <<>> \/ server'.list = server.list
  BY <1>4, ClosedFields
<1>12. Persisted'
  <2>1. Len(<<>>) = 0
    OBVIOUS
  <2>2. \A i \in 1 .. Len(server'.list) : server'.list[i] \in Stored
    BY <1>1, <1>11, <2>1 DEF Persisted
  <2> QED BY <1>1, <1>3, <1>5, <1>7, <1>8, <2>2 DEF Persisted
<1>13. ASSUME OneWriter
       PROVE  Delivery'
  <2>1. Delivery
    BY <1>13 DEF StreamInv, LinkInv
  <2>2. UpToCursor' /\ SeenBefore'
    BY <1>3, <1>7, <2>1 DEF Delivery, UpToCursor, SeenBefore
  <2>3. NoGap' /\ ServerAhead'
    BY <1>5 DEF NoGap, ServerAhead
  <2>4. ChannelAhead' /\ ChannelSorted' /\ ReadsWhenEmpty'
    BY <1>4, <1>8 DEF ChannelAhead, ChannelSorted, ReadsWhenEmpty
  <2>5. ListSorted' /\ ListAhead' /\ ListWhole'
    <3>1. CASE server' = server
      BY <1>3, <2>1, <3>1 DEF Delivery, ListSorted, ListAhead, ListWhole
    <3>2. CASE server' = Closed
      <4>1. Len(server'.list) = 0
        BY <3>2, ClosedFields
      <4> QED BY <4>1 DEF ListSorted, ListAhead, ListWhole
    <3> QED BY <1>4, <3>1, <3>2
  <2> QED BY <2>2, <2>3, <2>4, <2>5 DEF Delivery
<1> QED BY <1>3, <1>10, <1>12, <1>13 DEF StreamInv, LinkInv

LEMMA StreamStepKeeps ==
  ASSUME StreamInv, [Next]_vars
  PROVE  StreamInv'
<1>1. ASSUME NEW e \in Event, chooseSequence(e)
      PROVE  StreamInv'
  <2>1. StoreInv'
    BY <1>1, ChoosesNext DEF StreamInv
  <2>2. /\ origin' = origin /\ seq' = seq /\ server' = server /\ channel' = channel /\ client' = client
        /\ breaks' = breaks /\ repeats' = repeats
    BY <1>1 DEF chooseSequence
  <2>3. Stored' = Stored /\ (OneWriter' <=> OneWriter)
    BY <2>2 DEF Stored, OneWriter
  <2>4. LinkType' /\ Connection' /\ Persisted'
    BY <2>2, <2>3 DEF StreamInv, LinkInv, LinkType, Connection, Persisted
  <2>5. Delivery => Delivery'
    BY <2>2, <2>3 DEF Delivery, UpToCursor, SeenBefore, NoGap, ServerAhead, ChannelAhead, ChannelSorted,
                      ListSorted, ListAhead, ListWhole, ReadsWhenEmpty
  <2> QED BY <2>1, <2>3, <2>4, <2>5 DEF StreamInv, LinkInv
<1>2. CASE UNCHANGED vars
  <2>1. /\ UNCHANGED store /\ server' = server /\ channel' = channel /\ client' = client
        /\ breaks' = breaks /\ repeats' = repeats
    BY <1>2 DEF vars, store
  <2>2. StoreInv' /\ Stored' = Stored /\ (OneWriter' <=> OneWriter) /\ seq' = seq
    BY <2>1, StoreKept DEF StreamInv
  <2>3. LinkType' /\ Connection' /\ Persisted'
    BY <2>1, <2>2 DEF StreamInv, LinkInv, LinkType, Connection, Persisted
  <2>4. Delivery => Delivery'
    BY <2>1, <2>2 DEF Delivery, UpToCursor, SeenBefore, NoGap, ServerAhead, ChannelAhead, ChannelSorted,
                      ListSorted, ListAhead, ListWhole, ReadsWhenEmpty
  <2> QED BY <2>2, <2>3, <2>4 DEF StreamInv, LinkInv
<1> QED
  BY <1>1, <1>2, InsertStep, AgainStep, OpenStep, ReadStep, SendStep, ReceiveStep, FailureStep
     DEF Next, AppendStep, StreamStep

LEMMA StreamStarts == Init => StreamInv
<1> SUFFICES ASSUME Init PROVE StreamInv
  OBVIOUS
<1>1. /\ origin \in Origins /\ seq = [e \in Event |-> 0] /\ chosen = [e \in Event |-> 0]
      /\ server = Closed /\ channel = <<>> /\ breaks = 0 /\ repeats = 0
      /\ client = [state |-> "apart", cursor |-> Nobody, seen |-> {}, shown |-> {}, last |-> Nobody, attempt |-> 0]
  BY DEF Init
<1>2. Stored = {} /\ Cardinality(Stored) = 0
  <2>1. Stored = {}
    BY <1>1 DEF Stored
  <2> QED BY <2>1, FS_EmptySet
<1>3. StoreInv
  <2>1. StoreType
    BY <1>1, EventFacts DEF StoreType
  <2>2. Counted
    BY <1>1, <1>2 DEF Counted
  <2>3. Serial /\ SequencesUnique
    BY <1>1, <1>2 DEF Serial, SequencesUnique
  <2> QED BY <2>1, <2>2, <2>3 DEF StoreInv
<1>4. /\ client \in Client /\ client.state = "apart" /\ client.cursor = Nobody /\ client.seen = {} /\ client.shown = {}
  BY <1>1 DEF Client
<1>5. /\ server \in Server /\ server.state = "closed" /\ server.cursor = Nobody /\ server.list = <<>>
  BY <1>1, ClosedFields
<1>6. ~server.reading
  BY <1>1, ClosedFields, Zenon
<1>7. Len(channel) = 0 /\ Len(server.list) = 0 /\ channel \in Seq(Event \cup {ErrorFrame})
  BY <1>1, <1>5
<1>8. LinkType
  BY <1>1, <1>4, <1>5, <1>7, ConstantsAssumption DEF LinkType
<1>9. Connection /\ Persisted
  BY <1>1, <1>4, <1>5, <1>6, <1>7 DEF Connection, Persisted
<1>10. Delivery
  BY <1>1, <1>2, <1>4, <1>5, <1>6, <1>7
     DEF Delivery, UpToCursor, SeenBefore, NoGap, ServerAhead, ChannelAhead, ChannelSorted,
         ListSorted, ListAhead, ListWhole, ReadsWhenEmpty
<1> QED BY <1>3, <1>8, <1>9, <1>10 DEF StreamInv, LinkInv

LEMMA StreamInvSound == StreamInv => StreamSound
<1> SUFFICES ASSUME StreamInv PROVE StreamSound
  OBVIOUS
<1>1. StoreInv /\ LinkType /\ Persisted
  BY DEF StreamInv, LinkInv
<1>2. TypeOK
  BY <1>1 DEF TypeOK, StoreInv, StoreType, LinkType
<1>3. RecoveryWithOneWriter
  <2> SUFFICES ASSUME OneWriter, client.cursor # Nobody, NEW e \in Stored, Before(e, client.cursor)
               PROVE  e \in client.shown
    BY DEF RecoveryWithOneWriter, RecoveryContract
  <2>1. AtMost(seq, client.cursor, e)
    BY DEF AtMost, Before, Bef
  <2> QED BY <2>1 DEF StreamInv, LinkInv, Delivery, UpToCursor
<1>4. ShownArePersisted
  <2>1. DOMAIN channel = 1 .. Len(channel) /\ DOMAIN server.list = 1 .. Len(server.list)
    BY <1>1, Fields, LenProperties DEF LinkType
  <2>2. Range(channel) \ {ErrorFrame} \subseteq Stored
    BY <1>1, <2>1 DEF Range, Persisted
  <2>3. Range(server.list) \subseteq Stored
    BY <1>1, <2>1 DEF Range, Persisted
  <2> QED BY <1>1, <2>2, <2>3 DEF Persisted, ShownArePersisted
<1> QED BY <1>1, <1>2, <1>3, <1>4 DEF StreamSound, StoreInv

\* For any number of events, writing processes, broken connections and repeated
\* appends and every replay limit: nothing is shown, sent or used as a cursor before
\* it is stored, and if one worker process writes the run, its events are numbered
\* uniquely and a client that comes back with its cursor misses nothing before it
\* (appendRunEvent, sendReplay, streamRunEvents).
THEOREM StreamSoundHolds == Spec => []StreamSound
<1>1. Init => StreamInv
  BY StreamStarts
<1>2. StreamInv /\ [Next]_vars => StreamInv'
  BY StreamStepKeeps
<1>3. StreamInv => StreamSound
  BY StreamInvSound
<1> QED BY <1>1, <1>2, <1>3, PTL DEF Spec

\* No append changes the order of the events that are stored, whoever writes them:
\* a cursor keeps its place in the replay (listRunEvents).
THEOREM OrderStableHolds == Spec => OrderStable
<1>1. Init => StreamInv
  BY StreamStarts
<1>2. StreamInv /\ [Next]_vars => StreamInv'
  BY StreamStepKeeps
<1>3. ASSUME StreamInv, [Next]_vars
      PROVE  [\A e, f \in Stored : Before(e, f) <=> Before(e, f)']_vars
  <2>1. CASE seq' = seq
    BY <2>1 DEF Before
  <2>2. ASSUME NEW e \in Event, insertEvent(e)
        PROVE  \A x, y \in Stored : Before(x, y) <=> Before(x, y)'
    <3>1. \A x, y \in Stored : Bef(seq', x, y) <=> Bef(seq, x, y)
      BY <1>3, <2>2, OrderGrows DEF StreamInv, insertEvent
    <3> QED BY <3>1 DEF Before, Bef
  <2>3. seq' = seq \/ \E e \in Event : insertEvent(e)
    BY <1>3 DEF Next, AppendStep, StreamStep, chooseSequence, appendAgain, openStream, readReplay, sendReplay,
                receive, breakConnection, connectFails, store, vars
  <2> QED BY <2>1, <2>2, <2>3
<1> QED BY <1>1, <1>2, <1>3, PTL DEF Spec, OrderStable

=============================================================================
