---------------------------- MODULE FastMoveProofs ----------------------------
(***************************************************************************)
(* For all mids, spreads, thresholds and times of FastMove: the threshold  *)
(* read off the deque is the one a scan of the window gives, a gap blocks  *)
(* while it is in the window, a cool-off is one episode, and guard and     *)
(* worker together implement the breaker.                                  *)
(*                                                                         *)
(* GuardInv says why: both sequences age from the front (Aged), the deque  *)
(* gets wider from the front (Rising), each of its entries is one of the   *)
(* history and each of the history has one in the deque that is no older   *)
(* and no wider (Covers); the cool-off a gap began outlasts the gap's stay *)
(* in the window (GapsCovered).                                            *)
(***************************************************************************)
EXTENDS FastMove, FiniteSetTheorems, WellFoundedInduction, TLAPS

Ages        == 0 .. Window + 1
HistEntry   == [age : Ages, mid : Mids, spread : Spreads]
SpreadEntry == [age : Ages, spread : Spreads]

DequeTypes ==
  /\ hist \in Seq(HistEntry) /\ spreadMin \in Seq(SpreadEntry)
  /\ Len(hist) <= MaxUpdates
MoveTypes ==
  /\ left \in 0 .. Cooloff
  /\ pend \in [dir : {-1, 0, 1}, ref : Mids \cup {0}, steps : 0 .. Confirm, age : Ages]
  /\ pend.dir = 0 => pend = NoMove
  /\ pend.dir # 0 => pend.ref \in Mids
TripTypes ==
  /\ trip \in Context \cup {None} /\ latched \in Context \cup {None}
CountTypes ==
  trips \in 0 .. EvictTrips /\ evicted \in BOOLEAN /\ winding \in BOOLEAN

Aged(seq)   == \A i, j \in DOMAIN seq : i <= j => seq[j].age <= seq[i].age
Rising(seq) == \A i, j \in DOMAIN seq : i < j => seq[i].spread < seq[j].spread
Covers(deque, all) ==
  /\ \A i \in DOMAIN deque : \E k \in DOMAIN all :
       all[k].age = deque[i].age /\ all[k].spread = deque[i].spread
  /\ \A k \in DOMAIN all : \E i \in DOMAIN deque :
       deque[i].age <= all[k].age /\ deque[i].spread <= all[k].spread
DequeInv == Aged(hist) /\ Aged(spreadMin) /\ Rising(spreadMin) /\ Covers(spreadMin, hist)

Gap(seq, i) == Distance(seq[i].mid, seq[i - 1].mid) >= 2 * Threshold
GapsCovered ==
  \A i \in DOMAIN hist \ {1} :
    Gap(hist, i) /\ hist[i].age <= Window => left >= Cooloff - hist[i].age

GuardInv ==
  DequeTypes /\ MoveTypes /\ TripTypes /\ CountTypes /\ DequeInv /\ GapsCovered

-----------------------------------------------------------------------------
(* The deques.                                                             *)

\* Sets of naturals have least elements.
LEMMA LeastNat ==
  ASSUME NEW P \in SUBSET Nat, P # {}
  PROVE  \E n \in P : \A m \in P : n <= m
  <1>1. IsWellFoundedOn(OpToRel(<, Nat), Nat)
    BY NatLessThanWellFounded
  <1>2. PICK n \in P : \A m \in P : ~(<<m, n>> \in OpToRel(<, Nat))
    BY <1>1, WFMin
  <1>3. ASSUME NEW m \in P PROVE ~(m < n)
    BY <1>2, Zenon DEF OpToRel
  <1> QED BY <1>3

LEMMA EntryFields ==
  /\ \A e \in HistEntry : e.age \in Nat /\ e.age <= Window + 1 /\ e.mid \in Mids
                        /\ e.mid \in Nat /\ e.spread \in Spreads /\ e.spread \in Nat
  /\ \A e \in SpreadEntry : e.age \in Nat /\ e.age <= Window + 1
                          /\ e.spread \in Spreads /\ e.spread \in Nat
  <1>1. Mids \subseteq Nat /\ Spreads \subseteq Nat /\ \A a \in Ages : a \in Nat /\ a <= Window + 1
    BY GuardAssumption DEF Ages
  <1>2. ASSUME NEW e \in HistEntry
        PROVE  e.age \in Ages /\ e.mid \in Mids /\ e.spread \in Spreads
    BY DEF HistEntry
  <1>3. ASSUME NEW e \in SpreadEntry
        PROVE  e.age \in Ages /\ e.spread \in Spreads
    BY DEF SpreadEntry
  <1> QED BY <1>1, <1>2, <1>3

\* What is live of an aged sequence is a suffix of it, and all of that is in the window.
LEMMA LiveIsSuffix ==
  ASSUME NEW S, NEW seq \in Seq(S), \A e \in S : e.age \in Nat, Aged(seq)
  PROVE  \E k \in 0 .. Len(seq) :
           /\ Live(seq) = SubSeq(seq, k + 1, Len(seq))
           /\ \A i \in 1 .. k : seq[i].age > Window
           /\ \A i \in k + 1 .. Len(seq) : seq[i].age <= Window
  <1> DEFINE IsFirst(n) == /\ \A i \in 1 .. n - 1 : seq[i].age > Window
                           /\ n <= Len(seq) => seq[n].age <= Window
             P == {n \in Nat : n >= 1 /\ n <= Len(seq) + 1
                               /\ (n <= Len(seq) => seq[n].age <= Window)}
             first == CHOOSE n \in 1 .. Len(seq) + 1 : IsFirst(n)
  <1>0. Window \in Nat /\ Len(seq) \in Nat
    BY GuardAssumption
  <1>1. Len(seq) + 1 \in P
    BY <1>0
  <1>2. PICK n \in P : \A m \in P : n <= m
    BY <1>1, LeastNat
  <1>3. ASSUME NEW i \in 1 .. n - 1 PROVE seq[i].age > Window
    <2>1. i \notin P /\ i \in 1 .. Len(seq)
      BY <1>2, <1>0
    <2>2. seq[i] \in S
      BY <2>1
    <2> QED BY <2>1, <2>2, <1>0
  <1>4. n \in 1 .. Len(seq) + 1 /\ IsFirst(n)
    BY <1>2, <1>3, <1>0
  <1>5. first \in 1 .. Len(seq) + 1 /\ IsFirst(first)
    BY <1>4
  <1>6. Live(seq) = SubSeq(seq, first, Len(seq))
    BY DEF Live
  <1> HIDE DEF first
  <1>7. ASSUME NEW i \in first .. Len(seq) PROVE seq[i].age <= Window
    <2>1. first \in DOMAIN seq /\ i \in DOMAIN seq /\ first <= i
      BY <1>5, <1>0
    <2>2. seq[i].age <= seq[first].age
      BY <2>1 DEF Aged
    <2>3. seq[first].age <= Window /\ seq[i] \in S /\ seq[first] \in S
      BY <1>5, <2>1
    <2> QED BY <2>2, <2>3, <1>0
  <1>8. first - 1 \in 0 .. Len(seq) /\ (first - 1) + 1 = first
    BY <1>0, <1>5
  <1>9. Live(seq) = SubSeq(seq, (first - 1) + 1, Len(seq))
    BY <1>6, <1>8
  <1> QED BY <1>5, <1>7, <1>8, <1>9

\* What is narrower than a spread of a rising deque is a prefix of it.
LEMMA NarrowerIsPrefix ==
  ASSUME NEW seq \in Seq(SpreadEntry), Rising(seq), NEW spread \in Spreads
  PROVE  \E n \in 0 .. Len(seq) :
           /\ Narrower(seq, spread) = SubSeq(seq, 1, n)
           /\ \A i \in 1 .. n : seq[i].spread < spread
           /\ \A i \in n + 1 .. Len(seq) : seq[i].spread >= spread
  <1> DEFINE IsLast(n) == /\ \A i \in n + 1 .. Len(seq) : seq[i].spread >= spread
                          /\ n > 0 => seq[n].spread < spread
             P == {k \in Nat : k <= Len(seq)
                     /\ (Len(seq) - k > 0 => seq[Len(seq) - k].spread < spread)}
             last == CHOOSE n \in 0 .. Len(seq) : IsLast(n)
  <1>0. spread \in Nat /\ Len(seq) \in Nat /\ \A i \in 1 .. Len(seq) : seq[i].spread \in Nat
    BY GuardAssumption, EntryFields
  <1>1. Len(seq) \in P
    BY <1>0
  <1>2. PICK k \in P : \A m \in P : k <= m
    BY <1>1, LeastNat
  <1>3. ASSUME NEW i \in Len(seq) - k + 1 .. Len(seq) PROVE seq[i].spread >= spread
    <2>1. k \in Nat /\ k <= Len(seq)
      OBVIOUS
    <2>2. Len(seq) - i \in Nat /\ Len(seq) - i < k /\ i \in 1 .. Len(seq)
      BY <2>1, <1>0
    <2>3. Len(seq) - i \notin P
      BY <2>1, <2>2, <1>2
    <2>4. Len(seq) - (Len(seq) - i) = i
      BY <2>2, <1>0
    <2> QED BY <2>2, <2>3, <2>4, <1>0
  <1>4. Len(seq) - k \in 0 .. Len(seq) /\ IsLast(Len(seq) - k)
    BY <1>2, <1>3, <1>0
  <1>5. last \in 0 .. Len(seq) /\ IsLast(last)
    BY <1>4
  <1>6. Narrower(seq, spread) = SubSeq(seq, 1, last)
    BY DEF Narrower
  <1> HIDE DEF last
  <1>7. ASSUME NEW i \in 1 .. last PROVE seq[i].spread < spread
    <2>1. last \in DOMAIN seq /\ i \in DOMAIN seq /\ i <= last /\ last > 0
      BY <1>5, <1>0
    <2>2. i = last \/ seq[i].spread < seq[last].spread
      BY <2>1 DEF Rising
    <2> QED BY <2>1, <2>2, <1>5, <1>0
  <1> QED BY <1>5, <1>6, <1>7

LEMMA LiveIs ==
  ASSUME NEW S, NEW seq \in Seq(S), \A e \in S : e.age \in Nat, Aged(seq)
  PROVE  \E k \in 0 .. Len(seq) :
           /\ Live(seq) \in Seq(S) /\ Len(Live(seq)) = Len(seq) - k
           /\ \A i \in 1 .. Len(seq) - k :
                Live(seq)[i] = seq[i + k] /\ Live(seq)[i].age <= Window
           /\ \A i \in 1 .. k : seq[i].age > Window
  <1>1. PICK k \in 0 .. Len(seq) :
          /\ Live(seq) = SubSeq(seq, k + 1, Len(seq))
          /\ \A i \in 1 .. k : seq[i].age > Window
          /\ \A i \in k + 1 .. Len(seq) : seq[i].age <= Window
    BY LiveIsSuffix
  <1>2. /\ Live(seq) \in Seq(S) /\ Len(Live(seq)) = Len(seq) - k
        /\ \A i \in 1 .. Len(seq) - k : Live(seq)[i] = seq[i + k]
    BY <1>1
  <1>3. ASSUME NEW i \in 1 .. Len(seq) - k PROVE Live(seq)[i].age <= Window
    <2>1. i + k \in k + 1 .. Len(seq)
      OBVIOUS
    <2> QED BY <2>1, <1>1, <1>2
  <1> QED BY <1>1, <1>2, <1>3

LEMMA LiveKeepsOrder ==
  ASSUME NEW S, NEW seq \in Seq(S), \A e \in S : e.age \in Nat, Aged(seq)
  PROVE  /\ Aged(Live(seq)) /\ (Rising(seq) => Rising(Live(seq)))
         /\ Len(Live(seq)) <= Len(seq)
  <1>1. PICK k \in 0 .. Len(seq) :
           /\ Live(seq) \in Seq(S) /\ Len(Live(seq)) = Len(seq) - k
           /\ \A i \in 1 .. Len(seq) - k : Live(seq)[i] = seq[i + k]
    BY LiveIs
  <1>2. ASSUME NEW i \in DOMAIN Live(seq) PROVE i + k \in DOMAIN seq /\ Live(seq)[i] = seq[i + k]
    <2>1. i \in 1 .. Len(seq) - k
      BY <1>1
    <2>2. i + k \in 1 .. Len(seq)
      BY <2>1
    <2> QED BY <1>1, <2>1, <2>2
  <1>3. \A i, j \in DOMAIN Live(seq) : i <= j => i + k <= j + k
    BY <1>1
  <1>4. \A i, j \in DOMAIN Live(seq) : i < j => i + k < j + k
    BY <1>1
  <1>5. Aged(Live(seq))
    BY <1>2, <1>3 DEF Aged
  <1>6. Rising(seq) => Rising(Live(seq))
    BY <1>2, <1>4 DEF Rising
  <1> QED BY <1>1, <1>5, <1>6

LEMMA LiveCovers ==
  ASSUME NEW d \in Seq(SpreadEntry), NEW h \in Seq(HistEntry), Aged(d), Aged(h), Covers(d, h)
  PROVE  Covers(Live(d), Live(h))
  <1>0. Window \in Nat /\ (\A e \in SpreadEntry : e.age \in Nat) /\ (\A e \in HistEntry : e.age \in Nat)
    BY GuardAssumption, EntryFields
  <1>1. PICK kd \in 0 .. Len(d) :
           /\ Live(d) \in Seq(SpreadEntry) /\ Len(Live(d)) = Len(d) - kd
           /\ \A i \in 1 .. Len(d) - kd : Live(d)[i] = d[i + kd] /\ Live(d)[i].age <= Window
           /\ \A i \in 1 .. kd : d[i].age > Window
    BY <1>0, LiveIs
  <1>2. PICK kh \in 0 .. Len(h) :
           /\ Live(h) \in Seq(HistEntry) /\ Len(Live(h)) = Len(h) - kh
           /\ \A i \in 1 .. Len(h) - kh : Live(h)[i] = h[i + kh] /\ Live(h)[i].age <= Window
           /\ \A i \in 1 .. kh : h[i].age > Window
    BY <1>0, LiveIs
  <1>3. ASSUME NEW i \in DOMAIN Live(d)
        PROVE  \E k \in DOMAIN Live(h) :
                 Live(h)[k].age = Live(d)[i].age /\ Live(h)[k].spread = Live(d)[i].spread
    <2>1. i + kd \in DOMAIN d /\ Live(d)[i] = d[i + kd] /\ Live(d)[i].age <= Window
      BY <1>1
    <2>2. PICK k \in DOMAIN h : h[k].age = d[i + kd].age /\ h[k].spread = d[i + kd].spread
      BY <2>1 DEF Covers
    <2>3. k \notin 1 .. kh
      BY <1>0, <1>2, <2>1, <2>2
    <2>4. k - kh \in DOMAIN Live(h) /\ k - kh \in 1 .. Len(h) - kh /\ (k - kh) + kh = k
      BY <2>3, <1>2
    <2> QED BY <2>1, <2>2, <2>4, <1>2
  <1>4. ASSUME NEW k \in DOMAIN Live(h)
        PROVE  \E i \in DOMAIN Live(d) :
                 Live(d)[i].age <= Live(h)[k].age /\ Live(d)[i].spread <= Live(h)[k].spread
    <2>1. k + kh \in DOMAIN h /\ Live(h)[k] = h[k + kh] /\ Live(h)[k].age <= Window
      BY <1>2
    <2>2. PICK i \in DOMAIN d : d[i].age <= h[k + kh].age /\ d[i].spread <= h[k + kh].spread
      BY <2>1 DEF Covers
    <2>3. d[i] \in SpreadEntry /\ h[k + kh] \in HistEntry
      BY <2>1, <2>2
    <2>4. i \notin 1 .. kd
      BY <1>0, <1>1, <2>1, <2>2, <2>3
    <2>5. i - kd \in DOMAIN Live(d) /\ i - kd \in 1 .. Len(d) - kd /\ (i - kd) + kd = i
      BY <2>4, <1>1
    <2> QED BY <2>1, <2>2, <2>5, <1>1
  <1> QED BY <1>3, <1>4 DEF Covers

\* The front of a rising deque is the least of the spreads it covers.
LEMMA FrontIsLeast ==
  ASSUME NEW d \in Seq(SpreadEntry), NEW h \in Seq(HistEntry), Rising(d), Covers(d, h)
  PROVE  LET spreads == {h[i].spread : i \in DOMAIN h} IN
           /\ d = <<>> <=> spreads = {}
           /\ d # <<>> => Head(d).spread \in spreads /\ \A other \in spreads : Head(d).spread <= other
  <1> DEFINE spreads == {h[i].spread : i \in DOMAIN h}
  <1>1. ASSUME d = <<>> PROVE spreads = {}
    BY <1>1 DEF Covers
  <1>2. ASSUME d # <<>>
        PROVE  Head(d).spread \in spreads /\ \A other \in spreads : Head(d).spread <= other
    <2>1. 1 \in DOMAIN d /\ Head(d) = d[1]
      BY <1>2
    <2>2. Head(d).spread \in spreads
      BY <2>1 DEF Covers
    <2>3. ASSUME NEW k \in DOMAIN h PROVE Head(d).spread <= h[k].spread
      <3>1. PICK i \in DOMAIN d : d[i].spread <= h[k].spread
        BY DEF Covers
      <3>2. d[1] \in SpreadEntry /\ d[i] \in SpreadEntry /\ h[k] \in HistEntry
        BY <2>1, <3>1
      <3>3. i = 1 \/ d[1].spread < d[i].spread
        BY <2>1, <3>1 DEF Rising
      <3> QED BY <2>1, <3>1, <3>2, <3>3, EntryFields
    <2> QED BY <2>2, <2>3
  <1> QED BY <1>1, <1>2

\* A rising deque is no longer than what it covers: its entries differ in their spreads.
LEMMA CoversLength ==
  ASSUME NEW d \in Seq(SpreadEntry), NEW h \in Seq(HistEntry), Rising(d), Covers(d, h)
  PROVE  Len(d) <= Len(h)
  <1> DEFINE entryOf == [i \in 1 .. Len(d) |->
                           CHOOSE k \in 1 .. Len(h) : h[k].spread = d[i].spread]
  <1>1. ASSUME NEW i \in 1 .. Len(d)
        PROVE  entryOf[i] \in 1 .. Len(h) /\ h[entryOf[i]].spread = d[i].spread
    <2>1. i \in DOMAIN d
      OBVIOUS
    <2>2. \E k \in DOMAIN h : h[k].spread = d[i].spread
      BY <2>1 DEF Covers
    <2>3. \E k \in 1 .. Len(h) : h[k].spread = d[i].spread
      BY <2>2
    <2> QED BY <2>3
  <1> HIDE DEF entryOf
  <1>2. ASSUME NEW i \in 1 .. Len(d), NEW j \in 1 .. Len(d), i < j
        PROVE  entryOf[i] # entryOf[j]
    <2>1. d[i].spread < d[j].spread /\ d[i] \in SpreadEntry /\ d[j] \in SpreadEntry
      BY <1>2 DEF Rising
    <2> QED BY <2>1, <1>1, EntryFields
  <1>3. entryOf \in Injection(1 .. Len(d), 1 .. Len(h))
    <2>1. entryOf \in [1 .. Len(d) -> 1 .. Len(h)]
      BY <1>1 DEF entryOf
    <2>2. \A i, j \in 1 .. Len(d) : i < j \/ j < i \/ i = j
      OBVIOUS
    <2> QED BY <2>1, <2>2, <1>2 DEF Injection, IsInjective
  <1>4. /\ IsFiniteSet(1 .. Len(h)) /\ Cardinality(1 .. Len(h)) = Len(h)
        /\ Cardinality(1 .. Len(d)) = Len(d)
    <2>1. Len(d) \in Nat /\ Len(h) \in Nat /\ Len(d) \in Int /\ Len(h) \in Int /\ 1 \in Int
      OBVIOUS
    <2>2. \A b \in Int : IsFiniteSet(1 .. b) /\ Cardinality(1 .. b) = IF 1 > b THEN 0 ELSE b - 1 + 1
      BY <2>1, FS_Interval, Zenon
    <2> QED BY <2>1, <2>2
  <1> QED BY <1>3, <1>4, FS_Injection

\* An entry of age 0 at the end keeps a sequence aged.
LEMMA AppendAged ==
  ASSUME NEW S, NEW seq \in Seq(S), \A e \in S : e.age \in Nat, Aged(seq),
         NEW e \in S, e.age = 0
  PROVE  Aged(Append(seq, e))
  <1> DEFINE new == Append(seq, e)
  <1>1. /\ new \in Seq(S) /\ Len(new) = Len(seq) + 1 /\ new[Len(seq) + 1] = e
        /\ \A i \in 1 .. Len(seq) : new[i] = seq[i]
    OBVIOUS
  <1> HIDE DEF new
  <1>2. ASSUME NEW i \in DOMAIN new, NEW j \in DOMAIN new, i <= j
        PROVE  new[j].age <= new[i].age
    <2>1. CASE j = Len(seq) + 1
      <3>1. new[j].age = 0 /\ new[i] \in S
        BY <1>1, <2>1
      <3> QED BY <3>1
    <2>2. CASE j # Len(seq) + 1
      <3>1. i \in DOMAIN seq /\ j \in DOMAIN seq /\ new[i] = seq[i] /\ new[j] = seq[j]
        BY <1>1, <1>2, <2>2
      <3> QED BY <3>1, <1>2 DEF Aged
    <2> QED BY <2>1, <2>2
  <1>3. Aged(new)
    BY <1>2 DEF Aged
  <1> QED BY <1>3 DEF new

\* _push_spread keeps the deque rising and covering: what it pops is covered by what it adds.
LEMMA PushKeeps ==
  ASSUME NEW d \in Seq(SpreadEntry), NEW h \in Seq(HistEntry),
         Aged(d), Rising(d), Covers(d, h), NEW mid \in Mids, NEW spread \in Spreads
  PROVE  LET dd == Append(Narrower(d, spread), [age |-> 0, spread |-> spread])
             hh == Append(h, [age |-> 0, mid |-> mid, spread |-> spread])
         IN  /\ dd \in Seq(SpreadEntry) /\ hh \in Seq(HistEntry)
             /\ Aged(dd) /\ Rising(dd) /\ Covers(dd, hh)
  <1> DEFINE e  == [age |-> 0, spread |-> spread]
             g  == [age |-> 0, mid |-> mid, spread |-> spread]
             p  == Narrower(d, spread)
             dd == Append(p, e)
             hh == Append(h, g)
  <1>0. e \in SpreadEntry /\ g \in HistEntry /\ e.age = 0 /\ e.spread = spread
        /\ g.age = 0 /\ g.spread = spread /\ spread \in Nat
    BY GuardAssumption DEF SpreadEntry, HistEntry, Ages
  <1> HIDE DEF e, g
  <1>1. PICK n \in 0 .. Len(d) :
          /\ p = SubSeq(d, 1, n)
          /\ \A i \in 1 .. n : d[i].spread < spread
          /\ \A i \in n + 1 .. Len(d) : d[i].spread >= spread
    BY NarrowerIsPrefix
  <1>2. p \in Seq(SpreadEntry) /\ Len(p) = n /\ \A i \in 1 .. n : p[i] = d[i]
    BY <1>1
  <1> HIDE DEF p
  <1>3. /\ dd \in Seq(SpreadEntry) /\ Len(dd) = n + 1 /\ dd[n + 1] = e
        /\ \A i \in 1 .. n : dd[i] = d[i]
    BY <1>0, <1>2
  <1>4. /\ hh \in Seq(HistEntry) /\ Len(hh) = Len(h) + 1 /\ hh[Len(h) + 1] = g
        /\ \A i \in 1 .. Len(h) : hh[i] = h[i]
    BY <1>0
  <1>5. Aged(dd)
    <2>1. \A i \in DOMAIN p : i \in DOMAIN d /\ p[i] = d[i]
      BY <1>2
    <2>2. Aged(p)
      BY <2>1 DEF Aged
    <2> QED BY <2>2, <1>0, <1>2, AppendAged, EntryFields
  <1> HIDE DEF dd, hh
  <1>6. Rising(dd)
    <2>1. ASSUME NEW i \in DOMAIN dd, NEW j \in DOMAIN dd, i < j
          PROVE  dd[i].spread < dd[j].spread
      <3>1. i \in 1 .. n /\ i \in DOMAIN d /\ dd[i] = d[i]
        BY <1>3, <2>1
      <3>2. CASE j = n + 1
        BY <1>0, <1>1, <1>3, <3>1, <3>2
      <3>3. CASE j # n + 1
        <4>1. j \in DOMAIN d /\ dd[j] = d[j]
          BY <1>3, <3>3
        <4> QED BY <3>1, <4>1, <2>1 DEF Rising
      <3> QED BY <3>2, <3>3
    <2> QED BY <2>1 DEF Rising
  <1>7. ASSUME NEW i \in DOMAIN dd
        PROVE  \E k \in DOMAIN hh : hh[k].age = dd[i].age /\ hh[k].spread = dd[i].spread
    <2>1. CASE i = n + 1
      <3>1. Len(h) + 1 \in DOMAIN hh
        BY <1>4
      <3> QED BY <2>1, <3>1, <1>0, <1>3, <1>4
    <2>2. CASE i # n + 1
      <3>1. i \in DOMAIN d /\ dd[i] = d[i]
        BY <1>3, <2>2
      <3>2. PICK k \in DOMAIN h : h[k].age = d[i].age /\ h[k].spread = d[i].spread
        BY <3>1 DEF Covers
      <3>3. k \in DOMAIN hh /\ hh[k] = h[k]
        BY <1>4
      <3> QED BY <3>1, <3>2, <3>3
    <2> QED BY <2>1, <2>2
  <1>8. ASSUME NEW k \in DOMAIN hh
        PROVE  \E i \in DOMAIN dd : dd[i].age <= hh[k].age /\ dd[i].spread <= hh[k].spread
    <2>0. n + 1 \in DOMAIN dd /\ dd[n + 1].age = 0 /\ dd[n + 1].spread = spread
          /\ hh[k] \in HistEntry /\ hh[k].age >= 0 /\ hh[k].age \in Nat
      BY <1>0, <1>3, <1>4, EntryFields
    <2>1. CASE k = Len(h) + 1
      BY <2>0, <2>1, <1>0, <1>4
    <2>2. CASE k # Len(h) + 1
      <3>1. k \in DOMAIN h /\ hh[k] = h[k] /\ h[k] \in HistEntry
        BY <1>4, <2>2
      <3>2. PICK i \in DOMAIN d : d[i].age <= h[k].age /\ d[i].spread <= h[k].spread
        BY <3>1 DEF Covers
      <3>3. CASE i \in 1 .. n
        <4>1. i \in DOMAIN dd /\ dd[i] = d[i]
          BY <1>3, <3>3
        <4> QED BY <3>1, <3>2, <4>1
      <3>4. CASE i \notin 1 .. n
        <4>1. i \in n + 1 .. Len(d) /\ d[i] \in SpreadEntry
          BY <3>4
        <4>2. spread <= d[i].spread /\ d[i].spread \in Nat /\ h[k].spread \in Nat
          BY <1>1, <4>1, <3>1, EntryFields
        <4>3. spread <= hh[k].spread
          BY <1>0, <3>1, <3>2, <4>2
        <4> QED BY <2>0, <4>3
      <3> QED BY <3>3, <3>4
    <2> QED BY <2>1, <2>2
  <1>9. Covers(dd, hh)
    BY <1>7, <1>8 DEF Covers
  <1> QED BY <1>3, <1>4, <1>5, <1>6, <1>9 DEF dd, hh, p, e, g

-----------------------------------------------------------------------------
(* An update.                                                              *)

LEMMA DistanceInt ==
  ASSUME NEW a \in Int, NEW b \in Int
  PROVE  Distance(a, b) \in Nat
  BY DEF Distance

LEMMA EffectiveRange ==
  ASSUME DequeTypes, DequeInv
  PROVE  EffectiveThreshold \in 4 * Threshold .. 8 * Threshold
  <1>1. Threshold \in Nat \ {0}
    BY GuardAssumption
  <1>2. CASE Live(spreadMin) = <<>>
    BY <1>1, <1>2 DEF EffectiveThreshold
  <1>3. CASE Live(spreadMin) # <<>>
    <2>1. Live(spreadMin) \in Seq(SpreadEntry)
      BY LiveIs, EntryFields DEF DequeTypes, DequeInv
    <2>2. Head(Live(spreadMin)) \in SpreadEntry
      BY <1>3, <2>1
    <2> DEFINE spread == Head(Live(spreadMin)).spread
    <2>3. spread \in Nat
      BY <2>2, EntryFields
    <2>4. EffectiveThreshold = ScaledBy(spread)
      BY <1>3 DEF EffectiveThreshold
    <2> HIDE DEF spread
    <2>5. ScaledBy(spread) \in 4 * Threshold .. 8 * Threshold
      BY <1>1, <2>3 DEF ScaledBy, Lower, Higher
    <2> QED BY <2>4, <2>5
  <1> QED BY <1>2, <1>3

\* The mids an update compares with.
LEMMA References ==
  ASSUME DequeTypes, DequeInv, NEW mid \in Mids, NEW spread \in Spreads
  PROVE  /\ Live(hist) \in Seq(HistEntry)
         /\ (IF hist = <<>> THEN mid ELSE Last(hist).mid) \in Mids
         /\ Head(Append(Live(hist), [age |-> 0, mid |-> mid, spread |-> spread])).mid \in Mids
  <1>1. Live(hist) \in Seq(HistEntry)
    BY LiveIs, EntryFields DEF DequeTypes, DequeInv
  <1>2. ASSUME hist # <<>> PROVE Last(hist).mid \in Mids
    <2>1. Last(hist) \in HistEntry
      BY <1>2 DEF DequeTypes, Last
    <2> QED BY <2>1, EntryFields
  <1> DEFINE g == [age |-> 0, mid |-> mid, spread |-> spread]
  <1>3. g \in HistEntry
    BY GuardAssumption DEF HistEntry, Ages
  <1> HIDE DEF g
  <1>4. Append(Live(hist), g) \in Seq(HistEntry) /\ 1 \in 1 .. Len(Append(Live(hist), g))
    BY <1>1, <1>3
  <1>5. Head(Append(Live(hist), g)) \in HistEntry
    BY <1>4
  <1>6. Head(Append(Live(hist), g)).mid \in Mids
    BY <1>5, EntryFields
  <1> QED BY <1>1, <1>2, <1>6 DEF g

LEMMA LiveFacts ==
  ASSUME DequeTypes, DequeInv
  PROVE  /\ Live(spreadMin) \in Seq(SpreadEntry) /\ Live(hist) \in Seq(HistEntry)
         /\ Aged(Live(spreadMin)) /\ Aged(Live(hist)) /\ Rising(Live(spreadMin))
         /\ Covers(Live(spreadMin), Live(hist))
  <1>1. /\ spreadMin \in Seq(SpreadEntry) /\ hist \in Seq(HistEntry)
        /\ Aged(spreadMin) /\ Aged(hist) /\ Rising(spreadMin) /\ Covers(spreadMin, hist)
    BY DEF DequeTypes, DequeInv
  <1>2. (\A e \in SpreadEntry : e.age \in Nat) /\ (\A e \in HistEntry : e.age \in Nat)
    BY EntryFields
  <1>3. Live(spreadMin) \in Seq(SpreadEntry) /\ Live(hist) \in Seq(HistEntry)
    BY <1>1, <1>2, LiveIs
  <1>4. Aged(Live(spreadMin)) /\ Aged(Live(hist)) /\ Rising(Live(spreadMin))
    BY <1>1, <1>2, LiveKeepsOrder
  <1>5. Covers(Live(spreadMin), Live(hist))
    BY <1>1, LiveCovers
  <1> QED BY <1>3, <1>4, <1>5

LEMMA UpdateDeques ==
  ASSUME DequeTypes, DequeInv, NEW mid \in Mids, NEW spread \in Spreads, Update(mid, spread)
  PROVE  DequeTypes' /\ DequeInv'
  <1> DEFINE d == Live(spreadMin)  h == Live(hist)
  <1>1. /\ d \in Seq(SpreadEntry) /\ h \in Seq(HistEntry) /\ Aged(d) /\ Aged(h) /\ Rising(d)
        /\ Covers(d, h)
    BY LiveFacts
  <1>2. /\ hist' = Append(h, [age |-> 0, mid |-> mid, spread |-> spread])
        /\ spreadMin' = Append(Narrower(d, spread), [age |-> 0, spread |-> spread])
        /\ Len(hist') <= MaxUpdates
    BY DEF Update, Pushed
  <1>3. Aged(hist')
    <2>1. [age |-> 0, mid |-> mid, spread |-> spread] \in HistEntry
      BY GuardAssumption DEF HistEntry, Ages
    <2> QED BY <1>1, <1>2, <2>1, AppendAged, EntryFields
  <1> HIDE DEF d, h
  <1>4. /\ spreadMin' \in Seq(SpreadEntry) /\ hist' \in Seq(HistEntry)
        /\ Aged(spreadMin') /\ Rising(spreadMin') /\ Covers(spreadMin', hist')
    BY <1>1, <1>2, PushKeeps
  <1> QED BY <1>2, <1>3, <1>4 DEF DequeTypes, DequeInv, Aged, Rising, Covers

\* The candidate is none, or has a reference.
LEMMA PendingTypes ==
  ASSUME MoveTypes, NEW mid \in Mids, NEW last \in Mids, NEW windowRef \in Mids, NEW eff \in Nat
  PROVE  LET cand == Pending(mid, mid - last, last, windowRef, eff) IN
           /\ cand \in [dir : {-1, 0, 1}, ref : Mids \cup {0}, steps : 0 .. Confirm, age : Ages]
           /\ cand.dir = 0 => cand = NoMove
           /\ cand.dir # 0 => cand.ref \in Mids
  <1> DEFINE Candidates == {c \in [dir : {-1, 0, 1}, ref : Mids \cup {0}, steps : 0 .. Confirm, age : Ages] :
                              (c.dir = 0 => c = NoMove) /\ (c.dir # 0 => c.ref \in Mids)}
             kept == IF pend.dir # 0 /\ pend.age > Window THEN NoMove ELSE pend
             on   == [kept EXCEPT !.steps = Lower(@ + 1, Confirm)]
             step == mid - last
             big   == 4 * Distance(mid, last) >= eff
             dir   == IF (IF big THEN step ELSE mid - windowRef) > 0 THEN 1 ELSE -1
             new  == [dir |-> dir, ref |-> IF big THEN last ELSE windowRef, steps |-> 1, age |-> 0]
  <1>1. NoMove \in Candidates
    BY GuardAssumption DEF NoMove, Ages
  <1>2. pend \in Candidates
    BY DEF MoveTypes
  <1>3. kept \in Candidates
    BY <1>1, <1>2
  <1>4. new \in Candidates /\ dir # 0
    <2>1. dir \in {-1, 1}
      OBVIOUS
    <2>2. (IF big THEN last ELSE windowRef) \in Mids
      OBVIOUS
    <2>3. 1 \in 0 .. Confirm /\ 0 \in Ages
      BY GuardAssumption DEF Ages
    <2> HIDE DEF dir, big
    <2> QED BY <2>1, <2>2, <2>3
  <1>5. ASSUME kept.dir # 0 PROVE on \in Candidates
    <2> HIDE DEF kept
    <2>1. Lower(kept.steps + 1, Confirm) \in 0 .. Confirm
      BY <1>3, GuardAssumption DEF Lower
    <2>2. on = [dir |-> kept.dir, ref |-> kept.ref, steps |-> Lower(kept.steps + 1, Confirm), age |-> kept.age]
      BY <1>3
    <2> QED BY <1>3, <1>5, <2>1, <2>2
  <1>6. Pending(mid, step, last, windowRef, eff) =
          IF 4 * Higher(Distance(mid, last), Distance(mid, windowRef)) >= eff
          THEN IF dir = kept.dir THEN on ELSE new
          ELSE IF kept.dir # 0 /\ step * kept.dir > 0 THEN on
          ELSE IF kept.dir # 0 /\ step * kept.dir < 0 /\ 4 * Distance(mid, kept.ref) < eff THEN NoMove
          ELSE kept
    BY DEF Pending
  <1> HIDE DEF kept, on, new, dir, Candidates
  <1>7. Pending(mid, step, last, windowRef, eff) \in Candidates
    <2>1. CASE 4 * Higher(Distance(mid, last), Distance(mid, windowRef)) >= eff
      BY <1>4, <1>5, <1>6, <2>1
    <2>2. CASE ~(4 * Higher(Distance(mid, last), Distance(mid, windowRef)) >= eff)
      BY <1>1, <1>3, <1>5, <1>6, <2>2
    <2> QED BY <2>1, <2>2
  <1> QED BY <1>7 DEF Candidates

\* A trip starts a cool-off or extends it, and sets a context only in the first case.
LEMMA TripKeeps ==
  ASSUME TripTypes, NEW ref \in Mids, NEW eff \in 4 * Threshold .. 8 * Threshold,
         Trip(ref, eff), UNCHANGED latched
  PROVE  left' = Cooloff /\ TripTypes'
  <1>1. CASE left > 0
    BY <1>1 DEF Trip, TripTypes
  <1>2. CASE ~(left > 0)
    <2>1. left' = Cooloff /\ trip' = [ref |-> ref, eff |-> eff]
      BY <1>2 DEF Trip
    <2>2. [ref |-> ref, eff |-> eff] \in Context
      BY DEF Context
    <2> QED BY <2>1, <2>2 DEF TripTypes
  <1> QED BY <1>1, <1>2

\* What an update leads to: a trip, or a candidate that is not confirmed.
LEMMA UpdateOutcomes ==
  ASSUME DequeTypes, DequeInv, MoveTypes, NEW mid \in Mids, NEW spread \in Spreads, Update(mid, spread)
  PROVE  LET last == IF hist = <<>> THEN mid ELSE Last(hist).mid IN
         \/ /\ \E ref \in Mids, eff \in 4 * Threshold .. 8 * Threshold : Trip(ref, eff)
            /\ pend' = NoMove
         \/ /\ ~(Distance(mid, last) >= 2 * Threshold)
            /\ pend' \in [dir : {-1, 0, 1}, ref : Mids \cup {0}, steps : 0 .. Confirm, age : Ages]
            /\ pend'.dir = 0 => pend' = NoMove
            /\ pend'.dir # 0 => pend'.ref \in Mids
            /\ UNCHANGED <<left, trip>>
  <1> DEFINE eff  == EffectiveThreshold
             last == IF hist = <<>> THEN mid ELSE Last(hist).mid
             old  == Head(Append(Live(hist), [age |-> 0, mid |-> mid, spread |-> spread])).mid
             cand == Pending(mid, mid - last, last, old, eff)
             big  == Distance(mid, last) >= 2 * Threshold
  <1>1. eff \in 4 * Threshold .. 8 * Threshold /\ eff \in Nat /\ last \in Mids /\ old \in Mids
    BY EffectiveRange, References, GuardAssumption
  <1>2. /\ cand \in [dir : {-1, 0, 1}, ref : Mids \cup {0}, steps : 0 .. Confirm, age : Ages]
        /\ cand.dir = 0 => cand = NoMove
        /\ cand.dir # 0 => cand.ref \in Mids
    <2> HIDE DEF eff, last, old
    <2> QED BY <1>1, PendingTypes
  <1>3. IF Shock(mid, last, old, eff)
        THEN Trip(IF big THEN last ELSE old, eff) /\ pend' = NoMove
        ELSE IF cand.steps >= Confirm /\ 4 * Distance(mid, cand.ref) >= eff
        THEN Trip(cand.ref, eff) /\ pend' = NoMove
        ELSE pend' = cand /\ UNCHANGED <<left, trip>>
    BY DEF Update
  <1>4. ~Shock(mid, last, old, eff) => ~big
    BY DEF Shock
  <1>5. cand.steps >= Confirm => cand.ref \in Mids
    BY <1>2, GuardAssumption DEF NoMove
  <1>6. (IF big THEN last ELSE old) \in Mids
    BY <1>1
  <1> HIDE DEF eff, last, old, cand, big
  <1>7. CASE Shock(mid, last, old, eff)
    BY <1>1, <1>3, <1>6, <1>7
  <1>8. CASE ~Shock(mid, last, old, eff) /\ cand.steps >= Confirm /\ 4 * Distance(mid, cand.ref) >= eff
    BY <1>1, <1>3, <1>5, <1>8
  <1>9. CASE ~Shock(mid, last, old, eff) /\ ~(cand.steps >= Confirm /\ 4 * Distance(mid, cand.ref) >= eff)
    <2>1. pend' = cand /\ UNCHANGED <<left, trip>> /\ ~big
      BY <1>3, <1>4, <1>9
    <2> QED BY <2>1, <1>2 DEF big, last
  <1> QED BY <1>7, <1>8, <1>9

LEMMA UpdateMoves ==
  ASSUME DequeTypes, DequeInv, MoveTypes, TripTypes,
         NEW mid \in Mids, NEW spread \in Spreads, Update(mid, spread)
  PROVE  MoveTypes' /\ TripTypes'
  <1> USE DEF MoveTypes
  <1>0. UNCHANGED latched
    BY DEF Update, worker
  <1>1. CASE (\E ref \in Mids, eff \in 4 * Threshold .. 8 * Threshold : Trip(ref, eff)) /\ pend' = NoMove
    <2>1. left' = Cooloff /\ TripTypes'
      BY <1>0, <1>1, TripKeeps
    <2>2. NoMove \in [dir : {-1, 0, 1}, ref : Mids \cup {0}, steps : 0 .. Confirm, age : Ages]
          /\ NoMove.dir = 0
      BY GuardAssumption DEF NoMove, Ages
    <2> QED BY <1>1, <2>1, <2>2, GuardAssumption
  <1>2. CASE /\ pend' \in [dir : {-1, 0, 1}, ref : Mids \cup {0}, steps : 0 .. Confirm, age : Ages]
             /\ pend'.dir = 0 => pend' = NoMove
             /\ pend'.dir # 0 => pend'.ref \in Mids
             /\ UNCHANGED <<left, trip>>
    BY <1>0, <1>2 DEF TripTypes
  <1> QED BY <1>1, <1>2, UpdateOutcomes

LEMMA UpdateGaps ==
  ASSUME DequeTypes, DequeInv, MoveTypes, TripTypes, GapsCovered,
         NEW mid \in Mids, NEW spread \in Spreads, Update(mid, spread)
  PROVE  GapsCovered'
  <1> DEFINE last == IF hist = <<>> THEN mid ELSE Last(hist).mid
             g    == [age |-> 0, mid |-> mid, spread |-> spread]
  <1>0. UNCHANGED latched
    BY DEF Update, worker
  <1>1. hist' \in Seq(HistEntry)
    BY UpdateDeques DEF DequeTypes
  <1>2. CASE \E ref \in Mids, eff \in 4 * Threshold .. 8 * Threshold : Trip(ref, eff)
    <2>1. left' = Cooloff
      BY <1>0, <1>2, TripKeeps
    <2>2. ASSUME NEW i \in DOMAIN hist' PROVE left' >= Cooloff - hist'[i].age
      <3>1. hist'[i] \in HistEntry
        BY <1>1
      <3> QED BY <2>1, <3>1, EntryFields, GuardAssumption
    <2> QED BY <2>2 DEF GapsCovered
  <1>3. CASE ~(Distance(mid, last) >= 2 * Threshold) /\ UNCHANGED left
    <2>1. PICK k \in 0 .. Len(hist) :
            /\ Live(hist) \in Seq(HistEntry) /\ Len(Live(hist)) = Len(hist) - k
            /\ \A i \in 1 .. Len(hist) - k :
                 Live(hist)[i] = hist[i + k] /\ Live(hist)[i].age <= Window
            /\ \A i \in 1 .. k : hist[i].age > Window
      <3>1. hist \in Seq(HistEntry) /\ Aged(hist) /\ \A e \in HistEntry : e.age \in Nat
        BY EntryFields DEF DequeTypes, DequeInv
      <3> QED BY <3>1, LiveIs
    <2>2. g \in HistEntry /\ g.mid = mid
      BY GuardAssumption DEF HistEntry, Ages
    <2>3. hist' = Append(Live(hist), g)
      BY DEF Update
    <2> HIDE DEF g
    <2> DEFINE n == Len(hist) - k
    <2>4. /\ n \in Nat /\ DOMAIN hist' = 1 .. n + 1 /\ hist'[n + 1] = g
          /\ \A i \in 1 .. n : hist'[i] = hist[i + k]
      BY <2>1, <2>2, <2>3
    <2>5. ASSUME NEW i \in DOMAIN hist' \ {1}, Gap(hist, i)', hist'[i].age <= Window
          PROVE  left' >= Cooloff - hist'[i].age
      <3>1. CASE i = n + 1
        <4>1. i - 1 \in 1 .. n /\ (i - 1) + k = Len(hist) /\ Len(hist) \in 1 .. Len(hist)
          BY <2>4, <2>5, <3>1
        <4>2. hist'[i - 1] = hist[Len(hist)] /\ hist # <<>>
          BY <2>4, <4>1
        <4>3. hist'[i - 1].mid = last
          BY <4>2 DEF Last
        <4> QED BY <4>3, <1>3, <2>2, <2>4, <2>5, <3>1 DEF Gap
      <3>2. CASE i # n + 1
        <4>1. /\ i \in 1 .. n /\ i - 1 \in 1 .. n /\ (i - 1) + k = (i + k) - 1
              /\ i + k \in DOMAIN hist \ {1}
          BY <2>4, <2>5, <3>2
        <4>2. hist'[i] = hist[i + k] /\ hist'[i - 1] = hist[(i + k) - 1]
          BY <2>4, <4>1
        <4>3. Gap(hist, i + k) /\ hist[i + k].age <= Window
          BY <4>2, <2>5 DEF Gap
        <4>4. left >= Cooloff - hist[i + k].age
          BY <4>1, <4>3 DEF GapsCovered
        <4> QED BY <4>2, <4>4, <1>3
      <3> QED BY <3>1, <3>2
    <2> QED BY <2>5 DEF GapsCovered, Gap
  <1> QED BY <1>2, <1>3, UpdateOutcomes

LEMMA UpdateKeeps ==
  ASSUME GuardInv, NEW mid \in Mids, NEW spread \in Spreads, Update(mid, spread)
  PROVE  GuardInv'
  <1>1. DequeTypes' /\ DequeInv'
    BY UpdateDeques DEF GuardInv
  <1>2. MoveTypes' /\ TripTypes'
    BY UpdateMoves DEF GuardInv
  <1>3. GapsCovered'
    BY UpdateGaps DEF GuardInv
  <1>4. CountTypes'
    <2>1. UNCHANGED <<trips, evicted, winding>>
      BY DEF Update, worker
    <2> QED BY <2>1 DEF GuardInv, CountTypes
  <1> QED BY <1>1, <1>2, <1>3, <1>4 DEF GuardInv

-----------------------------------------------------------------------------
(* Time, and the worker.                                                   *)

LEMMA OlderIs ==
  ASSUME NEW a \in Ages, NEW b \in Ages
  PROVE  /\ Older(a) \in Ages /\ a <= Older(a) /\ Older(a) <= a + 1
         /\ Older(a) <= Window => Older(a) = a + 1
         /\ b <= a => Older(b) <= Older(a)
  BY GuardAssumption DEF Older, Lower, Ages

LEMMA TickKeeps ==
  ASSUME GuardInv, Tick
  PROVE  GuardInv'
  <1>1. /\ hist' = [i \in DOMAIN hist |-> [hist[i] EXCEPT !.age = Older(@)]]
        /\ spreadMin' = [i \in DOMAIN spreadMin |-> [spreadMin[i] EXCEPT !.age = Older(@)]]
        /\ pend' = IF pend.dir = 0 THEN pend ELSE [pend EXCEPT !.age = Older(@)]
        /\ left' = Higher(left - 1, 0)
        /\ UNCHANGED <<trip, latched, trips, evicted, winding>>
    BY DEF Tick, worker
  <1>2. hist \in Seq(HistEntry) /\ spreadMin \in Seq(SpreadEntry) /\ Len(hist) <= MaxUpdates
    BY DEF GuardInv, DequeTypes
  <1>3. /\ hist' \in Seq(HistEntry) /\ DOMAIN hist' = DOMAIN hist /\ Len(hist') = Len(hist)
        /\ \A i \in DOMAIN hist : /\ hist'[i].age = Older(hist[i].age) /\ hist[i].age \in Ages
                                  /\ hist'[i].mid = hist[i].mid /\ hist'[i].spread = hist[i].spread
    <2>1. ASSUME NEW e \in HistEntry
          PROVE  /\ [e EXCEPT !.age = Older(@)] \in HistEntry /\ e.age \in Ages
                 /\ [e EXCEPT !.age = Older(@)].age = Older(e.age)
                 /\ [e EXCEPT !.age = Older(@)].mid = e.mid
                 /\ [e EXCEPT !.age = Older(@)].spread = e.spread
      <3>1. e.age \in Ages /\ Older(e.age) \in Ages
        BY OlderIs DEF HistEntry
      <3> QED BY <3>1 DEF HistEntry
    <2>2. DOMAIN hist = 1 .. Len(hist) /\ Len(hist) \in Nat /\ \A i \in 1 .. Len(hist) : hist[i] \in HistEntry
      BY <1>2
    <2> DEFINE aged(e) == [e EXCEPT !.age = Older(@)]
    <2>3. hist' = [i \in 1 .. Len(hist) |-> aged(hist[i])]
      BY <1>1, <2>2
    <2>4. \A e \in HistEntry : aged(e) \in HistEntry
      BY <2>1
    <2> HIDE DEF aged
    <2>5. hist' \in Seq(HistEntry) /\ DOMAIN hist' = 1 .. Len(hist) /\ Len(hist') = Len(hist)
      BY <2>2, <2>3, <2>4
    <2>6. \A i \in 1 .. Len(hist) : hist'[i] = aged(hist[i])
      BY <2>3
    <2> QED BY <2>1, <2>2, <2>5, <2>6 DEF aged
  <1>4. /\ spreadMin' \in Seq(SpreadEntry) /\ DOMAIN spreadMin' = DOMAIN spreadMin
        /\ \A i \in DOMAIN spreadMin : /\ spreadMin'[i].age = Older(spreadMin[i].age)
                                       /\ spreadMin[i].age \in Ages
                                       /\ spreadMin'[i].spread = spreadMin[i].spread
    <2>1. ASSUME NEW e \in SpreadEntry
          PROVE  /\ [e EXCEPT !.age = Older(@)] \in SpreadEntry /\ e.age \in Ages
                 /\ [e EXCEPT !.age = Older(@)].age = Older(e.age)
                 /\ [e EXCEPT !.age = Older(@)].spread = e.spread
      <3>1. e.age \in Ages /\ Older(e.age) \in Ages
        BY OlderIs DEF SpreadEntry
      <3> QED BY <3>1 DEF SpreadEntry
    <2>2. DOMAIN spreadMin = 1 .. Len(spreadMin) /\ Len(spreadMin) \in Nat /\ \A i \in 1 .. Len(spreadMin) : spreadMin[i] \in SpreadEntry
      BY <1>2
    <2> DEFINE aged(e) == [e EXCEPT !.age = Older(@)]
    <2>3. spreadMin' = [i \in 1 .. Len(spreadMin) |-> aged(spreadMin[i])]
      BY <1>1, <2>2
    <2>4. \A e \in SpreadEntry : aged(e) \in SpreadEntry
      BY <2>1
    <2> HIDE DEF aged
    <2>5. spreadMin' \in Seq(SpreadEntry) /\ DOMAIN spreadMin' = 1 .. Len(spreadMin) /\ Len(spreadMin') = Len(spreadMin)
      BY <2>2, <2>3, <2>4
    <2>6. \A i \in 1 .. Len(spreadMin) : spreadMin'[i] = aged(spreadMin[i])
      BY <2>3
    <2> QED BY <2>1, <2>2, <2>5, <2>6 DEF aged
  <1>5. DequeTypes'
    BY <1>2, <1>3, <1>4 DEF DequeTypes
  <1>6. DequeInv'
    <2>1. Aged(hist)'
      BY <1>3, OlderIs DEF Aged, GuardInv, DequeInv
    <2>2. Aged(spreadMin)'
      BY <1>4, OlderIs DEF Aged, GuardInv, DequeInv
    <2>3. Rising(spreadMin)'
      BY <1>4 DEF Rising, GuardInv, DequeInv
    <2>4. ASSUME NEW i \in DOMAIN spreadMin
          PROVE  \E k \in DOMAIN hist : hist'[k].age = spreadMin'[i].age /\ hist'[k].spread = spreadMin'[i].spread
      <3>1. PICK k \in DOMAIN hist : hist[k].age = spreadMin[i].age /\ hist[k].spread = spreadMin[i].spread
        BY DEF GuardInv, DequeInv, Covers
      <3> QED BY <3>1, <1>3, <1>4
    <2>5. ASSUME NEW k \in DOMAIN hist
          PROVE  \E i \in DOMAIN spreadMin :
                   spreadMin'[i].age <= hist'[k].age /\ spreadMin'[i].spread <= hist'[k].spread
      <3>1. PICK i \in DOMAIN spreadMin :
              spreadMin[i].age <= hist[k].age /\ spreadMin[i].spread <= hist[k].spread
        BY DEF GuardInv, DequeInv, Covers
      <3> QED BY <3>1, <1>3, <1>4, OlderIs
    <2>6. Covers(spreadMin, hist)'
      BY <2>4, <2>5, <1>3, <1>4 DEF Covers
    <2> QED BY <2>1, <2>2, <2>3, <2>6 DEF DequeInv
  <1>7. MoveTypes'
    <2>1. left' \in 0 .. Cooloff
      BY <1>1, GuardAssumption DEF GuardInv, MoveTypes, Higher
    <2>2. CASE pend.dir = 0
      BY <1>1, <2>1, <2>2 DEF GuardInv, MoveTypes
    <2>3. CASE pend.dir # 0
      <3>1. pend.age \in Ages /\ Older(pend.age) \in Ages
        BY OlderIs DEF GuardInv, MoveTypes
      <3> QED BY <1>1, <2>1, <2>3, <3>1 DEF GuardInv, MoveTypes
    <2> QED BY <2>2, <2>3
  <1>8. TripTypes' /\ CountTypes'
    BY <1>1 DEF GuardInv, TripTypes, CountTypes
  <1>9. GapsCovered'
    <2>1. ASSUME NEW i \in DOMAIN hist \ {1}, Gap(hist, i)', hist'[i].age <= Window
          PROVE  left' >= Cooloff - hist'[i].age
      <3>1. i \in DOMAIN hist /\ i - 1 \in DOMAIN hist
        BY <1>2
      <3>2. hist[i].age \in Ages /\ hist'[i].age = hist[i].age + 1 /\ hist[i].age <= Window
        BY <3>1, <1>3, <2>1, OlderIs, GuardAssumption DEF Ages
      <3>3. Gap(hist, i)
        BY <3>1, <1>3, <2>1 DEF Gap
      <3>4. left >= Cooloff - hist[i].age
        BY <3>2, <3>3 DEF GuardInv, GapsCovered
      <3>5. left \in Nat
        BY DEF GuardInv, MoveTypes
      <3> QED BY <3>2, <3>4, <3>5, <1>1, GuardAssumption DEF Higher, Ages
    <2> QED BY <2>1, <1>3 DEF GapsCovered, Gap
  <1> QED BY <1>5, <1>6, <1>7, <1>8, <1>9 DEF GuardInv

\* What a pass of the worker leads to: the episode is scored, or only carried over.
LEMMA RequoteOutcomes ==
  ASSUME GuardInv, Requote
  PROVE  /\ UNCHANGED guard /\ trip' = None /\ winding' \in BOOLEAN
         /\ \/ /\ left = 0 /\ Seen # None /\ latched' = None
               /\ trips' \in {trips, trips + 1} /\ trips' \in 0 .. EvictTrips
               /\ evicted' = (trips' = EvictTrips)
            \/ latched' = Seen /\ UNCHANGED <<trips, evicted>>
  <1>1. UNCHANGED guard /\ trip' = None
    BY DEF Requote
  <1>2. trips \in 0 .. EvictTrips /\ EvictTrips \in Nat /\ winding \in BOOLEAN
    BY GuardAssumption DEF GuardInv, CountTypes
  <1>3. CASE left = 0 /\ Seen # None
    <2> DEFINE counts == Stuck(Seen) /\ trips < EvictTrips
    <2>1. /\ latched' = None /\ trips' = IF counts THEN trips + 1 ELSE trips
          /\ evicted' = (trips' = EvictTrips)
          /\ UNCHANGED winding \/ winding' \in BOOLEAN
      BY <1>3 DEF Requote, Resolved
    <2>2. counts => trips < EvictTrips
      OBVIOUS
    <2> HIDE DEF counts
    <2>3. trips' \in {trips, trips + 1} /\ trips' \in 0 .. EvictTrips
      BY <1>2, <2>1, <2>2
    <2> QED BY <1>1, <1>2, <1>3, <2>1, <2>3
  <1>4. CASE ~(left = 0 /\ Seen # None)
    <2>1. latched' = Seen /\ UNCHANGED <<trips, evicted, winding>>
      BY <1>4 DEF Requote
    <2> QED BY <1>1, <1>2, <2>1
  <1> QED BY <1>3, <1>4

LEMMA RequoteKeeps ==
  ASSUME GuardInv, Requote
  PROVE  GuardInv'
  <1>1. Seen \in Context \cup {None}
    BY DEF Seen, GuardInv, TripTypes
  <1>2. TripTypes'
    BY <1>1, RequoteOutcomes DEF TripTypes
  <1>3. CountTypes'
    <2>1. (evicted' = (trips' = EvictTrips)) => evicted' \in BOOLEAN
      <3> DEFINE full == trips' = EvictTrips
      <3>1. full \in BOOLEAN
        OBVIOUS
      <3> HIDE DEF full
      <3>2. evicted' = full => evicted' \in BOOLEAN
        BY <3>1, Zenon
      <3> QED BY <3>2, Zenon DEF full
    <2>2. trips' \in 0 .. EvictTrips /\ evicted' \in BOOLEAN /\ winding' \in BOOLEAN
      BY <2>1, RequoteOutcomes, Zenon DEF GuardInv, CountTypes
    <2> QED BY <2>2 DEF CountTypes
  <1>4. DequeTypes' /\ MoveTypes' /\ DequeInv' /\ GapsCovered'
    BY RequoteOutcomes
    DEF guard, GuardInv, DequeTypes, MoveTypes, DequeInv, GapsCovered, Aged, Rising, Covers, Gap
  <1> QED BY <1>2, <1>3, <1>4 DEF GuardInv

-----------------------------------------------------------------------------
(* The theorems.                                                           *)

LEMMA GuardInit == Init => GuardInv
  <1> SUFFICES ASSUME Init PROVE GuardInv
    OBVIOUS
  <1>1. /\ hist = <<>> /\ spreadMin = <<>> /\ left = 0 /\ pend = NoMove /\ trip = None
        /\ latched = None /\ trips = 0 /\ evicted = FALSE /\ winding = FALSE
    BY DEF Init
  <1>2. DequeTypes /\ DequeInv /\ GapsCovered
    BY <1>1, GuardAssumption DEF DequeTypes, DequeInv, Aged, Rising, Covers, GapsCovered
  <1>3. MoveTypes
    BY <1>1, GuardAssumption DEF MoveTypes, NoMove, Ages
  <1>4. TripTypes
    BY <1>1 DEF TripTypes
  <1>5. CountTypes
    <2>1. trips \in 0 .. EvictTrips
      BY <1>1, GuardAssumption
    <2>2. evicted \in BOOLEAN /\ winding \in BOOLEAN
      BY <1>1, Zenon
    <2> QED BY <2>1, <2>2, Zenon DEF CountTypes
  <1> QED BY <1>2, <1>3, <1>4, <1>5 DEF GuardInv

LEMMA GuardStep == GuardInv /\ [Next]_vars => GuardInv'
  <1> SUFFICES ASSUME GuardInv, [Next]_vars PROVE GuardInv'
    OBVIOUS
  <1>1. CASE \E mid \in Mids, spread \in Spreads : Update(mid, spread)
    BY <1>1, UpdateKeeps
  <1>2. CASE Tick
    BY <1>2, TickKeeps
  <1>3. CASE Requote
    BY <1>3, RequoteKeeps
  <1>4. CASE UNCHANGED vars
    BY <1>4 DEF vars, guard, worker, GuardInv, DequeTypes, MoveTypes, TripTypes, CountTypes,
      DequeInv, Aged, Rising, Covers, GapsCovered, Gap
  <1> QED BY <1>1, <1>2, <1>3, <1>4 DEF Next

LEMMA GuardInvariant == Spec => []GuardInv
  BY GuardInit, GuardStep, PTL DEF Spec

\* The state keeps its types, and the deque stays within the bound on the window's updates.
THEOREM GuardTypesKept == Spec => []TypeOK
  <1>1. GuardInv => TypeOK
    <2> SUFFICES ASSUME GuardInv PROVE TypeOK
      OBVIOUS
    <2>1. /\ hist \in Seq([age : 0 .. Window + 1, mid : Mids, spread : Spreads])
          /\ spreadMin \in Seq([age : 0 .. Window + 1, spread : Spreads])
          /\ Len(hist) <= MaxUpdates
      BY DEF GuardInv, DequeTypes, HistEntry, SpreadEntry, Ages
    <2>2. Len(spreadMin) <= Len(hist)
      BY CoversLength DEF GuardInv, DequeTypes, DequeInv
    <2>3. Len(spreadMin) <= MaxUpdates
      BY <2>1, <2>2, GuardAssumption
    <2>4. /\ left \in 0 .. Cooloff
          /\ pend \in [dir : {-1, 0, 1}, ref : Mids \cup {0}, steps : 0 .. Confirm, age : 0 .. Window + 1]
      BY DEF GuardInv, MoveTypes, Ages
    <2> QED BY <2>1, <2>3, <2>4 DEF TypeOK, GuardInv, TripTypes, CountTypes
  <1> QED BY <1>1, GuardInvariant, PTL

\* The threshold read off the deque is the one a scan of the window gives.
\* (_effective_threshold, _push_spread)
THEOREM ThresholdExact == Spec => []SpreadMinExact
  <1>1. GuardInv => SpreadMinExact
    <2> SUFFICES ASSUME GuardInv PROVE SpreadMinExact
      OBVIOUS
    <2> DEFINE d == Live(spreadMin)  h == Live(hist)
               spreads == {h[i].spread : i \in DOMAIN h}
               least == CHOOSE s \in spreads : \A other \in spreads : s <= other
    <2>1. d \in Seq(SpreadEntry) /\ h \in Seq(HistEntry) /\ Rising(d) /\ Covers(d, h)
      BY LiveFacts DEF GuardInv
    <2>2. EffectiveThreshold = IF d = <<>> THEN 4 * Threshold ELSE ScaledBy(Head(d).spread)
      BY DEF EffectiveThreshold
    <2> HIDE DEF d, h
    <2>3. /\ d = <<>> <=> spreads = {}
          /\ d # <<>> => Head(d).spread \in spreads /\ \A other \in spreads : Head(d).spread <= other
      BY <2>1, FrontIsLeast
    <2>4. \A s \in spreads : s \in Int
      BY <2>1, EntryFields
    <2> HIDE DEF spreads
    <2>5. ASSUME d # <<>> PROVE least = Head(d).spread
      <3>1. least \in spreads /\ \A other \in spreads : least <= other
        BY <2>3, <2>5
      <3> HIDE DEF least
      <3> QED BY <2>3, <2>4, <2>5, <3>1
    <2>6. EffectiveThreshold = IF spreads = {} THEN 4 * Threshold ELSE ScaledBy(least)
      BY <2>2, <2>3, <2>5
    <2> QED BY <2>6 DEF SpreadMinExact, spreads, h
  <1> QED BY <1>1, GuardInvariant, PTL

\* A gap of twice the base threshold finds the guard blocking for as long as it is in the
\* window.  (update, _trip)
THEOREM GapsAlwaysBlock == Spec => []GapBlocks
  <1>1. GuardInv => GapBlocks
    <2> SUFFICES ASSUME GuardInv, NEW i \in DOMAIN Live(hist) \ {1}, Gap(Live(hist), i)
                 PROVE  left > 0
      BY DEF GapBlocks, Gap
    <2>1. hist \in Seq(HistEntry) /\ Aged(hist) /\ \A e \in HistEntry : e.age \in Nat
      BY EntryFields DEF GuardInv, DequeTypes, DequeInv
    <2>2. PICK k \in 0 .. Len(hist) :
            /\ Live(hist) \in Seq(HistEntry) /\ Len(Live(hist)) = Len(hist) - k
            /\ \A j \in 1 .. Len(hist) - k :
                 Live(hist)[j] = hist[j + k] /\ Live(hist)[j].age <= Window
            /\ \A j \in 1 .. k : hist[j].age > Window
      BY <2>1, LiveIs
    <2>3. /\ i \in 1 .. Len(hist) - k /\ i - 1 \in 1 .. Len(hist) - k
          /\ i + k \in DOMAIN hist \ {1} /\ (i - 1) + k = (i + k) - 1
      BY <2>1, <2>2
    <2>4. Live(hist)[i] = hist[i + k] /\ Live(hist)[i - 1] = hist[(i + k) - 1] /\ hist[i + k].age <= Window
      BY <2>2, <2>3
    <2>5. left >= Cooloff - hist[i + k].age
      BY <2>3, <2>4 DEF Gap, GuardInv, GapsCovered
    <2>6. hist[i + k].age \in Nat /\ left \in Nat
      BY <2>1, <2>3 DEF GuardInv, MoveTypes
    <2> QED BY <2>4, <2>5, <2>6, GuardAssumption
  <1> QED BY <1>1, GuardInvariant, PTL

\* An update opens the breaker, or is not seen by it.
LEMMA UpdateOpens ==
  ASSUME GuardInv, NEW mid \in Mids, NEW spread \in Spreads, Update(mid, spread)
  PROVE  /\ UNCHANGED <<trips, evicted>>
         /\ \/ left = 0 /\ left' > 0 /\ Seen' \in Context
            \/ (left' > 0 <=> left > 0) /\ Seen' = Seen
  <1>1. UNCHANGED <<latched, trips, evicted>>
    BY DEF Update, worker
  <1>2. Cooloff > 0 /\ left \in Nat
    BY GuardAssumption DEF GuardInv, MoveTypes
  <1>3. CASE \E ref \in Mids, eff \in 4 * Threshold .. 8 * Threshold : Trip(ref, eff)
    <2>1. PICK ref \in Mids, eff \in 4 * Threshold .. 8 * Threshold : Trip(ref, eff)
      BY <1>3
    <2>2. left' > 0
      BY <1>2, <2>1 DEF Trip
    <2>3. CASE left > 0
      BY <1>1, <2>1, <2>2, <2>3 DEF Trip, Seen
    <2>4. CASE left = 0
      <3>1. trip' = [ref |-> ref, eff |-> eff] /\ [ref |-> ref, eff |-> eff] \in Context
        BY <2>1, <2>4 DEF Trip, Context
      <3>2. Seen' \in Context
        BY <1>1, <3>1 DEF Seen, GuardInv, TripTypes
      <3> QED BY <1>1, <2>2, <2>4, <3>2
    <2> QED BY <1>2, <2>3, <2>4
  <1>4. CASE UNCHANGED <<left, trip>>
    BY <1>1, <1>4 DEF Seen
  <1> QED BY <1>3, <1>4, UpdateOutcomes DEF GuardInv

\* Guard and worker implement the breaker: an update opens it or is not seen by it, time
\* closes it, a pass of the worker scores what is closed or is not seen by it.
\* (_trip, _requote, _resolve_guard_trip)
THEOREM BreakerImplemented == Spec => ActsAsBreaker
  <1>1. Init => AsBreaker!Init
    <2> SUFFICES ASSUME Init PROVE AsBreaker!Init
      OBVIOUS
    <2>1. left = 0 /\ Seen = None /\ trips = 0 /\ evicted = FALSE
      BY DEF Init, Seen
    <2>2. (left > 0) = FALSE
      BY <2>1
    <2> QED BY <2>1, <2>2, Zenon DEF AsBreaker!Init
  <1>2. GuardInv /\ [Next]_vars => [AsBreaker!Next]_<<left > 0, Seen, trips, evicted>>
    <2> SUFFICES ASSUME GuardInv, [Next]_vars
                 PROVE  AsBreaker!Next \/ UNCHANGED <<left > 0, Seen, trips, evicted>>
      OBVIOUS
    <2>1. ASSUME NEW mid \in Mids, NEW spread \in Spreads, Update(mid, spread)
          PROVE  AsBreaker!Opens \/ UNCHANGED <<left > 0, Seen, trips, evicted>>
      <3>1. CASE left = 0 /\ left' > 0 /\ Seen' \in Context /\ UNCHANGED <<trips, evicted>>
        <4>1. ~(left > 0) /\ (left' > 0) = TRUE
          BY <3>1
        <4> QED BY <3>1, <4>1, Zenon DEF AsBreaker!Opens
      <3>2. CASE (left' > 0 <=> left > 0) /\ Seen' = Seen /\ UNCHANGED <<trips, evicted>>
        BY <3>2
      <3> QED BY <2>1, <3>1, <3>2, UpdateOpens
    <2>2. CASE Tick
      <3>1. left' = Higher(left - 1, 0) /\ UNCHANGED <<Seen, trips, evicted>> /\ left \in Nat
        BY <2>2 DEF Tick, worker, Seen, GuardInv, MoveTypes
      <3>2. CASE left' > 0 <=> left > 0
        BY <3>1, <3>2
      <3>3. CASE ~(left' > 0 <=> left > 0)
        <4>1. left > 0 /\ (left' > 0) = FALSE
          BY <3>1, <3>3 DEF Higher
        <4> QED BY <3>1, <4>1, Zenon DEF AsBreaker!Next, AsBreaker!Closes
      <3> QED BY <3>2, <3>3
    <2>3. CASE Requote
      <3>1. left' = left /\ trip' = None
        BY <2>3, RequoteOutcomes DEF guard
      <3>2. CASE /\ left = 0 /\ Seen # None /\ latched' = None
                 /\ trips' \in {trips, trips + 1} /\ trips' \in 0 .. EvictTrips
                 /\ evicted' = (trips' = EvictTrips)
        <4>1. /\ ~(left > 0) /\ (left' > 0) = (left > 0) /\ trips' <= EvictTrips
          BY <3>1, <3>2, GuardAssumption
        <4>2. Seen' = None
          BY <3>1, <3>2 DEF Seen
        <4> QED BY <3>2, <4>1, <4>2, Zenon DEF AsBreaker!Next, AsBreaker!Score
      <3>3. CASE latched' = Seen /\ UNCHANGED <<trips, evicted>>
        BY <3>1, <3>3 DEF Seen
      <3> QED BY <2>3, <3>2, <3>3, RequoteOutcomes
    <2>4. CASE UNCHANGED vars
      BY <2>4 DEF vars, guard, worker, Seen
    <2> QED BY <2>1, <2>2, <2>3, <2>4 DEF Next, AsBreaker!Next
  <1> QED BY <1>1, <1>2, GuardInvariant, PTL DEF Spec, ActsAsBreaker, AsBreaker!Spec
=============================================================================
