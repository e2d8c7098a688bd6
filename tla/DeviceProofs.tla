---------------------------- MODULE DeviceProofs ----------------------------
(***************************************************************************)
(* The parts of the device around its transport.                           *)
(*                                                                         *)
(* AppService: what the interrupts put into the receiver's ring reaches    *)
(* the AT client as the modem sent it, and power cycles keep their         *)
(* distance, for any ring, counters, spans, tick and cooldown.             *)
(*                                                                         *)
(* BootState: the Boot State store keeps a loadable record through every   *)
(* Flash error and every power loss, for any number of words, records and  *)
(* saves.                                                                  *)
(*                                                                         *)
(* OtaStaging: the two files the App keeps in the modem, the CA file and   *)
(* the stable slot, are whole from the moment the App relies on them, for  *)
(* any number of probes and of chunks, as long as no more than Probes + 1  *)
(* commands are unanswered.                                                *)
(***************************************************************************)
EXTENDS AppService, BootState, OtaStaging, TLAPS

-----------------------------------------------------------------------------
(* AppService.                                                             *)

(* Counting modulo a number.                                               *)
LEMMA Division ==
    ASSUME NEW m \in Nat \ {0}, NEW a \in Int
    PROVE  a % m \in 0..m - 1 /\ a \div m \in Int /\ a = ((a \div m) * m) + (a % m)
OBVIOUS

(* A number is a multiple and its remainder.                               *)
LEMMA Quotient ==
    ASSUME NEW m \in Nat \ {0}, NEW a \in Int
    PROVE  \E q \in Int : a = (q * m) + (a % m)
BY Division

(* The remainder of a multiple and a rest is the rest.                     *)
LEMMA Remainder ==
    ASSUME NEW m \in Nat \ {0}, NEW q \in Int, NEW x \in 0..m - 1
    PROVE  ((q * m) + x) % m = x
OBVIOUS

(* Adding a multiple does not change the remainder.                        *)
LEMMA Congruent ==
    ASSUME NEW m \in Nat \ {0}, NEW a \in Int, NEW q \in Int
    PROVE  (a + (q * m)) % m = a % m
<1> DEFINE p == a \div m
           x == a % m
<1>1. x \in 0..m - 1 /\ p \in Int /\ a = (p * m) + x
  BY Division
<1> HIDE DEF p, x
<1>2. a + (q * m) = ((p + q) * m) + x /\ p + q \in Int
  BY <1>1
<1> QED
  BY <1>1, <1>2, Remainder DEF x

(* A remainder taken on the way changes nothing.                           *)
LEMMA SumModulo ==
    ASSUME NEW m \in Nat \ {0}, NEW a \in Int, NEW b \in Int
    PROVE  ((a % m) + b) % m = (a + b) % m
<1> DEFINE p == a \div m
           x == a % m
<1>1. x \in 0..m - 1 /\ p \in Int /\ a = (p * m) + x
  BY Division
<1> HIDE DEF p, x
<1>2. a + b = (x + b) + (p * m) /\ x + b \in Int
  BY <1>1
<1> QED
  BY <1>1, <1>2, Congruent DEF x

(* Places of one turn are told apart by their remainder.                   *)
LEMMA SameRemainder ==
    ASSUME NEW m \in Nat \ {0}, NEW h \in Int, NEW j \in 0..m - 1, NEW k \in 0..m - 1,
           (h + j) % m = (h + k) % m
    PROVE  j = k
<1> DEFINE a == h + j
           b == h + k
           x == a % m
<1>0. a \in Int /\ b \in Int /\ a - b = j - k /\ a % m = b % m
  OBVIOUS
<1> HIDE DEF a, b
<1>1. PICK p \in Int : a = (p * m) + x
  BY <1>0, Quotient
<1>2. PICK q \in Int : b = (q * m) + x
  BY <1>0, Quotient
<1>3. x \in Int
  BY <1>0, Division
<1> HIDE DEF x
<1>4. j - k = (p - q) * m
  BY <1>0, <1>1, <1>2, <1>3
<1>5. p - q >= 1 => (p - q) * m >= m
  OBVIOUS
<1>6. q - p >= 1 => (q - p) * m >= m
  OBVIOUS
<1>7. (q - p) * m = 0 - ((p - q) * m)
  OBVIOUS
<1> QED
  BY <1>4, <1>5, <1>6, <1>7

(* The sizes are positive, and the counters hold more than a full ring.    *)
LEMMA Sizes ==
    /\ RingSize \in Nat \ {0} /\ CounterRange \in Nat \ {0} /\ Serials \in Nat \ {0}
    /\ RingSize < CounterRange
BY AppAssumption DEF AppAssumption

(* The ring goes into the counters' range a whole number of times.         *)
Divides == CounterRange % RingSize = 0

(* How often it does.                                                      *)
LEMMA Turns == ASSUME Divides PROVE \E c \in Int : CounterRange = c * RingSize
<1>1. /\ CounterRange \div RingSize \in Int
      /\ CounterRange = ((CounterRange \div RingSize) * RingSize) + (CounterRange % RingSize)
  BY Sizes, Division
<1>2. CounterRange = (CounterRange \div RingSize) * RingSize
  BY <1>1, Sizes DEF Divides
<1> QED
  BY <1>1, <1>2

(* A counter that wrapped still gives its place in the ring.               *)
LEMMA Wrapped ==
    ASSUME Divides, NEW a \in Int, NEW k \in Int
    PROVE  Index((a % CounterRange) + k) = Index(a + k)
<1> DEFINE x == a % CounterRange
           y == x + k
<1>1. PICK c \in Int : CounterRange = c * RingSize
  BY Turns
<1>2. x \in Int
  BY Division, Sizes
<1>3. PICK p \in Int : a = (p * CounterRange) + x
  BY Quotient, Sizes
<1> HIDE DEF x
<1>4. p * CounterRange = (p * c) * RingSize /\ p * c \in Int
  BY <1>1, Sizes
<1>5. y \in Int
  BY <1>2
<1>6. a + k = y + ((p * c) * RingSize)
  <2> DEFINE z == p * CounterRange
  <2>1. z \in Int
    BY Sizes
  <2>2. a = z + x /\ z = (p * c) * RingSize
    BY <1>3, <1>4
  <2> HIDE DEF z
  <2>3. a + k = y + z
    BY <1>2, <2>1, <2>2
  <2> QED
    BY <2>2, <2>3
<1> HIDE DEF y
<1>7. (y + ((p * c) * RingSize)) % RingSize = y % RingSize
  BY <1>4, <1>5, Sizes, Congruent
<1> QED
  BY <1>6, <1>7 DEF Index, x, y

(* Counting on from a byte that was counted on.                            *)
LEMMA AfterAfter ==
    ASSUME NEW n \in Int, NEW j \in Int, NEW k \in Int
    PROVE  /\ After(n, j) \in Serial
           /\ After(After(n, j), k) = After(n, j + k)
<1>1. After(n, j) \in Serial
  BY Sizes, Division DEF After, Serial
<1>2. (((n + j) % Serials) + k) % Serials = ((n + j) + k) % Serials
  <2> DEFINE a == n + j
  <2>1. a \in Int
    OBVIOUS
  <2> HIDE DEF a
  <2>2. ((a % Serials) + k) % Serials = (a + k) % Serials
    BY <2>1, Sizes, SumModulo
  <2> QED
    BY <2>2 DEF a
<1>3. (n + j) + k = n + (j + k)
  OBVIOUS
<1> QED
  BY <1>1, <1>2, <1>3 DEF After

(* No byte further is the same byte.                                       *)
LEMMA AfterNone == ASSUME NEW n \in Serial PROVE n \in Int /\ After(n, 0) = n
<1>1. n \in 0..Serials - 1 /\ n + 0 = n
  BY Sizes DEF Serial
<1>2. n % Serials = n
  BY <1>1, Sizes
<1> QED
  BY <1>1, <1>2 DEF After

-----------------------------------------------------------------------------
Receiver == [head : 0..CounterRange - 1, tail : 0..CounterRange - 1,
             ring : [0..RingSize - 1 -> Serial], restart_requested : BOOLEAN]

(* Index gives the place of each byte between tail and head: the counters  *)
(* wrap where the ring begins anew, or have not wrapped between the two.   *)
Aligned(r) == Divides \/ r.tail <= r.head

(* The bytes in the ring of r follow each other from b on.                 *)
RunOf(r, b) == \A k \in 0..Backlog(r) - 1 : r.ring[Index(r.tail + k)] = After(b, k)

(* The counters of a receiver and its backlog are numbers in range.        *)
LEMMA ReceiverFields ==
    ASSUME NEW r \in Receiver
    PROVE  /\ r.head \in Int /\ r.tail \in Int
           /\ r.ring \in [0..RingSize - 1 -> Serial]
           /\ r.restart_requested \in BOOLEAN
           /\ Backlog(r) \in 0..CounterRange - 1
           /\ \E p \in Int : r.head = r.tail + Backlog(r) + (p * CounterRange)
<1>1. /\ r.head \in Int /\ r.tail \in Int
      /\ r.ring \in [0..RingSize - 1 -> Serial]
      /\ r.restart_requested \in BOOLEAN
  BY Sizes DEF Receiver
<1> DEFINE a == r.head - r.tail
           n == a % CounterRange
<1>2. a \in Int
  BY <1>1
<1> HIDE DEF a
<1>3. n \in 0..CounterRange - 1
  BY <1>2, Sizes, Division
<1>4. PICK p \in Int : a = (p * CounterRange) + n
  BY <1>2, Sizes, Quotient
<1> HIDE DEF n
<1>5. n \in Int /\ p * CounterRange \in Int
  BY <1>3, Sizes
<1>6. r.head = r.tail + n + (p * CounterRange)
  <2> DEFINE z == p * CounterRange
  <2>1. z \in Int /\ a = z + n
    BY <1>4, <1>5
  <2> HIDE DEF z
  <2>2. r.head = r.tail + n + z
    BY <1>1, <1>5, <2>1 DEF a
  <2> QED
    BY <2>2 DEF z
<1> QED
  BY <1>1, <1>3, <1>6 DEF Backlog, n, a

(* Counters that have not wrapped differ by the backlog.                   *)
LEMMA BacklogUnwrapped ==
    ASSUME NEW r \in Receiver, r.tail <= r.head
    PROVE  r.head = r.tail + Backlog(r)
<1> DEFINE n == r.head - r.tail
<1>1. r.head \in 0..CounterRange - 1 /\ r.tail \in 0..CounterRange - 1
  BY DEF Receiver
<1>2. n \in 0..CounterRange - 1 /\ r.head = r.tail + n
  BY <1>1, Sizes
<1> HIDE DEF n
<1>3. n % CounterRange = n
  BY <1>2, Sizes
<1> QED
  BY <1>2, <1>3 DEF Backlog, n

(* The slot of the byte behind the last one, counted from head or tail.    *)
LEMMA HeadIndex ==
    ASSUME NEW r \in Receiver, Aligned(r), NEW k \in Int
    PROVE  Index(r.head + k) = Index(r.tail + (Backlog(r) + k))
<1> DEFINE n == Backlog(r)
<1>0. CASE r.tail <= r.head
  <2>1. r.head = r.tail + n /\ r.tail \in Int /\ n \in Int
    BY <1>0, BacklogUnwrapped, ReceiverFields, Sizes
  <2> HIDE DEF n
  <2>2. r.head + k = r.tail + (n + k)
    BY <2>1
  <2> QED
    BY <2>2 DEF n
<1> SUFFICES ASSUME Divides PROVE Index(r.head + k) = Index(r.tail + (Backlog(r) + k))
  BY <1>0 DEF Aligned
<1>1. PICK p \in Int : r.head = r.tail + n + (p * CounterRange)
  BY ReceiverFields
<1>2. PICK c \in Int : CounterRange = c * RingSize
  BY Turns
<1>3. r.tail \in Int /\ n \in Int
  BY ReceiverFields, Sizes
<1> HIDE DEF n
<1>4. p * CounterRange = (p * c) * RingSize /\ p * c \in Int
  BY <1>2, Sizes
<1>5. r.head + k = (r.tail + (n + k)) + ((p * c) * RingSize)
  <2> DEFINE z == p * CounterRange
  <2>1. z \in Int /\ z = (p * c) * RingSize /\ r.head = r.tail + n + z
    BY <1>1, <1>4, Sizes
  <2> HIDE DEF z
  <2>2. r.head + k = (r.tail + (n + k)) + z
    BY <1>3, <2>1
  <2> QED
    BY <2>1, <2>2
<1>6. (r.head + k) % RingSize = (r.tail + (n + k)) % RingSize
  <2> DEFINE a == r.tail + (n + k)
  <2>1. a \in Int
    BY <1>3
  <2> HIDE DEF a
  <2>2. (a + ((p * c) * RingSize)) % RingSize = a % RingSize
    BY <1>4, <2>1, Sizes, Congruent
  <2> QED
    BY <1>5, <2>2 DEF a
<1> QED
  BY <1>6 DEF Index, n

(* An index is a place of the ring.                                        *)
LEMMA IndexInRing == ASSUME NEW a \in Int PROVE Index(a) \in 0..RingSize - 1
BY Sizes, Division DEF Index

(* Every place of the ring is an index from the head on.                   *)
LEMMA IndexCovers ==
    ASSUME NEW h \in Int, NEW i \in 0..RingSize - 1
    PROVE  \E k \in 0..RingSize - 1 : Index(h + k) = i
<1> DEFINE a == i - h
           k == a % RingSize
<1>1. a \in Int /\ a + h = i /\ i \in Int
  BY Sizes
<1> HIDE DEF a
<1>2. k \in 0..RingSize - 1 /\ k \in Int
  BY <1>1, Sizes, Division
<1>3. (k + h) % RingSize = (a + h) % RingSize
  BY <1>1, Sizes, SumModulo
<1> HIDE DEF k
<1>4. (h + k) % RingSize = i % RingSize
  <2>1. h + k = k + h
    BY <1>2
  <2> QED
    BY <1>1, <1>3, <2>1
<1>5. i % RingSize = i
  BY Sizes
<1> QED
  BY <1>2, <1>4, <1>5 DEF Index

(* What push_span writes into the slot k places behind the head.           *)
LEMMA ChosenSlot ==
    ASSUME NEW h \in Int, NEW k \in 0..RingSize - 1
    PROVE  (CHOOSE j \in 0..RingSize - 1 : Index(h + j) = Index(h + k)) = k
<1> DEFINE P(j) == Index(h + j) = Index(h + k)
<1>1. \E j \in 0..RingSize - 1 : P(j)
  OBVIOUS
<1>2. \A j \in 0..RingSize - 1 : P(j) => j = k
  BY Sizes, SameRemainder DEF Index
<1> QED
  BY <1>1, <1>2

(* push_span puts the bytes behind the head, and leaves the others alone.  *)
LEMMA Stored ==
    ASSUME NEW r \in Receiver, NEW first \in Serial, NEW length \in Nat,
           length # 0, length <= RingSize - Backlog(r)
    PROVE  /\ Pushed(r, first, length) \in Receiver
           /\ Pushed(r, first, length).restart_requested = r.restart_requested
           /\ Pushed(r, first, length).tail = r.tail
           /\ Pushed(r, first, length).head = (r.head + length) % CounterRange
           /\ \A k \in 0..RingSize - 1 :
                 Pushed(r, first, length).ring[Index(r.head + k)]
                    = IF k < length THEN After(first, k) ELSE r.ring[Index(r.head + k)]
<1> DEFINE slot(i) == CHOOSE k \in 0..RingSize - 1 : Index(r.head + k) = i
           ring == [i \in 0..RingSize - 1 |->
                      IF slot(i) < length THEN After(first, slot(i)) ELSE r.ring[i]]
           head == (r.head + length) % CounterRange
           s == [r EXCEPT !.head = head, !.ring = ring]
<1>1. Pushed(r, first, length) = s
  BY Sizes, ReceiverFields DEF Pushed
<1>2. ASSUME NEW k \in 0..RingSize - 1
      PROVE  ring[Index(r.head + k)] = IF k < length THEN After(first, k)
                                       ELSE r.ring[Index(r.head + k)]
  <2>1. slot(Index(r.head + k)) = k
    BY ChosenSlot, ReceiverFields
  <2>2. Index(r.head + k) \in 0..RingSize - 1
    <3>1. r.head + k \in Int
      BY ReceiverFields, Sizes
    <3> QED
      BY <3>1, IndexInRing
  <2> HIDE DEF slot
  <2> QED
    BY <2>1, <2>2
<1>3. ring \in [0..RingSize - 1 -> Serial]
  <2>1. ASSUME NEW i \in 0..RingSize - 1
        PROVE  (IF slot(i) < length THEN After(first, slot(i)) ELSE r.ring[i]) \in Serial
    <3>1. r.ring[i] \in Serial
      BY ReceiverFields
    <3>2. PICK k \in 0..RingSize - 1 : Index(r.head + k) = i
      BY IndexCovers, ReceiverFields
    <3>3. slot(i) = k
      BY <3>2, ChosenSlot, ReceiverFields
    <3>4. After(first, k) \in Serial
      BY AfterAfter, AfterNone, Sizes
    <3> QED
      BY <3>1, <3>3, <3>4
  <2> HIDE DEF slot
  <2> QED
    BY <2>1
<1>4. head \in 0..CounterRange - 1
  <2> DEFINE a == r.head + length
  <2>1. a \in Int
    BY ReceiverFields
  <2> HIDE DEF a
  <2>2. a % CounterRange \in 0..CounterRange - 1
    BY <2>1, Sizes, Division
  <2> QED
    BY <2>2 DEF a
<1> HIDE DEF ring, head
<1>5. s \in Receiver /\ s.restart_requested = r.restart_requested /\ s.tail = r.tail
      /\ s.head = head /\ s.ring = ring
  BY <1>3, <1>4 DEF Receiver
<1> QED
  BY <1>1, <1>2, <1>5 DEF head

(* The counters wrap, their difference does not.                           *)
LEMMA BacklogGrows ==
    ASSUME NEW r \in Receiver, NEW s \in Receiver, NEW length \in Nat,
           Backlog(r) + length <= RingSize,
           s.tail = r.tail, s.head = (r.head + length) % CounterRange
    PROVE  Backlog(s) = Backlog(r) + length
<1> DEFINE n == Backlog(r)
           a == r.head + length
           t == 0 - r.tail
<1>0. r.tail \in Int /\ r.head \in Int /\ n \in 0..CounterRange - 1
  BY ReceiverFields
<1>1. a \in Int /\ t \in Int /\ n \in Nat /\ r.tail \in Int
  BY <1>0, Sizes
<1>2. PICK p \in Int : r.head = r.tail + n + (p * CounterRange)
  BY ReceiverFields
<1>3. a + t = (p * CounterRange) + (n + length)
  <2> DEFINE z == p * CounterRange
  <2>1. z \in Int
    BY Sizes
  <2> HIDE DEF n, z
  <2>2. a + t = z + (n + length)
    BY <1>1, <1>2, <2>1 DEF z
  <2> QED
    BY <2>2 DEF z
<1>4. n + length \in 0..CounterRange - 1
  BY <1>1, Sizes
<1> HIDE DEF a, t, n
<1>5. ((a % CounterRange) + t) % CounterRange = (a + t) % CounterRange
  BY <1>1, Sizes, SumModulo
<1>6. ((p * CounterRange) + (n + length)) % CounterRange = n + length
  BY <1>4, Sizes, Remainder
<1>7. s.head - s.tail = (a % CounterRange) + t
  <2>1. a % CounterRange \in Int
    BY <1>1, Sizes, Division
  <2>2. s.head = a % CounterRange /\ s.tail = r.tail
    BY DEF a
  <2> QED
    BY <1>1, <2>1, <2>2 DEF t
<1>8. Backlog(s) = n + length
  BY <1>3, <1>5, <1>6, <1>7 DEF Backlog
<1> QED
  BY <1>8 DEF n

(* Taking bytes makes the backlog smaller by their number.                 *)
LEMMA BacklogShrinks ==
    ASSUME NEW r \in Receiver, NEW s \in Receiver, NEW taken \in 0..Backlog(r),
           s.head = r.head, s.tail = (r.tail + taken) % CounterRange
    PROVE  Backlog(s) = Backlog(r) - taken
<1> DEFINE n == Backlog(r)
           a == r.tail + taken
           x == a % CounterRange
<1>1. a \in Int /\ n \in 0..CounterRange - 1 /\ r.tail \in Int /\ r.head \in Int /\ taken \in 0..n
  BY ReceiverFields, Sizes
<1>2. PICK p \in Int : r.head = r.tail + n + (p * CounterRange)
  BY ReceiverFields
<1> HIDE DEF n
<1>3. x \in Int
  <2> HIDE DEF a
  <2> QED
    BY <1>1, Sizes, Division
<1>4. PICK q \in Int : a = (q * CounterRange) + x
  <2> HIDE DEF a
  <2> QED
    BY <1>1, Sizes, Quotient
<1> HIDE DEF x
<1>5. r.head - x = ((p + q) * CounterRange) + (n - taken)
  <2> DEFINE y == p * CounterRange
             z == q * CounterRange
  <2>1. y \in Int /\ z \in Int /\ y + z = (p + q) * CounterRange
    BY Sizes
  <2>2. r.head = r.tail + n + y /\ r.tail + taken = z + x
    BY <1>2, <1>4
  <2> HIDE DEF y, z
  <2>3. n \in Int /\ taken \in Int
    BY <1>1, Sizes
  <2>4. r.head - x = (y + z) + (n - taken)
    BY <1>1, <1>3, <2>1, <2>2, <2>3
  <2> QED
    BY <2>1, <2>4
<1>6. n - taken \in 0..CounterRange - 1 /\ p + q \in Int
  BY <1>1, Sizes
<1>7. (((p + q) * CounterRange) + (n - taken)) % CounterRange = n - taken
  BY <1>6, Sizes, Remainder
<1>8. Backlog(s) = n - taken
  BY <1>5, <1>7 DEF Backlog, x, a
<1> QED
  BY <1>8 DEF n

(* push_span leaves a receiver whose ring is not over-full.                *)
LEMMA PushTyped ==
    ASSUME NEW r \in Receiver, Backlog(r) <= RingSize,
           NEW first \in Serial, NEW length \in Nat
    PROVE  /\ Pushed(r, first, length) \in Receiver
           /\ Backlog(Pushed(r, first, length)) <= RingSize
           /\ r.restart_requested => Pushed(r, first, length).restart_requested
<1> DEFINE s == Pushed(r, first, length)
<1>1. CASE length = 0
  BY <1>1 DEF Pushed
<1>2. CASE length > RingSize - Backlog(r)
  <2>1. s = [r EXCEPT !.restart_requested = TRUE] \/ s = r
    BY <1>2 DEF Pushed
  <2>2. s \in Receiver /\ s.head = r.head /\ s.tail = r.tail
        /\ (r.restart_requested => s.restart_requested)
    BY <2>1 DEF Receiver
  <2> QED
    BY <2>2 DEF Backlog
<1>3. CASE length # 0 /\ ~(length > RingSize - Backlog(r))
  <2>1. Backlog(r) \in Int
    BY ReceiverFields, Sizes
  <2>2. length <= RingSize - Backlog(r) /\ Backlog(r) + length <= RingSize
    BY <1>3, <2>1, Sizes
  <2>3. s \in Receiver /\ s.tail = r.tail /\ s.head = (r.head + length) % CounterRange
        /\ s.restart_requested = r.restart_requested
    BY <1>3, <2>2, Stored
  <2>4. Backlog(s) = Backlog(r) + length
    BY <2>2, <2>3, BacklogGrows
  <2> QED
    BY <2>2, <2>3, <2>4
<1> QED
  BY <1>1, <1>2, <1>3

(* A span that does not take the head over the end moves it by its length  *)
(* or not at all.                                                          *)
LEMMA PushAligned ==
    ASSUME NEW r \in Receiver, Aligned(r), NEW first \in Serial, NEW length \in Nat,
           Divides \/ r.head + length < CounterRange
    PROVE  /\ Aligned(Pushed(r, first, length))
           /\ ~Divides => Pushed(r, first, length).head \in {r.head, r.head + length}
<1> DEFINE s == Pushed(r, first, length)
<1>1. CASE Divides
  BY <1>1 DEF Aligned
<1>2. CASE ~Divides
  <2>1. r.tail <= r.head /\ r.head \in Int /\ r.tail \in Int /\ r.head \in 0..CounterRange - 1
    BY <1>2, ReceiverFields DEF Aligned, Receiver
  <2>2. CASE length = 0
    BY <2>1, <2>2 DEF Pushed, Aligned
  <2>3. CASE length # 0 /\ length > RingSize - Backlog(r)
    <3>1. s = [r EXCEPT !.restart_requested = TRUE]
      BY <2>3 DEF Pushed
    <3>2. s.head = r.head /\ s.tail = r.tail
      BY <3>1 DEF Receiver
    <3> QED
      BY <2>1, <3>2 DEF Aligned
  <2>4. CASE length # 0 /\ ~(length > RingSize - Backlog(r))
    <3> DEFINE h == r.head + length
    <3>1. h \in 0..CounterRange - 1 /\ r.tail <= h
      BY <1>2, <2>1, Sizes
    <3>2. length <= RingSize - Backlog(r)
      BY <2>4, ReceiverFields, Sizes
    <3>3. s.head = h % CounterRange /\ s.tail = r.tail
      BY <2>4, <3>2, Stored
    <3> HIDE DEF h, s
    <3>4. h % CounterRange = h
      BY <3>1, Sizes
    <3> QED
      BY <3>1, <3>3, <3>4 DEF Aligned, h, s
  <2> QED
    BY <2>2, <2>3, <2>4
<1> QED
  BY <1>1, <1>2

(* push_span: a span that continues the run makes it longer, and one that  *)
(* does not fit leaves it alone and asks for a restart.                    *)
LEMMA PushKeeps ==
    ASSUME NEW r \in Receiver, Aligned(r), Backlog(r) <= RingSize,
           NEW b \in Serial, RunOf(r, b),
           NEW first \in Serial, first = After(b, Backlog(r)), NEW length \in Nat
    PROVE  /\ RunOf(Pushed(r, first, length), b)
           /\ ~Pushed(r, first, length).restart_requested
                 => After(b, Backlog(Pushed(r, first, length))) = After(first, length)
<1> DEFINE s == Pushed(r, first, length)
           n == Backlog(r)
<1>0. n \in Nat /\ b \in Int /\ first \in Int
  BY ReceiverFields, Sizes, AfterNone
<1>1. CASE length = 0
  BY <1>1, AfterNone DEF Pushed
<1>2. CASE length # 0 /\ length > RingSize - n
  <2>1. s = [r EXCEPT !.restart_requested = TRUE]
    BY <1>2 DEF Pushed
  <2>2. s.head = r.head /\ s.tail = r.tail /\ s.ring = r.ring /\ s.restart_requested
    BY <2>1 DEF Receiver
  <2> QED
    BY <2>2 DEF Backlog, RunOf
<1>3. CASE length # 0 /\ ~(length > RingSize - n)
  <2>1. length <= RingSize - n /\ n + length <= RingSize
    BY <1>0, <1>3, Sizes
  <2>2. /\ s \in Receiver /\ s.tail = r.tail /\ s.head = (r.head + length) % CounterRange
        /\ \A k \in 0..RingSize - 1 :
              s.ring[Index(r.head + k)]
                 = IF k < length THEN After(first, k) ELSE r.ring[Index(r.head + k)]
    BY <1>3, <2>1, Stored
  <2>3. Backlog(s) = n + length
    BY <2>1, <2>2, BacklogGrows
  <2>4. ASSUME NEW k \in 0..n + length - 1 PROVE s.ring[Index(s.tail + k)] = After(b, k)
    <3> HIDE DEF s, n
    <3>0. r.tail \in Int /\ r.head \in Int /\ k \in Int
      BY ReceiverFields, <1>0
    <3>1. CASE k < n
      <4> DEFINE j == RingSize + (k - n)
      <4>1. j \in 0..RingSize - 1 /\ ~(j < length) /\ n + j = k + RingSize
        BY <1>0, <2>1, <3>0, <3>1, Sizes
      <4>2. Index(r.head + j) = Index(r.tail + (n + j))
        BY <4>1, HeadIndex DEF n
      <4>3. Index(r.tail + (n + j)) = Index(r.tail + k)
        <5> DEFINE a == r.tail + k
                   q == 1
        <5>1. a \in Int /\ q \in Int /\ r.tail + (n + j) = a + (q * RingSize)
          BY <3>0, <4>1, Sizes
        <5> HIDE DEF a, q
        <5>2. (a + (q * RingSize)) % RingSize = a % RingSize
          BY <5>1, Sizes, Congruent
        <5> QED
          BY <5>1, <5>2 DEF Index, a
      <4> HIDE DEF j
      <4>4. s.ring[Index(r.tail + k)] = r.ring[Index(r.tail + k)]
        BY <2>2, <4>1, <4>2, <4>3
      <4>5. r.ring[Index(r.tail + k)] = After(b, k)
        <5>1. k \in 0..n - 1
          BY <1>0, <3>0, <3>1
        <5> QED
          BY <5>1 DEF RunOf, n
      <4> QED
        BY <2>2, <4>4, <4>5
    <3>2. CASE ~(k < n)
      <4> DEFINE j == k - n
      <4>1. j \in 0..RingSize - 1 /\ j < length /\ n + j = k
        BY <1>0, <2>1, <3>0, <3>2, Sizes
      <4>2. Index(r.head + j) = Index(r.tail + (n + j))
        BY <4>1, HeadIndex DEF n
      <4> HIDE DEF j
      <4>3. s.ring[Index(r.tail + k)] = After(first, j)
        BY <2>2, <4>1, <4>2
      <4>4. After(first, j) = After(b, n + j)
        <5>1. j \in Int /\ n \in Int
          BY <1>0, <4>1
        <5> QED
          BY <1>0, <5>1, AfterAfter DEF n
      <4> QED
        BY <2>2, <4>1, <4>3, <4>4
    <3> QED
      BY <3>1, <3>2
  <2>5. After(b, n + length) = After(first, length)
    <3>1. After(After(b, n), length) = After(b, n + length)
      BY <1>0, AfterAfter
    <3> QED
      BY <3>1
  <2> HIDE DEF s, n
  <2>6. RunOf(s, b)
    <3> SUFFICES ASSUME NEW k \in 0..Backlog(s) - 1 PROVE s.ring[Index(s.tail + k)] = After(b, k)
      BY DEF RunOf
    <3> QED
      BY <1>0, <2>3, <2>4
  <2> QED
    BY <2>3, <2>5, <2>6 DEF s
<1> QED
  BY <1>1, <1>2, <1>3

(* ABoxEc800Rx_Take: the rest of the run follows what was taken.           *)
LEMMA TakeKeeps ==
    ASSUME NEW r \in Receiver, NEW s \in Receiver, NEW taken \in 0..Backlog(r),
           s.head = r.head, s.tail = (r.tail + taken) % CounterRange, s.ring = r.ring,
           Aligned(r), NEW b \in Serial, RunOf(r, b)
    PROVE  /\ RunOf(s, After(b, taken))
           /\ After(After(b, taken), Backlog(s)) = After(b, Backlog(r))
           /\ Aligned(s)
<1> DEFINE n == Backlog(r)
<1>0. n \in Nat /\ b \in Int /\ taken \in Int /\ r.tail \in Int
  BY ReceiverFields, Sizes, AfterNone
<1>1. Backlog(s) = n - taken
  BY BacklogShrinks
<1>4. ASSUME r.tail <= r.head PROVE s.tail <= s.head /\ s.tail = r.tail + taken
  <2>1. r.head = r.tail + n /\ r.head \in 0..CounterRange - 1 /\ r.tail \in 0..CounterRange - 1
    BY <1>4, BacklogUnwrapped DEF Receiver
  <2> DEFINE a == r.tail + taken
  <2>2. a \in 0..CounterRange - 1 /\ a <= r.head
    BY <1>0, <2>1, Sizes
  <2> HIDE DEF a
  <2>3. a % CounterRange = a
    BY <2>2, Sizes
  <2>4. s.tail = a /\ s.tail <= s.head
    BY <2>2, <2>3 DEF a
  <2> QED
    BY <2>4 DEF a
<1>5. Aligned(s) /\ \A k \in Int : Index(s.tail + k) = Index((r.tail + taken) + k)
  <2>1. CASE r.tail <= r.head
    <3>1. s.tail <= s.head /\ s.tail = r.tail + taken
      BY <1>4, <2>1
    <3> QED
      BY <3>1 DEF Aligned
  <2>2. CASE Divides
    <3> DEFINE a == r.tail + taken
    <3>1. a \in Int
      BY <1>0
    <3> HIDE DEF a
    <3>2. \A k \in Int : Index((a % CounterRange) + k) = Index(a + k)
      BY <2>2, <3>1, Wrapped
    <3> QED
      BY <2>2, <3>2 DEF Aligned, a
  <2> QED
    BY <2>1, <2>2 DEF Aligned
<1> HIDE DEF n
<1>2. ASSUME NEW k \in 0..(n - taken) - 1
      PROVE  s.ring[Index(s.tail + k)] = After(After(b, taken), k)
  <2>1. k \in Int /\ taken + k \in 0..n - 1
    BY <1>0
  <2>2. Index(s.tail + k) = Index(r.tail + (taken + k))
    <3> DEFINE a == r.tail + taken
    <3>1. a \in Int /\ a + k = r.tail + (taken + k)
      BY <1>0, <2>1
    <3>2. Index(s.tail + k) = Index(a + k)
      BY <1>5, <2>1
    <3> HIDE DEF a
    <3> QED
      BY <3>1, <3>2
  <2>3. r.ring[Index(r.tail + (taken + k))] = After(b, taken + k)
    BY <2>1 DEF RunOf, n
  <2>4. After(After(b, taken), k) = After(b, taken + k)
    BY <1>0, <2>1, AfterAfter
  <2> QED
    BY <2>2, <2>3, <2>4
<1>3. After(After(b, taken), n - taken) = After(b, n)
  <2>1. taken + (n - taken) = n /\ n - taken \in Int
    BY <1>0
  <2>2. After(After(b, taken), n - taken) = After(b, taken + (n - taken))
    BY <1>0, <2>1, AfterAfter
  <2> QED
    BY <2>1, <2>2
<1> QED
  BY <1>1, <1>2, <1>3, <1>5 DEF RunOf, n

-----------------------------------------------------------------------------
(* A receiver that has started, and has not failed since.                  *)
Live == ~rx_starting /\ ~rx_failed

(* What is in the ring is a run, it begins with the byte the client waits  *)
(* for, and the modem's next byte follows it unless a restart is due.      *)
Contiguous == \E b \in Serial :
                 /\ RunOf(rx, b) /\ fed \in {AnyByte, b}
                 /\ ~rx.restart_requested => serial = After(b, Backlog(rx))

StreamTypes ==
    /\ rx \in Receiver /\ Backlog(rx) <= RingSize
    /\ rx_starting \in BOOLEAN /\ rx_failed \in BOOLEAN
    /\ serial \in Serial /\ fed \in Serial \cup {AnyByte} /\ torn \in BOOLEAN

(* The client was told of a break before the receiver is restarted, and    *)
(* only a live receiver is drained.                                        *)
Told ==
    /\ ~Live => fed = AnyByte
    /\ stage \in {"drain", "draining"} => Live
    /\ stage \in {"restart", "retry"} => rx_failed
    /\ rx_starting /\ ~rx_failed => rx.restart_requested

StreamInv == StreamTypes /\ Told /\ Aligned(rx) /\ (Live => Contiguous) /\ ~torn

(* The next DMA event does not take the head over the end of its range, or *)
(* does no harm if it does.                                                *)
WrapsWell == Divides \/ rx.head + Span < CounterRange

(* The receiver starts with a restart due.                                 *)
LEMMA InitStream == LoopInit => StreamInv
<1> SUFFICES ASSUME LoopInit PROVE StreamInv
  OBVIOUS
<1>1. rx \in Receiver /\ 0 \in Serial
  BY Sizes DEF LoopInit, Receiver, Serial
<1>2. Backlog(rx) = 0
  <2>1. rx.head = 0 /\ rx.tail = 0
    BY DEF LoopInit
  <2>2. 0 % CounterRange = 0
    BY Sizes
  <2> QED
    BY <2>1, <2>2 DEF Backlog
<1>7. Aligned(rx)
  BY Sizes DEF LoopInit, Aligned
<1>3. fed = AnyByte /\ AnyByte \in Serial \cup {AnyByte} /\ 0 <= RingSize
  BY Sizes DEF LoopInit
<1>4. /\ rx_starting = TRUE /\ rx_failed = FALSE /\ serial = 0 /\ torn = FALSE
      /\ stage = "idle" /\ rx.restart_requested = TRUE
  BY DEF LoopInit
<1> HIDE DEF AnyByte
<1>5. StreamTypes
  BY <1>1, <1>2, <1>3, <1>4 DEF StreamTypes
<1>6. Told /\ ~Live
  BY <1>3, <1>4 DEF Told, Live
<1> QED
  BY <1>4, <1>5, <1>6, <1>7 DEF StreamInv

(* The loop goes on: the receiver and the stream are left alone, and the   *)
(* client may be told of a break.                                          *)
LEMMA LoopGoesOn ==
    ASSUME StreamInv, StreamTypes', UNCHANGED <<rxvars, serial, torn>>, fed' \in {fed, AnyByte},
           stage' \in {"drain", "draining"} => Live,
           stage' \in {"restart", "retry"} => rx_failed
    PROVE  StreamInv'
<1>1. UNCHANGED <<rx, rx_starting, rx_failed>>
  BY DEF rxvars
<1>2. Told' /\ Aligned(rx)'
  BY <1>1 DEF StreamInv, Told, Live
<1>3. Live' => Contiguous'
  BY <1>1 DEF StreamInv, Contiguous, Live
<1> QED
  BY <1>2, <1>3 DEF StreamInv

(* Both spans of a DMA event prolong the run, or ask for a restart.        *)
LEMMA OnDmaEventKeeps == StreamInv /\ StreamTypes' /\ WrapsWell /\ OnDmaEvent => StreamInv'
<1> SUFFICES ASSUME StreamInv, StreamTypes', WrapsWell, OnDmaEvent PROVE StreamInv'
  OBVIOUS
<1>1. PICK length \in 1..Span : \E part \in 0..length :
         /\ serial' = After(serial, length)
         /\ rx' = IF rx.restart_requested THEN rx
                  ELSE IF Pushed(rx, serial, part).restart_requested THEN Pushed(rx, serial, part)
                  ELSE Pushed(Pushed(rx, serial, part), After(serial, part), length - part)
  BY DEF OnDmaEvent
<1>2. PICK part \in 0..length :
         /\ serial' = After(serial, length)
         /\ rx' = IF rx.restart_requested THEN rx
                  ELSE IF Pushed(rx, serial, part).restart_requested THEN Pushed(rx, serial, part)
                  ELSE Pushed(Pushed(rx, serial, part), After(serial, part), length - part)
  BY <1>1
<1>3. UNCHANGED <<stage, rx_starting, rx_failed, fed, torn>>
  BY DEF OnDmaEvent
<1> DEFINE one == Pushed(rx, serial, part)
           second == After(serial, part)
           two == Pushed(one, second, length - part)
<1>4. /\ part \in Nat /\ part \in Int /\ length - part \in Nat /\ length - part \in Int
      /\ length \in Int /\ part + (length - part) = length
      /\ serial \in Serial /\ serial \in Int /\ rx \in Receiver /\ Backlog(rx) <= RingSize
  <2>1. Span \in Nat
    BY AppAssumption DEF AppAssumption
  <2>2. serial \in Serial /\ rx \in Receiver /\ Backlog(rx) <= RingSize
    BY DEF StreamInv, StreamTypes
  <2> QED
    BY <2>1, <2>2, AfterNone
<1>5. second \in Serial /\ After(second, length - part) = After(serial, length)
  <2> DEFINE rest == length - part
  <2>1. rest \in Int /\ part + rest = length
    BY <1>4
  <2> HIDE DEF rest
  <2>2. /\ After(After(serial, part), rest) = After(serial, part + rest)
        /\ After(serial, part) \in Serial
    BY <1>4, <2>1, AfterAfter
  <2>3. After(second, rest) = After(serial, length) /\ second \in Serial
    BY <2>1, <2>2
  <2> HIDE DEF second
  <2> QED
    BY <2>3 DEF rest
<1>6. one \in Receiver /\ Backlog(one) <= RingSize
  BY <1>4, PushTyped
<1>12. Aligned(rx) /\ (Divides \/ rx.head + length < CounterRange)
  <2>1. Span \in Nat /\ length <= Span /\ rx.head \in Int
    BY <1>4, AppAssumption, ReceiverFields DEF AppAssumption
  <2> QED
    BY <1>4, <2>1, Sizes DEF StreamInv, StreamTypes, WrapsWell
<1>13. Aligned(one) /\ (Divides \/ one.head + (length - part) < CounterRange)
  <2>1. rx.head \in Int /\ part <= length
    BY <1>4, ReceiverFields
  <2>2. Divides \/ rx.head + part < CounterRange
    BY <1>4, <1>12, <2>1, Sizes
  <2>3. Aligned(one) /\ (~Divides => one.head \in {rx.head, rx.head + part})
    BY <1>4, <1>12, <2>2, PushAligned
  <2> HIDE DEF one, two, second
  <2> QED
    BY <1>4, <1>12, <2>1, <2>3, Sizes
<1>7. /\ rx' \in {rx, one, two}
      /\ rx.restart_requested => rx' = rx
      /\ ~rx.restart_requested => \/ (rx' = one /\ one.restart_requested)
                                 \/ (rx' = two /\ ~one.restart_requested)
      /\ serial' = After(serial, length)
  <2>1. rx' = IF rx.restart_requested THEN rx ELSE IF one.restart_requested THEN one ELSE two
    BY <1>2
  <2> HIDE DEF one, two, second
  <2> QED
    BY <1>2, <2>1
<1> HIDE DEF one, second
<1>8. two \in Receiver /\ Backlog(two) <= RingSize
  BY <1>4, <1>5, <1>6, PushTyped
<1>14. Aligned(two)
  BY <1>4, <1>5, <1>6, <1>13, PushAligned
<1> HIDE DEF two
<1>9. Aligned(rx')
  BY <1>7, <1>12, <1>13, <1>14
<1>10. Told'
  BY <1>3, <1>7 DEF StreamInv, Told, Live
<1>11. ASSUME Live PROVE Contiguous'
  <2>1. PICK b \in Serial : /\ RunOf(rx, b) /\ fed \in {AnyByte, b}
                            /\ ~rx.restart_requested => serial = After(b, Backlog(rx))
    BY <1>11 DEF StreamInv, Contiguous
  <2>2. CASE rx.restart_requested
    <3>1. rx' = rx
      BY <1>7, <2>2
    <3> QED
      BY <1>3, <2>1, <2>2, <3>1 DEF Contiguous
  <2>3. CASE ~rx.restart_requested
    <3>1. /\ RunOf(one, b)
          /\ ~one.restart_requested => After(b, Backlog(one)) = second
      BY <1>4, <1>12, <2>1, <2>3, PushKeeps DEF one, second
    <3>2. CASE rx' = one /\ one.restart_requested
      BY <1>3, <2>1, <3>1, <3>2 DEF Contiguous
    <3>3. CASE rx' = two /\ ~one.restart_requested
      <4>1. /\ RunOf(two, b)
            /\ ~two.restart_requested => After(b, Backlog(two)) = After(second, length - part)
        BY <1>4, <1>5, <1>6, <1>13, <3>1, <3>3, PushKeeps DEF two
      <4> QED
        BY <1>3, <1>5, <1>7, <2>1, <3>3, <4>1 DEF Contiguous
    <3> QED
      BY <1>7, <2>3, <3>2, <3>3
  <2> QED
    BY <2>2, <2>3
<1> QED
  BY <1>3, <1>9, <1>10, <1>11 DEF StreamInv, Live

(* A request to restart changes nothing that is in the ring.               *)
LEMMA RequestFields ==
    ASSUME NEW r \in Receiver, NEW yes \in BOOLEAN
    PROVE  /\ [r EXCEPT !.restart_requested = yes] \in Receiver
           /\ [r EXCEPT !.restart_requested = yes].restart_requested = yes
           /\ Backlog([r EXCEPT !.restart_requested = yes]) = Backlog(r)
           /\ \A b : RunOf([r EXCEPT !.restart_requested = yes], b) <=> RunOf(r, b)
           /\ Aligned([r EXCEPT !.restart_requested = yes]) <=> Aligned(r)
<1> DEFINE s == [r EXCEPT !.restart_requested = yes]
<1>1. /\ s \in Receiver /\ s.restart_requested = yes
      /\ s.head = r.head /\ s.tail = r.tail /\ s.ring = r.ring
  BY DEF Receiver
<1> HIDE DEF s
<1>2. Backlog(s) = Backlog(r)
  BY <1>1 DEF Backlog
<1>3. \A b : RunOf(s, b) <=> RunOf(r, b)
  BY <1>1, <1>2 DEF RunOf
<1>4. Aligned(s) <=> Aligned(r)
  BY <1>1 DEF Aligned
<1> QED
  BY <1>1, <1>2, <1>3, <1>4 DEF s

(* An error loses bytes of the stream, and asks for a restart.             *)
LEMMA UartErrorKeeps == StreamInv /\ StreamTypes' /\ UartError => StreamInv'
<1> SUFFICES ASSUME StreamInv, StreamTypes', UartError PROVE StreamInv'
  OBVIOUS
<1>1. /\ rx' \in Receiver /\ rx'.restart_requested /\ Backlog(rx') = Backlog(rx)
      /\ \A b : RunOf(rx', b) <=> RunOf(rx, b)
      /\ Aligned(rx') <=> Aligned(rx)
  <2>1. rx' = [rx EXCEPT !.restart_requested = TRUE] /\ TRUE \in BOOLEAN /\ rx \in Receiver
    BY DEF UartError, StreamInv, StreamTypes
  <2> QED
    BY <2>1, RequestFields
<1>2. serial' \in Serial /\ UNCHANGED <<stage, rx_starting, rx_failed, fed, torn>>
  BY DEF UartError
<1>3. Told' /\ Aligned(rx')
  BY <1>1, <1>2 DEF StreamInv, Told, Live
<1>4. Live' => Contiguous'
  BY <1>1, <1>2 DEF StreamInv, Contiguous, Live
<1> QED
  BY <1>2, <1>3, <1>4 DEF StreamInv

(* A finished power cycle opens the session over a receiver that restarts. *)
LEMMA PollBeginsKeeps ==
    ASSUME StreamInv, StreamTypes', NEW milliseconds, PollBegins(milliseconds)
    PROVE  StreamInv'
<1>1. stage' = "take" /\ UNCHANGED <<serial, torn>>
  BY DEF PollBegins
<1>2. CASE UNCHANGED rxvars /\ fed' = fed
  BY <1>1, <1>2, LoopGoesOn
<1>3. CASE ReceiverRestarts /\ OnModemReset
  <2>1. rx'.restart_requested /\ (Aligned(rx') <=> Aligned(rx))
    <3>1. rx' = [rx EXCEPT !.restart_requested = TRUE] /\ TRUE \in BOOLEAN /\ rx \in Receiver
      BY <1>3 DEF ReceiverRestarts, StreamInv, StreamTypes
    <3> QED
      BY <3>1, RequestFields
  <2>2. rx_starting' = TRUE /\ rx_failed' = FALSE /\ fed' = AnyByte
    BY <1>3 DEF ReceiverRestarts, OnModemReset
  <2> QED
    BY <1>1, <2>1, <2>2 DEF StreamInv, Told, Live
<1> QED
  BY <1>2, <1>3 DEF PollBegins, SessionGoesOn

(* The client is told of the break, unless it was before.                  *)
LEMMA TakeRequestKeeps == StreamInv /\ StreamTypes' /\ TakeRequest => StreamInv'
<1> SUFFICES ASSUME StreamInv, StreamTypes', TakeRequest PROVE StreamInv'
  OBVIOUS
<1>1. /\ rx' \in Receiver /\ rx'.restart_requested = FALSE /\ Backlog(rx') = Backlog(rx)
      /\ \A b : RunOf(rx', b) <=> RunOf(rx, b)
      /\ Aligned(rx') <=> Aligned(rx)
  <2>1. rx' = [rx EXCEPT !.restart_requested = FALSE] /\ FALSE \in BOOLEAN /\ rx \in Receiver
    BY DEF TakeRequest, StreamInv, StreamTypes
  <2> QED
    BY <2>1, RequestFields
<1>2. UNCHANGED <<rx_starting, serial, torn>>
  BY DEF TakeRequest
<1>3. CASE rx.restart_requested /\ ~rx_failed
  <2>1. rx_failed' = TRUE /\ stage' = "restart"
    BY <1>3 DEF TakeRequest
  <2>2. fed' = AnyByte
    BY <1>3 DEF TakeRequest, Break, SessionGoesOn, AbortAll, StreamInv, Told, Live
  <2> QED
    BY <1>1, <1>2, <2>1, <2>2 DEF StreamInv, Told, Live
<1>4. CASE rx_failed
  <2>1. rx_failed' = rx_failed /\ stage' = "retry" /\ fed' = fed
    BY <1>4 DEF TakeRequest, SessionGoesOn
  <2> QED
    BY <1>1, <1>2, <1>4, <2>1 DEF StreamInv, Told, Live
<1>5. CASE ~rx.restart_requested /\ ~rx_failed
  <2>1. rx_failed' = rx_failed /\ stage' = "drain" /\ fed' = fed
    BY <1>5 DEF TakeRequest, SessionGoesOn
  <2>2. Live /\ Live'
    BY <1>2, <1>5, <2>1 DEF StreamInv, Told, Live
  <2>3. Told' /\ Aligned(rx')
    BY <1>1, <1>2, <2>1, <2>2 DEF StreamInv, Told, Live
  <2>4. Contiguous'
    BY <1>1, <1>2, <1>5, <2>1, <2>2 DEF StreamInv, Contiguous
  <2> QED
    BY <1>2, <2>3, <2>4 DEF StreamInv
<1> QED
  BY <1>3, <1>4, <1>5

(* AfterRestart: an empty ring, whatever was in it.                        *)
LEMMA RestartedFields ==
    ASSUME NEW r \in Receiver
    PROVE  /\ Restarted(r) \in Receiver /\ Backlog(Restarted(r)) = 0
           /\ Restarted(r).restart_requested = FALSE
           /\ \A b \in Serial : RunOf(Restarted(r), b)
           /\ Aligned(Restarted(r))
<1> DEFINE s == Restarted(r)
           no == FALSE
           s1 == [r EXCEPT !.head = 0]
           s2 == [s1 EXCEPT !.tail = 0]
<1>1. s = [s2 EXCEPT !.restart_requested = no] /\ no \in BOOLEAN
  BY DEF Restarted
<1>0. 0 \in 0..CounterRange - 1
  BY Sizes
<1>2. s1 \in Receiver /\ s1.head = 0
  BY <1>0 DEF Receiver
<1> HIDE DEF s, s1, no
<1>3. s2 \in Receiver /\ s2.tail = 0 /\ s2.head = 0
  BY <1>0, <1>2 DEF Receiver
<1> HIDE DEF s2
<1>4. /\ s \in Receiver /\ s.restart_requested = no
      /\ s.head = 0 /\ s.tail = 0
  BY <1>1, <1>3 DEF Receiver
<1>5. 0 % CounterRange = 0
  BY Sizes
<1>6. Backlog(s) = 0
  BY <1>4, <1>5 DEF Backlog
<1>7. Aligned(s)
  BY <1>4 DEF Aligned
<1> QED
  BY <1>4, <1>6, <1>7 DEF RunOf, s, no

(* A restart leaves an empty ring, or is asked for again.                  *)
LEMMA RestartKeeps ==
    StreamInv /\ StreamTypes' /\ (RestartSucceeds \/ RestartFails \/ RestartWaits) => StreamInv'
<1> SUFFICES ASSUME StreamInv, StreamTypes', RestartSucceeds \/ RestartFails \/ RestartWaits
             PROVE  StreamInv'
  OBVIOUS
<1>0. rx \in Receiver /\ rx_failed /\ fed = AnyByte /\ torn' = torn
  BY DEF RestartSucceeds, RestartFails, RestartWaits, StreamInv, StreamTypes, Told, Live
<1>1. CASE RestartSucceeds
  <2>1. /\ rx' = Restarted(rx) /\ serial' \in Serial /\ fed' = fed /\ stage' = "drain"
        /\ rx_starting' = FALSE /\ rx_failed' = FALSE
    BY <1>1 DEF RestartSucceeds, SessionGoesOn
  <2>2. /\ rx' \in Receiver /\ Backlog(rx') = 0 /\ Aligned(rx')
        /\ \A b \in Serial : RunOf(rx', b)
    BY <1>0, <2>1, RestartedFields
  <2>3. After(serial', 0) = serial'
    BY <2>1, AfterNone
  <2>4. Contiguous'
    BY <1>0, <2>1, <2>2, <2>3 DEF Contiguous
  <2>6. Told'
    BY <2>1 DEF Told, Live
  <2> QED
    BY <1>0, <2>2, <2>4, <2>6 DEF StreamInv
<1>2. CASE RestartFails
  <2>1. /\ serial' = serial /\ fed' = AnyByte /\ stage' = "recover"
        /\ rx_starting' = FALSE /\ rx_failed' = rx_failed
    BY <1>2 DEF RestartFails, AbortAll
  <2>2. PICK r \in {rx, Restarted(rx)} : rx' = [r EXCEPT !.restart_requested = TRUE]
    BY <1>2 DEF RestartFails
  <2>3. r \in Receiver /\ Aligned(r)
    BY <1>0, <2>2, RestartedFields DEF StreamInv
  <2>4. Aligned(rx')
    <3>1. TRUE \in BOOLEAN
      OBVIOUS
    <3> QED
      BY <2>2, <2>3, <3>1, RequestFields
  <2> QED
    BY <1>0, <2>1, <2>4 DEF StreamInv, Told, Live
<1>3. CASE RestartWaits
  <2>1. /\ serial' = serial /\ fed' = fed /\ stage' = "recover"
        /\ rx_starting' = rx_starting /\ rx_failed' = rx_failed
    BY <1>3 DEF RestartWaits, SessionGoesOn
  <2>2. Aligned(rx') <=> Aligned(rx)
    <3>1. rx' = [rx EXCEPT !.restart_requested = TRUE] /\ TRUE \in BOOLEAN
      BY <1>3 DEF RestartWaits
    <3> QED
      BY <1>0, <3>1, RequestFields
  <2> QED
    BY <1>0, <2>1, <2>2 DEF StreamInv, Told, Live
<1> QED
  BY <1>1, <1>2, <1>3

(* What Drain takes at once is some of what is there.                      *)
LEMMA DrainedFields ==
    ASSUME rx \in Receiver, DrainSpan
    PROVE  /\ Available \in 1..Backlog(rx)
           /\ rx' \in Receiver /\ rx'.tail = (rx.tail + Available) % CounterRange
           /\ rx'.head = rx.head /\ rx'.ring = rx.ring
           /\ rx'.restart_requested = rx.restart_requested
<1> DEFINE n == Backlog(rx)
           m == Available
<1>1. n \in Nat /\ rx.tail \in Int
  BY ReceiverFields, Sizes
<1>2. m \in 1..n
  <2>1. rx.tail \in Int /\ Index(rx.tail) \in 0..RingSize - 1
    BY <1>1, IndexInRing
  <2>2. RingSize - Index(rx.tail) \in Int
    BY <2>1, Sizes
  <2>3. m \in {RingSize - Index(rx.tail), n} /\ m <= n
    BY <1>1, <2>2 DEF Available
  <2>4. m > 0
    BY DEF DrainSpan
  <2> QED
    BY <1>1, <2>2, <2>3, <2>4
<1> HIDE DEF m
<1> DEFINE t == (rx.tail + m) % CounterRange
           a == rx.tail + m
<1>3. a \in Int
  BY <1>1, <1>2
<1> HIDE DEF a
<1>4. a % CounterRange \in 0..CounterRange - 1
  BY <1>3, Sizes, Division
<1>5. t \in 0..CounterRange - 1 /\ rx' = [rx EXCEPT !.tail = t]
  BY <1>4 DEF a, m, DrainSpan
<1> HIDE DEF t
<1>6. /\ rx' \in Receiver /\ rx'.tail = t
      /\ rx'.head = rx.head /\ rx'.ring = rx.ring
      /\ rx'.restart_requested = rx.restart_requested
  BY <1>5 DEF Receiver
<1> QED
  BY <1>2, <1>6 DEF t, m

(* The client is fed the head of the run, and waits for what follows it.   *)
LEMMA DrainSpanKeeps == StreamInv /\ StreamTypes' /\ DrainSpan => StreamInv'
<1> SUFFICES ASSUME StreamInv, StreamTypes', DrainSpan PROVE StreamInv'
  OBVIOUS
<1> DEFINE n == Backlog(rx)
           m == Available
           byte(k) == rx.ring[Index(rx.tail + k)]
<1>1. /\ stage = "draining" /\ Live /\ rx \in Receiver /\ n <= RingSize
      /\ UNCHANGED <<stage, rx_starting, rx_failed, serial>>
  BY DEF DrainSpan, StreamInv, StreamTypes, Told
<1>2. /\ fed' = After(byte(m - 1), 1)
      /\ torn' = (\/ torn
                  \/ fed \notin {AnyByte, byte(0)}
                  \/ \E k \in 1..m - 1 : byte(k) # After(byte(k - 1), 1))
  BY DEF DrainSpan
<1>3. n \in Nat /\ rx.tail \in Int
  BY <1>1, ReceiverFields, Sizes
<1>4. m \in 1..n
  BY <1>1, DrainedFields
<1>5. PICK b \in Serial : /\ RunOf(rx, b) /\ fed \in {AnyByte, b}
                          /\ ~rx.restart_requested => serial = After(b, Backlog(rx))
  BY <1>1 DEF StreamInv, Contiguous
<1> HIDE DEF m
<1>6. b \in Int /\ m \in Int /\ After(b, 0) = b
  BY <1>4, AfterNone
<1>7. \A k \in 0..m - 1 : byte(k) = After(b, k)
  BY <1>3, <1>4, <1>5 DEF RunOf
<1> HIDE DEF byte, n
<1>8. byte(0) = b
  BY <1>4, <1>6, <1>7
<1>9. ASSUME NEW k \in 1..m - 1 PROVE byte(k) = After(byte(k - 1), 1)
  <2>1. k \in 0..m - 1 /\ k - 1 \in 0..m - 1 /\ k - 1 \in Int /\ (k - 1) + 1 = k
    BY <1>6
  <2>2. After(After(b, k - 1), 1) = After(b, (k - 1) + 1)
    BY <1>6, <2>1, AfterAfter
  <2> QED
    BY <1>7, <2>1, <2>2
<1>10. ~torn'
  BY <1>2, <1>5, <1>8, <1>9 DEF StreamInv
<1>11. fed' = After(b, m) /\ fed' \in Serial
  <2> DEFINE j == m - 1
  <2>1. j \in 0..m - 1 /\ j \in Int /\ j + 1 = m /\ 1 \in Int
    BY <1>4, <1>6
  <2>2. fed' = After(byte(j), 1)
    BY <1>2
  <2> HIDE DEF j
  <2>3. byte(j) = After(b, j)
    BY <1>7, <2>1
  <2>4. After(After(b, j), 1) = After(b, j + 1) /\ After(b, j) \in Serial
    BY <1>6, <2>1, AfterAfter
  <2>5. After(b, m) \in Serial
    BY <1>6, AfterAfter
  <2> QED
    BY <2>1, <2>2, <2>3, <2>4, <2>5
<1>12. /\ rx' \in Receiver /\ rx'.tail = (rx.tail + m) % CounterRange
       /\ rx'.head = rx.head /\ rx'.ring = rx.ring
       /\ rx'.restart_requested = rx.restart_requested
  BY <1>1, DrainedFields DEF m
<1>13. m \in 0..Backlog(rx)
  BY <1>3, <1>4 DEF n
<1>14. /\ RunOf(rx', After(b, m))
       /\ After(After(b, m), Backlog(rx')) = After(b, Backlog(rx))
       /\ Aligned(rx')
  <2>1. Aligned(rx)
    BY DEF StreamInv
  <2> QED
    BY <1>1, <1>5, <1>12, <1>13, <2>1, TakeKeeps
<1>15. Told'
  BY <1>1, <1>12 DEF StreamInv, Told, Live
<1>16. Contiguous'
  <2>1. ~rx'.restart_requested => serial' = After(After(b, m), Backlog(rx'))
    BY <1>1, <1>5, <1>12, <1>14
  <2> QED
    BY <1>11, <1>14, <2>1 DEF Contiguous
<1> QED
  BY <1>10, <1>14, <1>15, <1>16 DEF StreamInv

(* Every step keeps the types, wherever the counters wrap.                 *)
LEMMA NextStreamTypes == StreamTypes /\ [LoopNext]_loopvars => StreamTypes'
<1> SUFFICES ASSUME StreamTypes, [LoopNext]_loopvars PROVE StreamTypes'
  OBVIOUS
<1> DEFINE Fits(r) == r \in Receiver /\ Backlog(r) <= RingSize
<1>0. /\ Fits(rx) /\ Fits(Restarted(rx))
      /\ \A r \in {rx, Restarted(rx)}, yes \in BOOLEAN : Fits([r EXCEPT !.restart_requested = yes])
  <2>1. Fits(rx) /\ rx \in Receiver
    BY DEF StreamTypes
  <2>2. Fits(Restarted(rx)) /\ Restarted(rx) \in Receiver
    <3>1. 0 <= RingSize
      BY Sizes
    <3> QED
      BY <2>1, <3>1, RestartedFields
  <2>3. ASSUME NEW r \in Receiver, Fits(r), NEW yes \in BOOLEAN
        PROVE  Fits([r EXCEPT !.restart_requested = yes])
    BY <2>3, RequestFields
  <2> HIDE DEF Fits
  <2> QED
    BY <2>1, <2>2, <2>3
<1>1. CASE /\ rx' = rx \/ \E r \in {rx, Restarted(rx)} :
                             \E yes \in BOOLEAN : rx' = [r EXCEPT !.restart_requested = yes]
           /\ rx_starting' \in {rx_starting, TRUE, FALSE} /\ rx_failed' \in {rx_failed, TRUE, FALSE}
           /\ serial' \in {serial} \cup Serial /\ fed' \in {fed, AnyByte} /\ torn' = torn
  <2>1. Fits(rx')
    <3> HIDE DEF Fits
    <3> QED
      BY <1>0, <1>1
  <2> HIDE DEF AnyByte
  <2>2. rx_starting' \in BOOLEAN /\ rx_failed' \in BOOLEAN
    BY <1>1 DEF StreamTypes
  <2>3. serial' \in Serial /\ fed' \in Serial \cup {AnyByte} /\ torn' \in BOOLEAN
    BY <1>1 DEF StreamTypes
  <2> QED
    BY <2>1, <2>2, <2>3 DEF StreamTypes
<1>2. CASE rx' = Restarted(rx) /\ rx_starting' = FALSE /\ rx_failed' = FALSE
           /\ serial' \in Serial /\ fed' = fed /\ torn' = torn
  BY <1>0, <1>2 DEF StreamTypes
<1>3. CASE OnDmaEvent
  <2>1. UNCHANGED <<rx_starting, rx_failed, fed, torn>>
    BY <1>3 DEF OnDmaEvent
  <2>10. PICK length \in 1..Span : \E part \in 0..length :
            /\ serial' = After(serial, length)
            /\ rx' \in {rx, Pushed(rx, serial, part),
                        Pushed(Pushed(rx, serial, part), After(serial, part), length - part)}
    BY <1>3 DEF OnDmaEvent
  <2>2. PICK part \in 0..length :
           /\ serial' = After(serial, length)
           /\ rx' \in {rx, Pushed(rx, serial, part),
                       Pushed(Pushed(rx, serial, part), After(serial, part), length - part)}
    BY <2>10
  <2>3. /\ part \in Nat /\ part \in Int /\ length - part \in Nat /\ length \in Int
        /\ serial \in Serial /\ serial \in Int
    <3>1. Span \in Nat
      BY AppAssumption DEF AppAssumption
    <3>2. serial \in Serial
      BY DEF StreamTypes
    <3> QED
      BY <3>1, <3>2, AfterNone
  <2> DEFINE one == Pushed(rx, serial, part)
             second == After(serial, part)
             rest == length - part
             two == Pushed(one, second, rest)
  <2>4. second \in Serial /\ serial' \in Serial
    BY <2>2, <2>3, AfterAfter
  <2>5. Fits(one)
    BY <1>0, <2>3, PushTyped
  <2> HIDE DEF one, second, rest
  <2>6. rest \in Nat
    BY <2>3 DEF rest
  <2>7. Fits(two)
    BY <2>4, <2>5, <2>6, PushTyped
  <2>8. rx' \in {rx, one, two}
    BY <2>2 DEF one, second, rest
  <2> HIDE DEF two
  <2>9. Fits(rx')
    BY <1>0, <2>5, <2>7, <2>8
  <2> QED
    BY <2>1, <2>4, <2>9 DEF StreamTypes
<1>4. CASE DrainSpan
  <2>1. /\ rx \in Receiver /\ Backlog(rx) <= RingSize
        /\ UNCHANGED <<rx_starting, rx_failed, serial>> /\ torn' \in BOOLEAN
    BY <1>4 DEF DrainSpan, StreamTypes
  <2> DEFINE m == Available
             byte == rx.ring[Index(rx.tail + (m - 1))]
  <2>2. /\ m \in 1..Backlog(rx) /\ rx' \in Receiver /\ rx'.head = rx.head
        /\ rx'.tail = (rx.tail + m) % CounterRange
    BY <1>4, <2>1, DrainedFields
  <2>3. fed' = After(byte, 1)
    BY <1>4 DEF DrainSpan
  <2> HIDE DEF m
  <2>4. m \in 0..Backlog(rx) /\ m \in Int /\ Backlog(rx) \in Int
    BY <2>1, <2>2, ReceiverFields, Sizes
  <2>5. Backlog(rx') = Backlog(rx) - m
    BY <2>1, <2>2, <2>4, BacklogShrinks
  <2>6. byte \in Serial
    <3> DEFINE a == rx.tail + (m - 1)
    <3>1. a \in Int /\ rx.ring \in [0..RingSize - 1 -> Serial]
      BY <2>1, <2>4, ReceiverFields
    <3> HIDE DEF a
    <3>2. Index(a) \in 0..RingSize - 1
      BY <3>1, IndexInRing
    <3> QED
      BY <3>1, <3>2 DEF a
  <2>7. fed' \in Serial
    <3> HIDE DEF byte
    <3> QED
      BY <2>3, <2>6, AfterNone, AfterAfter
  <2> QED
    BY <2>1, <2>2, <2>4, <2>5, <2>7, Sizes DEF StreamTypes
<1> HIDE DEF Fits
<1>5. CASE UNCHANGED loopvars
  BY <1>1, <1>5 DEF loopvars
<1>6. CASE Begins
  BY <1>1, <1>6 DEF Begins, PollBegins, ReceiverRestarts, OnModemReset, SessionGoesOn, rxvars
<1>7. CASE TakeRequest
  BY <1>1, <1>7 DEF TakeRequest, Break, SessionGoesOn, AbortAll
<1>8. CASE RestartSucceeds
  BY <1>2, <1>8 DEF RestartSucceeds, SessionGoesOn
<1>9. CASE RestartFails
  BY <1>1, <1>9 DEF RestartFails, AbortAll
<1>10. CASE RestartWaits
  BY <1>1, <1>10 DEF RestartWaits, SessionGoesOn
<1>11. CASE DrainBegins \/ DrainEnds \/ PowerCycle \/ NoPowerCycle
  BY <1>1, <1>11 DEF DrainBegins, DrainEnds, PowerCycle, NoPowerCycle, AbortAll, rxvars, streamvars
<1>12. CASE UartError
  BY <1>1, <1>12 DEF UartError
<1> QED
  BY <1>3, <1>4, <1>5, <1>6, <1>7, <1>8, <1>9, <1>10, <1>11, <1>12 DEF LoopNext, Poll

(* Every step keeps the invariant, unless the head wraps within the ring.  *)
LEMMA NextStream == StreamInv /\ WrapsWell /\ [LoopNext]_loopvars => StreamInv'
<1> SUFFICES ASSUME StreamInv, WrapsWell, [LoopNext]_loopvars PROVE StreamInv'
  OBVIOUS
<1>0. StreamTypes'
  BY NextStreamTypes DEF StreamInv
<1>1. CASE UNCHANGED loopvars
  BY <1>0, <1>1, LoopGoesOn DEF loopvars, rxvars, StreamInv, Told
<1>2. CASE Begins
  BY <1>0, <1>2, PollBeginsKeeps DEF Begins
<1>3. CASE DrainBegins \/ DrainEnds
  BY <1>0, <1>3, LoopGoesOn DEF DrainBegins, DrainEnds, streamvars, StreamInv, Told
<1>4. CASE PowerCycle \/ NoPowerCycle
  BY <1>0, <1>4, LoopGoesOn DEF PowerCycle, NoPowerCycle, streamvars, AbortAll
<1>5. CASE TakeRequest \/ DrainSpan \/ OnDmaEvent \/ UartError
  BY <1>0, <1>5, TakeRequestKeeps, DrainSpanKeeps, OnDmaEventKeeps, UartErrorKeeps
<1>6. CASE RestartSucceeds \/ RestartFails \/ RestartWaits
  BY <1>0, <1>6, RestartKeeps
<1> QED
  BY <1>1, <1>2, <1>3, <1>4, <1>5, <1>6 DEF LoopNext, Poll

(* NeverTorn: for a ring that divides the range of its counters, of any    *)
(* size, and bytes in spans of any length, the client is never fed a byte  *)
(* that does not follow, however often the counters wrap.                  *)
THEOREM StreamIsWhole ==
    ASSUME CounterRange % RingSize = 0
    PROVE  LoopSpec => []NeverTorn
<1>1. WrapsWell
  BY DEF WrapsWell, Divides
<1>2. StreamInv /\ [LoopNext]_loopvars => StreamInv'
  BY <1>1, NextStream
<1>3. StreamInv => NeverTorn
  BY DEF StreamInv, NeverTorn
<1> QED
  BY InitStream, <1>2, <1>3, PTL DEF LoopSpec

(* NeverTorn for a ring of any other size, such as the product's 1152      *)
(* bytes: as long as the reception is restarted before its head comes      *)
(* within a DMA event of the end of its range.                             *)
THEOREM StreamIsWholeUntilWrap ==
    LoopSpec /\ [](rx.head + Span < CounterRange) => []NeverTorn
<1>1. rx.head + Span < CounterRange => WrapsWell
  BY DEF WrapsWell
<1>2. StreamInv => NeverTorn
  BY DEF StreamInv, NeverTorn
<1> QED
  BY InitStream, NextStream, <1>1, <1>2, PTL DEF LoopSpec

-----------------------------------------------------------------------------
(* How far the tick is from the end of the cooldown, on its way there.     *)
CooldownInv == waiting => /\ since \in 0..Cooldown
                          /\ since < Cooldown => ahead = (TickRange - Cooldown) + since

(* The cooldown is less than half a turn of the tick.                      *)
LEMMA Ticks ==
    /\ TickRange \in Nat \ {0} /\ Cooldown \in Nat \ {0} /\ Cooldown < TickRange
    /\ TickRange \div 2 < TickRange - Cooldown
<1>1. /\ TickRange \in Nat \ {0} /\ Cooldown \in Nat \ {0}
      /\ TickRange % 2 = 0 /\ Cooldown < TickRange \div 2
  BY AppAssumption DEF AppAssumption
<1>2. /\ TickRange \div 2 \in Int
      /\ TickRange = ((TickRange \div 2) * 2) + (TickRange % 2)
  <2>1. 2 \in Nat \ {0} /\ TickRange \in Int
    BY <1>1
  <2> QED
    BY <2>1, Division
<1> DEFINE half == TickRange \div 2
<1>3. half \in Int /\ TickRange = (half * 2) + 0 /\ Cooldown < half
  BY <1>1, <1>2
<1> HIDE DEF half
<1>4. Cooldown < TickRange /\ half < TickRange - Cooldown
  BY <1>1, <1>3
<1> QED
  BY <1>1, <1>4 DEF half

(* Every step keeps the distance to the end of the cooldown.               *)
LEMMA NextCooldown == CooldownInv /\ [LoopNext]_loopvars => CooldownInv'
<1> SUFFICES ASSUME CooldownInv, [LoopNext]_loopvars PROVE CooldownInv'
  OBVIOUS
<1>1. CASE UNCHANGED recoveryvars
  BY <1>1 DEF recoveryvars, CooldownInv
<1>2. ASSUME NEW milliseconds \in {0, 1}, PollBegins(milliseconds) PROVE CooldownInv'
  <2>1. CASE ~waiting
    BY <1>2, <2>1 DEF PollBegins, CooldownInv
  <2>2. CASE waiting /\ since < Cooldown
    <3>1. /\ since \in 0..Cooldown /\ ahead = (TickRange - Cooldown) + since
          /\ ahead' = (ahead + milliseconds) % TickRange /\ since' = since + milliseconds
      BY <1>2, <2>2 DEF PollBegins, CooldownInv
    <3>2. since' \in 0..Cooldown
      BY <2>2, <3>1, Ticks
    <3>3. ASSUME since' < Cooldown PROVE ahead' = (TickRange - Cooldown) + since'
      <4> DEFINE a == (TickRange - Cooldown) + since'
      <4>1. a \in 0..TickRange - 1 /\ ahead + milliseconds = a
        BY <3>1, <3>2, <3>3, Ticks
      <4> HIDE DEF a
      <4>2. a % TickRange = a
        BY <4>1, Ticks
      <4> QED
        BY <3>1, <4>1, <4>2 DEF a
    <3> QED
      BY <3>2, <3>3 DEF CooldownInv
  <2>3. CASE waiting /\ ~(since < Cooldown)
    BY <1>2, <2>3 DEF PollBegins, CooldownInv
  <2> QED
    BY <2>1, <2>2, <2>3
<1>3. CASE PowerCycle
  <2>1. since' = 0 /\ ahead' = (0 - Cooldown) % TickRange
    BY <1>3 DEF PowerCycle
  <2> DEFINE q == 0 - 1
             x == TickRange - Cooldown
  <2>2. q \in Int /\ x \in 0..TickRange - 1 /\ (q * TickRange) + x = 0 - Cooldown
    BY Ticks
  <2> HIDE DEF q, x
  <2>3. ((q * TickRange) + x) % TickRange = x
    BY <2>2, Ticks, Remainder
  <2> QED
    BY <2>1, <2>2, <2>3, Ticks DEF CooldownInv, x
<1> QED
  BY <1>1, <1>2, <1>3
     DEF LoopNext, Poll, Begins, loopvars, recoveryvars, TakeRequest, RestartSucceeds, RestartFails,
         RestartWaits, DrainBegins, DrainSpan, DrainEnds, NoPowerCycle, OnDmaEvent, UartError

(* RestartsSpaced: two power cycles are never closer than the cooldown,    *)
(* however the tick wraps and however large it and the cooldown are.       *)
THEOREM PowerCyclesAreSpaced == LoopSpec => RestartsSpaced
<1> DEFINE Spaced == reset_pending' /\ ~reset_pending /\ waiting => since >= Cooldown
<1>1. LoopInit => CooldownInv
  BY DEF LoopInit, CooldownInv
<1>2. CooldownInv /\ [LoopNext]_loopvars => Spaced
  <2> SUFFICES ASSUME CooldownInv, [LoopNext]_loopvars, reset_pending', ~reset_pending, waiting
               PROVE  since >= Cooldown
    OBVIOUS
  <2>1. PowerCycle
    BY DEF LoopNext, Poll, Begins, loopvars, PollBegins, TakeRequest, RestartSucceeds, RestartFails,
           RestartWaits, DrainBegins, DrainSpan, DrainEnds, NoPowerCycle, OnDmaEvent, UartError
  <2>2. ahead < TickRange \div 2
    BY <2>1 DEF PowerCycle, CooledDown
  <2>3. since \in 0..Cooldown /\ (since < Cooldown => ahead = (TickRange - Cooldown) + since)
    BY DEF CooldownInv
  <2>4. TickRange \div 2 \in Int
    BY Ticks, Division
  <2> QED
    BY <2>2, <2>3, <2>4, Ticks
<1>3. CooldownInv /\ [LoopNext]_loopvars => [Spaced]_loopvars
  BY <1>2
<1> QED
  BY <1>1, NextCooldown, <1>3, PTL DEF LoopSpec, RestartsSpaced

-----------------------------------------------------------------------------
(* The types of what the stream and the cooldown leave open.               *)
PassTypes ==
    /\ stage \in {"idle", "take", "restart", "retry", "drain", "draining", "recover"}
    /\ quarantined \in BOOLEAN /\ reset_pending \in BOOLEAN
    /\ waiting \in BOOLEAN /\ held \in BOOLEAN
    /\ power \in {"restart_wait", "off_hold", "rail_stable", "key_hold", "done"}

Tick == ahead \in 0..TickRange - 1 /\ since \in 0..Cooldown

LoopTypeOK == StreamTypes /\ PassTypes /\ Tick

(* Every step keeps the types of the pass.                                 *)
LEMMA NextPassTypes == PassTypes /\ [LoopNext]_loopvars => PassTypes'
<1> SUFFICES ASSUME PassTypes, [LoopNext]_loopvars PROVE PassTypes'
  OBVIOUS
<1>1. CASE UNCHANGED loopvars
  BY <1>1 DEF loopvars, PassTypes
<1>2. ASSUME NEW milliseconds \in {0, 1}, PollBegins(milliseconds) PROVE PassTypes'
  <2>1. /\ stage' = "take" /\ waiting' = waiting /\ held' \in BOOLEAN
        /\ power' \in {power, PowerAfter(power)}
    BY <1>2 DEF PollBegins, PassTypes
  <2>2. PowerAfter(power) \in {"off_hold", "rail_stable", "key_hold", "done"}
    BY DEF PowerAfter
  <2>3. quarantined' \in BOOLEAN /\ reset_pending' \in BOOLEAN
    BY <1>2 DEF PollBegins, OnModemReset, SessionGoesOn, PassTypes
  <2> QED
    BY <2>1, <2>2, <2>3 DEF PassTypes
<1>3. CASE TakeRequest
  <2>1. /\ stage' \in {"restart", "retry", "drain"} /\ quarantined' \in {quarantined, TRUE}
        /\ UNCHANGED <<power, reset_pending, waiting, held>>
    BY <1>3 DEF TakeRequest, Break, AbortAll, SessionGoesOn, recoveryvars
  <2> QED
    BY <2>1 DEF PassTypes
<1>4. CASE RestartSucceeds \/ RestartFails \/ RestartWaits
  <2>1. /\ stage' \in {"drain", "recover"} /\ quarantined' \in {quarantined, TRUE}
        /\ UNCHANGED <<power, reset_pending, waiting, held>>
    BY <1>4 DEF RestartSucceeds, RestartFails, RestartWaits, AbortAll, SessionGoesOn, recoveryvars
  <2> QED
    BY <2>1 DEF PassTypes
<1>5. CASE DrainBegins \/ DrainSpan \/ DrainEnds
  <2>1. /\ stage' \in {stage, "draining", "recover"} /\ quarantined' \in {quarantined} \cup BOOLEAN
        /\ UNCHANGED <<power, reset_pending, waiting, held>>
    BY <1>5 DEF DrainBegins, DrainSpan, DrainEnds, Work, recoveryvars
  <2> QED
    BY <2>1 DEF PassTypes
<1>6. CASE PowerCycle
  BY <1>6 DEF PowerCycle, AbortAll, PassTypes
<1>7. CASE NoPowerCycle
  BY <1>7 DEF NoPowerCycle, recoveryvars, PassTypes
<1>8. CASE OnDmaEvent \/ UartError
  BY <1>8 DEF OnDmaEvent, UartError, recoveryvars, PassTypes
<1> QED
  BY <1>1, <1>2, <1>3, <1>4, <1>5, <1>6, <1>7, <1>8 DEF LoopNext, Poll, Begins

(* The tick stays in its range, and the history in the cooldown's.         *)
LEMMA NextTick == Tick /\ [LoopNext]_loopvars => Tick'
<1> SUFFICES ASSUME Tick, [LoopNext]_loopvars PROVE Tick'
  OBVIOUS
<1>0. ahead \in Int /\ 0 \in 0..TickRange - 1 /\ 0 \in 0..Cooldown
  BY Ticks DEF Tick
<1>1. CASE UNCHANGED <<ahead, since>>
  BY <1>1 DEF Tick
<1>2. ASSUME NEW milliseconds \in {0, 1}, PollBegins(milliseconds) PROVE Tick'
  <2> DEFINE a == ahead + milliseconds
  <2>1. a \in Int
    BY <1>0
  <2> HIDE DEF a
  <2>2. a % TickRange \in 0..TickRange - 1
    BY <2>1, Ticks, Division
  <2>3. ahead' \in {a % TickRange, 0} /\ since' \in {since, since + milliseconds}
        /\ (since' # since => since < Cooldown)
    BY <1>2 DEF PollBegins, a
  <2>4. since' \in 0..Cooldown
    BY <2>3, Ticks DEF Tick
  <2> QED
    BY <1>0, <2>2, <2>3, <2>4 DEF Tick
<1>3. CASE PowerCycle
  <2>1. since' = 0 /\ ahead' = (0 - Cooldown) % TickRange
    BY <1>3 DEF PowerCycle
  <2> DEFINE a == 0 - Cooldown
  <2>2. a \in Int
    BY Ticks
  <2> HIDE DEF a
  <2>3. a % TickRange \in 0..TickRange - 1
    BY <2>2, Ticks, Division
  <2> QED
    BY <1>0, <2>1, <2>3 DEF Tick, a
<1> QED
  BY <1>1, <1>2, <1>3
     DEF LoopNext, Poll, Begins, loopvars, recoveryvars, TakeRequest, RestartSucceeds, RestartFails,
         RestartWaits, DrainBegins, DrainSpan, DrainEnds, NoPowerCycle, OnDmaEvent, UartError

(* The variables of the loop keep their types.                             *)
THEOREM LoopTypeCorrect == LoopSpec => []LoopTypeOK
<1>1. LoopInit => PassTypes
  BY DEF LoopInit, PassTypes
<1>2. LoopInit => Tick
  BY Ticks DEF LoopInit, Tick
<1>3. LoopInit => StreamTypes
  BY InitStream DEF StreamInv
<1>4. StreamTypes /\ PassTypes /\ Tick => LoopTypeOK
  BY DEF LoopTypeOK
<1> QED
  BY <1>1, <1>2, <1>3, <1>4, NextStreamTypes, NextPassTypes, NextTick, PTL DEF LoopSpec

-----------------------------------------------------------------------------
(* BootState.                                                              *)

(* While a save runs its sequence is above that of every valid page, the   *)
(* one just written excepted.                                              *)
FreshSequence == pc # "idle" =>
    \A p \in Page : valid(page[p]) /\ (pc = "verify" => p # target)
                       => page[p].sequence < next.sequence

(* How far the page under construction is.                                 *)
UnderConstruction ==
    /\ pc = "write" => page[target].words < Words
    /\ pc = "verify" => /\ page[target].words = Words
                        /\ page[target].sequence = next.sequence
                        /\ page[target].data = next.data

IInv == /\ TypeOK
        /\ SequencesDiffer
        /\ SparePageOnly
        /\ SavedIsLoaded
        /\ FreshSequence
        /\ UnderConstruction

USE BootStateAssumption

(* StateLoad's answer is the data of the valid page with the higher        *)
(* sequence, when the sequences differ.                                    *)
LEMMA LoadIsSelected ==
    ASSUME page \in [Page -> Content], SequencesDiffer
    PROVE  /\ Selected \in Page
           /\ Loadable => valid(page[Selected])
           /\ \A p \in Page : valid(page[p]) /\ p # Selected
                 => page[p].sequence < page[Selected].sequence
BY DEF Selected, Loadable, SequencesDiffer, Page, Content, valid

(* A blank page is a page.                                                 *)
LEMMA BlankContent == \A r \in Record : Blank(r) \in Content /\ ~valid(Blank(r))
BY DEF Blank, Content, valid

(* The initial state satisfies the invariant.                              *)
LEMMA InitIInv == Init => IInv
<1> SUFFICES ASSUME Init PROVE IInv
  OBVIOUS
<1> PICK r \in Record : /\ page = [p \in Page |-> Blank(r)]
                        /\ next = [sequence |-> 0, data |-> r]
  BY DEF Init
<1>1. \A p \in Page : ~valid(page[p]) /\ page[p] \in Content
  BY BlankContent
<1>2. TypeOK
  BY <1>1 DEF Init, TypeOK, Page
<1> QED
  BY <1>1, <1>2 DEF Init, IInv, SequencesDiffer, SparePageOnly, SavedIsLoaded,
     FreshSequence, UnderConstruction, Loadable, Page

(* A change of a page that is invalid afterwards and did not carry the     *)
(* current record leaves StateLoad's answer alone.                         *)
LEMMA SpareChange ==
    ASSUME page \in [Page -> Content], page' \in [Page -> Content],
           target \in Page, SequencesDiffer,
           \A p \in Page : p # target => page'[p] = page[p],
           ~valid(page'[target]),
           Loadable => target # Selected
    PROVE  StateLoad' = StateLoad /\ SequencesDiffer'
BY DEF StateLoad, Selected, Loadable, SequencesDiffer, Page, Content, valid

(* A page that becomes valid with a sequence above the other one's carries *)
(* the record StateLoad answers from then on.                              *)
LEMMA NewestAnswers ==
    ASSUME page \in [Page -> Content], page' \in [Page -> Content],
           target \in Page,
           \A p \in Page : p # target => page'[p] = page[p],
           valid(page'[target]),
           \A p \in Page : p # target /\ valid(page[p])
                              => page[p].sequence < page'[target].sequence
    PROVE  StateLoad' = page'[target].data /\ SequencesDiffer'
BY DEF StateLoad, Selected, Loadable, SequencesDiffer, Page, Content, valid

(* The page SaveBegin chooses is never the one that carries the record,    *)
(* and the sequence it chooses is above every valid page's.                *)
LEMMA SaveBeginChoice ==
    ASSUME TypeOK, SequencesDiffer
    PROVE  /\ SaveTarget \in Page
           /\ NextSequence \in Nat
           /\ Loadable => SaveTarget # Selected
           /\ \A p \in Page : valid(page[p]) => page[p].sequence < NextSequence
BY DEF TypeOK, SequencesDiffer, SaveTarget, NextSequence, Selected, Loadable,
       Page, Content, valid

(* Programming the next word of the page under construction.               *)
LEMMA ProgrammedContent ==
    ASSUME TypeOK, page[target].words < Words, NEW good \in BOOLEAN
    PROVE  /\ Programmed(good) \in [Page -> Content]
           /\ Programmed(good)[target].words = page[target].words + 1
           /\ Programmed(good)[target].sequence = next.sequence
           /\ Programmed(good)[target].data = next.data
           /\ \A p \in Page : p # target => Programmed(good)[p] = page[p]
           /\ ~valid(page[target])
           /\ Loadable => target # Selected
BY DEF TypeOK, Programmed, Page, Content, valid, Loadable, Selected

-----------------------------------------------------------------------------
(* Every step of the store keeps the invariant.                            *)
LEMMA NextIInv == IInv /\ [Next]_vars => IInv'
<1> SUFFICES ASSUME IInv, [Next]_vars PROVE IInv'
  OBVIOUS
<1> USE DEF IInv
<1>1. ASSUME NEW r \in Record, SaveBegin(r) PROVE IInv'
  <2>1. TypeOK'
    BY <1>1, SaveBeginChoice DEF TypeOK, SaveBegin
  <2>2. SequencesDiffer' /\ SparePageOnly' /\ FreshSequence'
    BY <1>1, SaveBeginChoice DEF SaveBegin, SequencesDiffer, SparePageOnly, FreshSequence,
       Loadable, Selected
  <2>3. SavedIsLoaded' /\ UnderConstruction'
    BY <1>1 DEF SaveBegin, SavedIsLoaded, UnderConstruction
  <2> QED
    BY <2>1, <2>2, <2>3
<1>2. CASE SaveRefused
  BY <1>2 DEF SaveRefused, TypeOK, SequencesDiffer, SparePageOnly, SavedIsLoaded,
     FreshSequence, UnderConstruction, Loadable, Selected
<1>3. ASSUME ErasePage \/ EraseFails,
             page' = [page EXCEPT ![target] = Erased(@)]
      PROVE  IInv'
  <2>1. page'[target] \in Content /\ ~valid(page'[target]) /\ page'[target].words = 0
    BY <1>3, BlankContent DEF Erased, TypeOK, Content, Blank
  <2>2. /\ page' \in [Page -> Content]
        /\ \A p \in Page : p # target => page'[p] = page[p]
    BY <1>3, <2>1 DEF TypeOK
  <2>3. /\ pc = "erase" /\ pc' \in {"write", "idle"}
        /\ target' = target /\ next' = next /\ result' \in {"none", "saved", "failed"}
        /\ pc' = "idle" => result' = "failed"
    BY <1>3 DEF ErasePage, EraseFails, TypeOK
  <2>4. TypeOK'
    BY <2>2, <2>3 DEF TypeOK
  <2>5. SequencesDiffer'
    BY <2>1, <2>2, <2>3, SpareChange DEF TypeOK, SparePageOnly
  <2>6. SparePageOnly'
    BY <2>1, <2>2, <2>3 DEF SparePageOnly, Loadable, Selected, Page, TypeOK
  <2>7. FreshSequence'
    BY <2>1, <2>2, <2>3 DEF FreshSequence
  <2>8. SavedIsLoaded' /\ UnderConstruction'
    BY <2>1, <2>3 DEF SavedIsLoaded, UnderConstruction
  <2> QED
    BY <2>4, <2>5, <2>6, <2>7, <2>8
<1>4. ASSUME EraseFails, page' = page PROVE IInv'
  BY <1>4 DEF EraseFails, TypeOK, SequencesDiffer, SparePageOnly, SavedIsLoaded,
     FreshSequence, UnderConstruction, Loadable, Selected
<1>5. ASSUME NEW good \in BOOLEAN, page' = Programmed(good), WriteWord \/ WriteFails
      PROVE  IInv'
  <2>1. /\ pc = "write" /\ page[target].words < Words
        /\ target' = target /\ next' = next
        /\ \/ pc' = "idle" /\ result' = "failed"
           \/ /\ pc' = IF page[target].words + 1 = Words THEN "verify" ELSE "write"
              /\ result' = result
    BY <1>5 DEF WriteWord, WriteFails
  <2>2. /\ page' \in [Page -> Content]
        /\ page'[target].words = page[target].words + 1
        /\ page'[target].sequence = next.sequence
        /\ page'[target].data = next.data
        /\ \A p \in Page : p # target => page'[p] = page[p]
        /\ ~valid(page[target])
        /\ Loadable => target # Selected
    BY <1>5, <2>1, ProgrammedContent
  <2>3. page[target].words \in Nat /\ target \in Page
    BY DEF TypeOK, Content
  <2>4. TypeOK'
    BY <2>1, <2>2 DEF TypeOK
  <2>5. SequencesDiffer'
    <3>1. CASE valid(page'[target])
      <4>1. \A p \in Page : p # target /\ valid(page[p])
                              => page[p].sequence < page'[target].sequence
        BY <2>1, <2>2 DEF FreshSequence
      <4> QED
        BY <2>2, <2>3, <3>1, <4>1, NewestAnswers DEF TypeOK
    <3>2. CASE ~valid(page'[target])
      BY <2>2, <2>3, <3>2, SpareChange DEF TypeOK
    <3> QED
      BY <3>1, <3>2
  <2>6. FreshSequence'
    <3> SUFFICES ASSUME pc' # "idle", NEW p \in Page, valid(page'[p]),
                        pc' = "verify" => p # target
                 PROVE  page'[p].sequence < next.sequence
      BY <2>1 DEF FreshSequence
    <3>1. CASE p = target
      BY <3>1, <2>1, <2>2, <2>3 DEF valid
    <3>2. CASE p # target
      BY <3>2, <2>1, <2>2 DEF FreshSequence
    <3> QED
      BY <3>1, <3>2
  <2>7. SparePageOnly'
    BY <2>1, <2>2, <2>3 DEF SparePageOnly, Loadable, Selected, Page, valid
  <2>8. SavedIsLoaded' /\ UnderConstruction'
    BY <2>1, <2>2, <2>3 DEF SavedIsLoaded, UnderConstruction, TypeOK
  <2> QED
    BY <2>4, <2>5, <2>6, <2>7, <2>8
<1>6. ASSUME WriteFails, page' = page PROVE IInv'
  BY <1>6 DEF WriteFails, TypeOK, SequencesDiffer, SparePageOnly, SavedIsLoaded,
     FreshSequence, UnderConstruction, Loadable, Selected
<1>7. CASE Verify
  <2>1. /\ pc = "verify" /\ pc' = "idle" /\ UNCHANGED <<page, next, target>>
        /\ result' \in {"saved", "failed"}
        /\ result' = "saved" => ReadBack
    BY <1>7 DEF Verify
  <2>2. TypeOK' /\ SequencesDiffer' /\ SparePageOnly' /\ FreshSequence' /\ UnderConstruction'
    BY <2>1 DEF TypeOK, SequencesDiffer, SparePageOnly, FreshSequence, UnderConstruction
  <2>3. ASSUME ReadBack PROVE StateLoad = next.data
    <3>1. Loadable /\ Selected \in Page /\ valid(page[Selected])
      BY <2>3, LoadIsSelected DEF ReadBack, Loadable, TypeOK
    <3>2. \A p \in Page : valid(page[p]) /\ p # Selected
                 => page[p].sequence < page[Selected].sequence
      BY LoadIsSelected DEF TypeOK
    <3>3. page[Selected].sequence \in Nat /\ page[target].sequence \in Nat /\ target \in Page
      BY <3>1 DEF TypeOK, Content
    <3>4. Selected = target
      BY <2>1, <2>3, <3>1, <3>2, <3>3 DEF FreshSequence, ReadBack
    <3> QED
      BY <2>3, <3>1, <3>4 DEF StateLoad, ReadBack
  <2>4. SavedIsLoaded'
    BY <2>1, <2>3 DEF SavedIsLoaded, StateLoad, Loadable, Selected
  <2> QED
    BY <2>2, <2>4
<1>8. CASE VerifyFails \/ PowerLoss
  BY <1>8 DEF VerifyFails, PowerLoss, TypeOK, SequencesDiffer, SparePageOnly, SavedIsLoaded,
     FreshSequence, UnderConstruction, Loadable, Selected
<1>9. CASE UNCHANGED vars
  BY <1>9 DEF vars, TypeOK, SequencesDiffer, SparePageOnly, SavedIsLoaded,
     FreshSequence, UnderConstruction, Loadable, Selected, StateLoad
<1>10. CASE ErasePage
  BY <1>3, <1>10 DEF ErasePage
<1>11. CASE EraseFails
  BY <1>3, <1>4, <1>11 DEF EraseFails
<1>12. CASE WriteWord
  BY <1>5, <1>12 DEF WriteWord
<1>13. CASE WriteFails
  BY <1>5, <1>6, <1>13 DEF WriteFails
<1> QED
  BY <1>1, <1>2, <1>7, <1>8, <1>9, <1>10, <1>11, <1>12, <1>13 DEF Next

(* The inductive invariant, and with it every safety property of the store, *)
(* holds for all values of the constants.                                   *)
THEOREM StoreInvariant == Spec => []IInv
BY InitIInv, NextIInv, PTL DEF Spec

(* Each safety property the model checking runs check, from the invariant. *)
THEOREM TypeCorrect == Spec => []TypeOK
BY StoreInvariant, PTL DEF IInv

THEOREM SpareOnly == Spec => []SparePageOnly
BY StoreInvariant, PTL DEF IInv

THEOREM SavedRecordAnswers == Spec => []SavedIsLoaded
BY StoreInvariant, PTL DEF IInv

-----------------------------------------------------------------------------
(* The record a running save writes, as the refinement sees it.            *)
Saving == IF pc = "idle" THEN NoRecord ELSE next.data

(* A step of the store is a step of the atomic record or leaves it alone.  *)
LEMMA StepRefines == IInv /\ IInv' /\ [Next]_vars => [Atomic!Next]_(Atomic!vars)
<1> SUFFICES ASSUME IInv, IInv', [Next]_vars
             PROVE  \/ Atomic!Next
                    \/ StateLoad' = StateLoad /\ Saving' = Saving /\ result' = result
  BY DEF Atomic!vars, Saving
<1> USE DEF IInv
<1>0. next.data \in Record /\ next.data # NoRecord /\ target \in Page
  BY DEF TypeOK
<1>1. ASSUME NEW r \in Record, SaveBegin(r) PROVE Atomic!Begin(r)
  BY <1>1 DEF SaveBegin, Atomic!Begin, StateLoad, Loadable, Selected
<1>2. CASE SaveRefused
  BY <1>2 DEF SaveRefused, Atomic!Next, Atomic!Refuse, StateLoad, Loadable, Selected
<1>3. ASSUME ErasePage \/ EraseFails
      PROVE  StateLoad' = StateLoad
  <2>1. CASE page' = page
    BY <2>1 DEF StateLoad, Loadable, Selected
  <2>2. CASE page' = [page EXCEPT ![target] = Erased(@)]
    <3>1. /\ ~valid(page'[target])
          /\ \A p \in Page : p # target => page'[p] = page[p]
      BY <1>0, <2>2, BlankContent DEF Erased, TypeOK, Content
    <3>2. Loadable => target # Selected
      BY <1>3 DEF ErasePage, EraseFails, SparePageOnly
    <3> QED
      BY <1>0, <3>1, <3>2, SpareChange DEF TypeOK
  <2> QED
    BY <1>3, <2>1, <2>2 DEF ErasePage, EraseFails
<1>4. CASE ErasePage
  BY <1>3, <1>4 DEF ErasePage, Saving
<1>5. CASE EraseFails
  <2>1. Atomic!Return("failed")
    BY <1>0, <1>3, <1>5 DEF EraseFails, Atomic!Return
  <2> QED
    BY <2>1 DEF Atomic!Next
<1>6. ASSUME NEW good \in BOOLEAN, page' = Programmed(good), page[target].words < Words,
             pc = "write"
      PROVE  StateLoad' \in {StateLoad, next.data}
  <2>1. /\ page'[target].sequence = next.sequence
        /\ page'[target].data = next.data
        /\ \A p \in Page : p # target => page'[p] = page[p]
        /\ Loadable => target # Selected
    BY <1>6, ProgrammedContent
  <2>2. CASE valid(page'[target])
    <3>1. \A p \in Page : p # target /\ valid(page[p])
                            => page[p].sequence < page'[target].sequence
      BY <1>6, <2>1 DEF FreshSequence
    <3> QED
      BY <1>0, <2>1, <2>2, <3>1, NewestAnswers DEF TypeOK
  <2>3. CASE ~valid(page'[target])
    BY <1>0, <2>1, <2>3, SpareChange DEF TypeOK
  <2> QED
    BY <2>2, <2>3
<1>7. CASE WriteWord
  <2>1. StateLoad' \in {StateLoad, next.data}
    BY <1>6, <1>7 DEF WriteWord
  <2>2. pc # "idle" /\ pc' # "idle" /\ next' = next /\ result' = result
    BY <1>7 DEF WriteWord
  <2>3. CASE StateLoad' = StateLoad
    BY <2>2, <2>3 DEF Saving
  <2>4. CASE StateLoad' = next.data
    BY <1>0, <2>2, <2>4 DEF Atomic!Next, Atomic!Commit
  <2> QED
    BY <2>1, <2>3, <2>4
<1>8. CASE WriteFails
  <2>1. StateLoad' \in {StateLoad, next.data}
    <3>1. CASE page' = page
      BY <3>1 DEF StateLoad, Loadable, Selected
    <3>2. CASE page' # page
      BY <1>6, <1>8, <3>2 DEF WriteFails
    <3> QED
      BY <3>1, <3>2
  <2>2. Atomic!Return("failed")
    BY <1>0, <1>8, <2>1 DEF WriteFails, Atomic!Return
  <2> QED
    BY <2>2 DEF Atomic!Next
<1>9. CASE Verify
  <2>1. StateLoad' = StateLoad
    BY <1>9 DEF Verify, StateLoad, Loadable, Selected
  <2>2. result' = "saved" => StateLoad' = next.data
    BY <1>9 DEF Verify, SavedIsLoaded
  <2>3. Atomic!Return(result')
    BY <1>0, <1>9, <2>1, <2>2 DEF Verify, Atomic!Return
  <2> QED
    BY <1>9, <2>3 DEF Verify, Atomic!Next
<1>10. CASE VerifyFails
  <2>1. Atomic!Return("failed")
    BY <1>0, <1>10 DEF VerifyFails, Atomic!Return, StateLoad, Loadable, Selected
  <2> QED
    BY <2>1 DEF Atomic!Next
<1>11. CASE PowerLoss
  BY <1>11 DEF PowerLoss, Atomic!Next, Atomic!PowerLoss, StateLoad, Loadable, Selected
<1>12. CASE UNCHANGED vars
  BY <1>12 DEF vars, StateLoad, Loadable, Selected, Saving
<1> QED
  BY <1>1, <1>2, <1>4, <1>5, <1>7, <1>8, <1>9, <1>10, <1>11, <1>12 DEF Next, Atomic!Next

(* The two-page store implements the atomic record: whatever the Flash     *)
(* does and whenever the power fails, a save takes effect at one instant   *)
(* or not at all, and one that reports success took effect.                *)
THEOREM StoreIsAtomic == Spec => ImplementsAtomicRecord
<1>1. Init => Atomic!Init
  <2> SUFFICES ASSUME Init PROVE Atomic!Init
    OBVIOUS
  <2>1. ~Loadable
    BY BlankContent DEF Init, Loadable
  <2> QED
    BY <2>1 DEF Init, Atomic!Init, StateLoad
<1> QED
  BY <1>1, StepRefines, StoreInvariant, PTL DEF Spec, Atomic!Spec, ImplementsAtomicRecord

-----------------------------------------------------------------------------
(* The staging context keeps both of its files: the CA file it provisions  *)
(* and the stable slot it fills.                                           *)
Answer == {"asked", "prompted", "given", "refused", "ok", "error"}
Handle == Name \cup {"none", "other"}
Order == [cmd : Provisioning \cup Seeding \cup {Foreign}, stage : Answer, handle : Handle]
Link == {"none", "queued", "sent", "prompted", "given"}
Context == [state : State \cup {"MQTT_CLOSE"}, link : Link, provisioned : BOOLEAN,
            busy : BOOLEAN, seeding : BOOLEAN, handle : Handle, probe_index : Nat,
            ca_repair_attempted : BOOLEAN, ca_repair_pending : BOOLEAN, ca_read_size : Nat,
            ca_ok : BOOLEAN, stable_checked : BOOLEAN, listed : {"no", "short", "whole"},
            downloaded : Nat, read_size : Nat, crc_ok : BOOLEAN, written : Nat,
            borrowed : BOOLEAN, paused : BOOLEAN, failure_pending : BOOLEAN,
            install_ready : BOOLEAN]

StagingTypeOK ==
    /\ g \in Context
    /\ rec \in [seeded : BOOLEAN, pending : BOOLEAN]
    /\ gate \in BOOLEAN
    /\ wire \in Seq(Order) /\ Len(wire) <= Unanswered
    /\ files \in [Name -> [chunks : Nat, sound : BOOLEAN, there : BOOLEAN]]
    /\ pos \in [Name -> Nat]

(* No file is longer than it should be, or read beyond its end.            *)
Fits(c, p) ==
    /\ p["ca"] <= c["ca"].chunks /\ c["ca"].chunks <= CaChunks
    /\ p["slot"] <= c["slot"].chunks /\ c["slot"].chunks <= Chunks
    /\ \A f \in Name : ~c[f].there => c[f].chunks = 0

(* What the state says of the rest of the context.                         *)
Counting == {"VERIFY_READ", "VERIFY_CLOSE", "VERIFY"}
Proper(e) ==
    /\ e.link # "none" => e.state \in Provisioning \cup Seeding
    /\ e.state = "PROBE" => e.probe_index \in 1..Probes
    /\ e.state \in Provisioning => ~e.provisioned
    /\ e.busy => e.provisioned /\ e.state \in Seeding \cup {"MQTT_QUIESCE", "DOWNLOADER", "VERIFY"}
    /\ e.seeding => e.busy /\ e.state # "DOWNLOADER"
    /\ e.state \in Seeding \cup {"VERIFY"} => e.seeding
    /\ e.read_size > 0 => e.state \in Counting

Sending(e) == e.link \notin {"none", "queued"}

(* While the capabilities are asked for, whatever an earlier work left on  *)
(* the wire has the probes sent so far behind it.                          *)
Asked(e) == IF e.state = "CA_OPEN" THEN Probes
            ELSE IF Sending(e) THEN e.probe_index ELSE e.probe_index - 1
Aged(e, w) ==
    e.state = "PROBE" \/ (e.state = "CA_OPEN" /\ ~Sending(e)) =>
        \A i \in 1..Len(w) : w[i].cmd # "PROBE" => Len(w) - i >= Asked(e)

(* Afterwards the wire has only what this provisioning, and the seed that  *)
(* follows it, have come to; of an upload or a write, only the own one.    *)
Rank(s) == CASE s = "PROBE" -> 0
             [] s = "CA_OPEN" -> 1
             [] s = "CA_QUERY" -> 2
             [] s = "CA_READ" -> 3
             [] s = "CA_CLOSE" -> 4
             [] s = "CA_DELETE" -> 5
             [] s \in {"CA_UPLOAD", "IDLE", "MQTT_QUIESCE"} -> 6
             [] s = "FILE_DELETE" -> 7
             [] s = "FILE_OPEN" -> 8
             [] s = "FILE_WRITE" -> 9
             [] OTHER -> 10
Bound(e, r) == \/ e.state \in Provisioning \ {"PROBE", "CA_OPEN"}
               \/ (e.state = "CA_OPEN" /\ Sending(e))
               \/ e.seeding
               \/ (e.state = "IDLE" /\ ~r.pending /\ ~r.seeded)
Ranked(e, w, r) ==
    Bound(e, r) => \A i \in 1..Len(w) :
        /\ Rank(w[i].cmd) <= Rank(e.state)
        /\ w[i].cmd \in PayloadCommand /\ w[i].cmd = e.state => i = Len(w) /\ Sending(e)

(* Whoever was asked for its payload is the only one.                      *)
Alone(e, w) == e.state \in PayloadCommand /\ e.link \in {"prompted", "given"} =>
                   w = <<>> \/ (Len(w) = 1 /\ w[1].cmd = e.state)

(* What was read of the CA file, and found right, is what the file holds.  *)
Comparing(e) == e.state = "CA_READ" \/ (e.state = "CA_CLOSE" /\ ~e.ca_repair_pending)
Compared(e, w, c, p) == Comparing(e) =>
    /\ e.ca_ok => /\ e.ca_read_size <= p["ca"]
                  /\ e.ca_read_size > 0 => c["ca"].there /\ c["ca"].sound
    /\ \A i \in 1..Len(w) : w[i].cmd = "CA_OPEN" /\ w[i].stage = "asked" =>
           /\ e.ca_read_size = 0
           /\ \A j \in 1..(i - 1) : w[j].cmd # "CA_READ"

(* Once the slot is written the modem has one command at most, and what is *)
(* read of the slot is what it holds.                                      *)
Reading == {"FILE_CLOSE", "FILE_LIST", "VERIFY_OPEN"} \cup Counting
ReadAlone(e, w, c, p) == e.state \in Reading =>
    /\ w = <<>> \/ (Sending(e) /\ Len(w) = 1 /\ w[1].cmd = e.state)
    /\ e.crc_ok => /\ e.read_size <= p["slot"]
                   /\ e.read_size > 0 => c["slot"].there /\ c["slot"].sound

(* Both files stay what they are once they are relied on.                  *)
Spares(w, C) == \A i \in 1..Len(w) : w[i].cmd \notin C
CaStays(e, w, c) == e.provisioned =>
    /\ c["ca"].there /\ c["ca"].chunks = CaChunks /\ c["ca"].sound
    /\ Spares(w, {"CA_DELETE", "CA_UPLOAD"})
SlotStays(e, w, c, r) == r.seeded =>
    /\ ~e.seeding
    /\ c["slot"].there /\ c["slot"].chunks = Chunks /\ c["slot"].sound
    /\ Spares(w, {"FILE_DELETE", "FILE_OPEN", "FILE_WRITE"})

Held(e, w, c, p, r) ==
    /\ Aged(e, w) /\ Ranked(e, w, r) /\ Alone(e, w)
    /\ Compared(e, w, c, p) /\ ReadAlone(e, w, c, p)
    /\ CaStays(e, w, c) /\ SlotStays(e, w, c, r)

StagingInv == StagingTypeOK /\ Fits(files, pos) /\ Proper(g) /\ Held(g, wire, files, pos, rec)

-----------------------------------------------------------------------------
(* The context, one field at a time.                                       *)
Posed(f, e) == f.state = e.state /\ f.link = e.link
Flagged(f, e) == f.provisioned = e.provisioned /\ f.busy = e.busy /\ f.seeding = e.seeding
CaCounted(f, e) == /\ f.probe_index = e.probe_index /\ f.ca_repair_pending = e.ca_repair_pending
                   /\ f.ca_read_size = e.ca_read_size /\ f.ca_ok = e.ca_ok
SlotCounted(f, e) == f.read_size = e.read_size /\ f.crc_ok = e.crc_ok
Like(f, e) == Posed(f, e) /\ Flagged(f, e) /\ CaCounted(f, e) /\ SlotCounted(f, e)

LEMMA PutHandle ==
    ASSUME NEW e \in Context, NEW v \in Handle
    PROVE  LET h == [e EXCEPT !.handle = v] IN h \in Context /\ Like(h, e)
  BY DEF Context, Like, Posed, Flagged, CaCounted, SlotCounted

LEMMA PutAttempted ==
    ASSUME NEW e \in Context, NEW v \in BOOLEAN
    PROVE  LET h == [e EXCEPT !.ca_repair_attempted = v] IN h \in Context /\ Like(h, e)
  BY DEF Context, Like, Posed, Flagged, CaCounted, SlotCounted

LEMMA PutChecked ==
    ASSUME NEW e \in Context, NEW v \in BOOLEAN
    PROVE  LET h == [e EXCEPT !.stable_checked = v] IN h \in Context /\ Like(h, e)
  BY DEF Context, Like, Posed, Flagged, CaCounted, SlotCounted

LEMMA PutListed ==
    ASSUME NEW e \in Context, NEW v \in {"no", "short", "whole"}
    PROVE  LET h == [e EXCEPT !.listed = v] IN h \in Context /\ Like(h, e)
  BY DEF Context, Like, Posed, Flagged, CaCounted, SlotCounted

LEMMA PutDownloaded ==
    ASSUME NEW e \in Context, NEW v \in Nat
    PROVE  LET h == [e EXCEPT !.downloaded = v] IN h \in Context /\ Like(h, e)
  BY DEF Context, Like, Posed, Flagged, CaCounted, SlotCounted

LEMMA PutWritten ==
    ASSUME NEW e \in Context, NEW v \in Nat
    PROVE  LET h == [e EXCEPT !.written = v] IN h \in Context /\ Like(h, e)
  BY DEF Context, Like, Posed, Flagged, CaCounted, SlotCounted

LEMMA PutBorrowed ==
    ASSUME NEW e \in Context, NEW v \in BOOLEAN
    PROVE  LET h == [e EXCEPT !.borrowed = v] IN h \in Context /\ Like(h, e)
  BY DEF Context, Like, Posed, Flagged, CaCounted, SlotCounted

LEMMA PutPaused ==
    ASSUME NEW e \in Context, NEW v \in BOOLEAN
    PROVE  LET h == [e EXCEPT !.paused = v] IN h \in Context /\ Like(h, e)
  BY DEF Context, Like, Posed, Flagged, CaCounted, SlotCounted

LEMMA PutFailure ==
    ASSUME NEW e \in Context, NEW v \in BOOLEAN
    PROVE  LET h == [e EXCEPT !.failure_pending = v] IN h \in Context /\ Like(h, e)
  BY DEF Context, Like, Posed, Flagged, CaCounted, SlotCounted

LEMMA PutReady ==
    ASSUME NEW e \in Context, NEW v \in BOOLEAN
    PROVE  LET h == [e EXCEPT !.install_ready = v] IN h \in Context /\ Like(h, e)
  BY DEF Context, Like, Posed, Flagged, CaCounted, SlotCounted

LEMMA PutState ==
    ASSUME NEW e \in Context, NEW v \in State \cup {"MQTT_CLOSE"}
    PROVE  LET h == [e EXCEPT !.state = v] IN
           /\ h \in Context /\ h.state = v /\ h.link = e.link
           /\ Flagged(h, e) /\ CaCounted(h, e) /\ SlotCounted(h, e)
  BY DEF Context, Posed, Flagged, CaCounted, SlotCounted

LEMMA PutLink ==
    ASSUME NEW e \in Context, NEW v \in Link
    PROVE  LET h == [e EXCEPT !.link = v] IN
           /\ h \in Context /\ h.link = v /\ h.state = e.state
           /\ Flagged(h, e) /\ CaCounted(h, e) /\ SlotCounted(h, e)
  BY DEF Context, Posed, Flagged, CaCounted, SlotCounted

LEMMA PutProvisioned ==
    ASSUME NEW e \in Context, NEW v \in BOOLEAN
    PROVE  LET h == [e EXCEPT !.provisioned = v] IN
           /\ h \in Context /\ h.provisioned = v /\ h.busy = e.busy /\ h.seeding = e.seeding
           /\ Posed(h, e) /\ CaCounted(h, e) /\ SlotCounted(h, e)
  BY DEF Context, Posed, Flagged, CaCounted, SlotCounted

LEMMA PutBusy ==
    ASSUME NEW e \in Context, NEW v \in BOOLEAN
    PROVE  LET h == [e EXCEPT !.busy = v] IN
           /\ h \in Context /\ h.busy = v /\ h.provisioned = e.provisioned /\ h.seeding = e.seeding
           /\ Posed(h, e) /\ CaCounted(h, e) /\ SlotCounted(h, e)
  BY DEF Context, Posed, Flagged, CaCounted, SlotCounted

LEMMA PutSeeding ==
    ASSUME NEW e \in Context, NEW v \in BOOLEAN
    PROVE  LET h == [e EXCEPT !.seeding = v] IN
           /\ h \in Context /\ h.seeding = v /\ h.provisioned = e.provisioned /\ h.busy = e.busy
           /\ Posed(h, e) /\ CaCounted(h, e) /\ SlotCounted(h, e)
  BY DEF Context, Posed, Flagged, CaCounted, SlotCounted

LEMMA PutIndex ==
    ASSUME NEW e \in Context, NEW v \in Nat
    PROVE  LET h == [e EXCEPT !.probe_index = v] IN
           /\ h \in Context /\ h.probe_index = v /\ h.ca_repair_pending = e.ca_repair_pending /\ h.ca_read_size = e.ca_read_size /\ h.ca_ok = e.ca_ok
           /\ Posed(h, e) /\ Flagged(h, e) /\ SlotCounted(h, e)
  BY DEF Context, Posed, Flagged, CaCounted, SlotCounted

LEMMA PutRepair ==
    ASSUME NEW e \in Context, NEW v \in BOOLEAN
    PROVE  LET h == [e EXCEPT !.ca_repair_pending = v] IN
           /\ h \in Context /\ h.ca_repair_pending = v /\ h.probe_index = e.probe_index /\ h.ca_read_size = e.ca_read_size /\ h.ca_ok = e.ca_ok
           /\ Posed(h, e) /\ Flagged(h, e) /\ SlotCounted(h, e)
  BY DEF Context, Posed, Flagged, CaCounted, SlotCounted

LEMMA PutCaRead ==
    ASSUME NEW e \in Context, NEW v \in Nat
    PROVE  LET h == [e EXCEPT !.ca_read_size = v] IN
           /\ h \in Context /\ h.ca_read_size = v /\ h.probe_index = e.probe_index /\ h.ca_repair_pending = e.ca_repair_pending /\ h.ca_ok = e.ca_ok
           /\ Posed(h, e) /\ Flagged(h, e) /\ SlotCounted(h, e)
  BY DEF Context, Posed, Flagged, CaCounted, SlotCounted

LEMMA PutCaOk ==
    ASSUME NEW e \in Context, NEW v \in BOOLEAN
    PROVE  LET h == [e EXCEPT !.ca_ok = v] IN
           /\ h \in Context /\ h.ca_ok = v /\ h.probe_index = e.probe_index /\ h.ca_repair_pending = e.ca_repair_pending /\ h.ca_read_size = e.ca_read_size
           /\ Posed(h, e) /\ Flagged(h, e) /\ SlotCounted(h, e)
  BY DEF Context, Posed, Flagged, CaCounted, SlotCounted

LEMMA PutRead ==
    ASSUME NEW e \in Context, NEW v \in Nat
    PROVE  LET h == [e EXCEPT !.read_size = v] IN
           /\ h \in Context /\ h.read_size = v /\ h.crc_ok = e.crc_ok
           /\ Posed(h, e) /\ Flagged(h, e) /\ CaCounted(h, e)
  BY DEF Context, Posed, Flagged, CaCounted, SlotCounted

LEMMA PutCrc ==
    ASSUME NEW e \in Context, NEW v \in BOOLEAN
    PROVE  LET h == [e EXCEPT !.crc_ok = v] IN
           /\ h \in Context /\ h.crc_ok = v /\ h.read_size = e.read_size
           /\ Posed(h, e) /\ Flagged(h, e) /\ CaCounted(h, e)
  BY DEF Context, Posed, Flagged, CaCounted, SlotCounted

-----------------------------------------------------------------------------
(* What the functions of the context make of it.                           *)
Rests(f, e) == /\ f \in Context /\ f.state = "RETRY" /\ f.link = "none"
               /\ ~f.busy /\ ~f.seeding /\ f.read_size = 0
               /\ f.provisioned => e.provisioned
Asks(f, e, s) == /\ f \in Context /\ f.state = s /\ f.link = "queued"
                 /\ Flagged(f, e) /\ CaCounted(f, e) /\ SlotCounted(f, e)

LEMMA ClearedKeeps ==
    ASSUME NEW e \in Context
    PROVE  LET h == Cleared(e) IN
           h \in Context /\ h.state = e.state /\ h.link = "none" /\ Flagged(h, e) /\ h.read_size = 0
  <1> DEFINE yes == TRUE
             no == FALSE
             e1 == [e EXCEPT !.link = "none"]
             e2 == [e1 EXCEPT !.handle = "none"]
             e3 == [e2 EXCEPT !.probe_index = 0]
             e4 == [e3 EXCEPT !.ca_repair_attempted = no]
             e5 == [e4 EXCEPT !.ca_repair_pending = no]
             e6 == [e5 EXCEPT !.ca_read_size = 0]
             e7 == [e6 EXCEPT !.ca_ok = yes]
             e8 == [e7 EXCEPT !.listed = "no"]
             e9 == [e8 EXCEPT !.downloaded = 0]
             e10 == [e9 EXCEPT !.read_size = 0]
             e11 == [e10 EXCEPT !.crc_ok = yes]
  <1>1. Cleared(e) = e11
    BY DEF Cleared
  <1>2. yes \in BOOLEAN /\ no \in BOOLEAN /\ "none" \in Link /\ "none" \in Handle
        /\ "no" \in {"no", "short", "whole"}
    BY DEF Link, Handle
  <1> HIDE DEF yes, no
  <1>3. e1 \in Context /\ e1.link = "none" /\ e1.state = e.state /\ Flagged(e1, e)
    BY <1>2, PutLink
  <1> HIDE DEF e1
  <1>4. e2 \in Context /\ Like(e2, e1)
    BY <1>2, <1>3, PutHandle
  <1> HIDE DEF e2
  <1>5. e3 \in Context /\ Posed(e3, e2) /\ Flagged(e3, e2)
    BY <1>4, PutIndex
  <1> HIDE DEF e3
  <1>6. e4 \in Context /\ Like(e4, e3)
    BY <1>2, <1>5, PutAttempted
  <1> HIDE DEF e4
  <1>7. e5 \in Context /\ Posed(e5, e4) /\ Flagged(e5, e4)
    BY <1>2, <1>6, PutRepair
  <1> HIDE DEF e5
  <1>8. e6 \in Context /\ Posed(e6, e5) /\ Flagged(e6, e5)
    BY <1>7, PutCaRead
  <1> HIDE DEF e6
  <1>9. e7 \in Context /\ Posed(e7, e6) /\ Flagged(e7, e6)
    BY <1>2, <1>8, PutCaOk
  <1> HIDE DEF e7
  <1>10. e8 \in Context /\ Like(e8, e7)
    BY <1>2, <1>9, PutListed
  <1> HIDE DEF e8
  <1>11. e9 \in Context /\ Like(e9, e8)
    BY <1>10, PutDownloaded
  <1> HIDE DEF e9
  <1>12. e10 \in Context /\ e10.read_size = 0 /\ Posed(e10, e9) /\ Flagged(e10, e9)
    BY <1>11, PutRead
  <1> HIDE DEF e10
  <1>13. e11 \in Context /\ e11.read_size = e10.read_size /\ Posed(e11, e10) /\ Flagged(e11, e10)
    BY <1>2, <1>12, PutCrc
  <1> HIDE DEF e11
  <1> QED
    BY <1>1, <1>3, <1>4, <1>5, <1>6, <1>7, <1>8, <1>9, <1>10, <1>11, <1>12, <1>13
    DEF Like, Posed, Flagged

LEMMA ResumedLike ==
    ASSUME NEW e \in Context
    PROVE  Resumed(e) \in Context /\ Like(Resumed(e), e)
  <1> DEFINE no == FALSE
             e1 == [e EXCEPT !.borrowed = no]
             e2 == [e1 EXCEPT !.paused = no]
  <1>1. Resumed(e) = e2
    BY DEF Resumed
  <1>2. no \in BOOLEAN
    OBVIOUS
  <1> HIDE DEF no
  <1>3. e1 \in Context /\ Like(e1, e)
    BY <1>2, PutBorrowed
  <1> HIDE DEF e1
  <1>4. e2 \in Context /\ Like(e2, e1)
    BY <1>2, <1>3, PutPaused
  <1> HIDE DEF e2
  <1> QED
    BY <1>1, <1>3, <1>4 DEF Like, Posed, Flagged, CaCounted, SlotCounted

LEMMA ProvisionRests ==
    ASSUME NEW e \in Context, ~e.busy, ~e.seeding
    PROVE  Rests(ProvisionFailed(e), e) /\ ~ProvisionFailed(e).provisioned
  <1> DEFINE no == FALSE
             e1 == Cleared(e)
             e2 == [e1 EXCEPT !.provisioned = no]
             e3 == [e2 EXCEPT !.state = "RETRY"]
  <1>1. ProvisionFailed(e) = e3
    BY DEF ProvisionFailed
  <1>2. no \in BOOLEAN /\ ~no /\ "RETRY" \in State \cup {"MQTT_CLOSE"}
    BY DEF State
  <1> HIDE DEF no
  <1>3. e1 \in Context /\ e1.link = "none" /\ Flagged(e1, e) /\ e1.read_size = 0
    BY ClearedKeeps
  <1> HIDE DEF e1
  <1>4. /\ e2 \in Context /\ e2.provisioned = no /\ e2.busy = e1.busy /\ e2.seeding = e1.seeding
        /\ Posed(e2, e1) /\ SlotCounted(e2, e1)
    BY <1>2, <1>3, PutProvisioned
  <1> HIDE DEF e2
  <1>5. e3 \in Context /\ e3.state = "RETRY" /\ e3.link = e2.link /\ Flagged(e3, e2) /\ SlotCounted(e3, e2)
    BY <1>2, <1>4, PutState
  <1> HIDE DEF e3
  <1> QED
    BY <1>1, <1>2, <1>3, <1>4, <1>5 DEF Rests, Posed, Flagged, SlotCounted

LEMMA DownloadRests ==
    ASSUME NEW e \in Context
    PROVE  Rests(DownloadFailed(e), e)
  <1> DEFINE no == FALSE
             e0 == Cleared(e)
             e1 == Resumed(e0)
             failure == e1.failure_pending \/ (e.busy /\ ~e.seeding)
             checked == e1.stable_checked /\ ~e.seeding
             e2 == [e1 EXCEPT !.failure_pending = failure]
             e3 == [e2 EXCEPT !.stable_checked = checked]
             e4 == [e3 EXCEPT !.busy = no]
             e5 == [e4 EXCEPT !.seeding = no]
             e6 == [e5 EXCEPT !.state = "RETRY"]
  <1>0. e0 \in Context /\ e0.link = "none" /\ Flagged(e0, e) /\ e0.read_size = 0
    BY ClearedKeeps
  <1>1. e1 \in Context /\ Like(e1, e0)
    BY <1>0, ResumedLike
  <1>2. e1.stable_checked = e2.stable_checked /\ failure \in BOOLEAN /\ checked \in BOOLEAN
    BY <1>1 DEF Context
  <1>3. DownloadFailed(e) = e6
    BY <1>1, <1>2 DEF DownloadFailed, Context
  <1>4. no \in BOOLEAN /\ ~no /\ "RETRY" \in State \cup {"MQTT_CLOSE"}
    BY DEF State
  <1> HIDE DEF no, e0, e1, failure, checked
  <1>5. e2 \in Context /\ Like(e2, e1)
    BY <1>1, <1>2, PutFailure
  <1> HIDE DEF e2
  <1>6. e3 \in Context /\ Like(e3, e2)
    BY <1>2, <1>5, PutChecked
  <1> HIDE DEF e3
  <1>7. /\ e4 \in Context /\ e4.busy = no /\ e4.provisioned = e3.provisioned
        /\ Posed(e4, e3) /\ SlotCounted(e4, e3)
    BY <1>4, <1>6, PutBusy
  <1> HIDE DEF e4
  <1>8. /\ e5 \in Context /\ e5.seeding = no /\ e5.provisioned = e4.provisioned /\ e5.busy = e4.busy
        /\ Posed(e5, e4) /\ SlotCounted(e5, e4)
    BY <1>4, <1>7, PutSeeding
  <1> HIDE DEF e5
  <1>9. e6 \in Context /\ e6.state = "RETRY" /\ e6.link = e5.link /\ Flagged(e6, e5) /\ SlotCounted(e6, e5)
    BY <1>4, <1>8, PutState
  <1> HIDE DEF e6
  <1>10. /\ e6.link = "none" /\ e6.read_size = 0 /\ e6.provisioned = e.provisioned
         /\ ~e6.busy /\ ~e6.seeding
    BY <1>0, <1>1, <1>4, <1>5, <1>6, <1>7, <1>8, <1>9 DEF Like, Posed, Flagged, SlotCounted
  <1> QED
    BY <1>3, <1>9, <1>10 DEF Rests

LEMMA FailedRests ==
    ASSUME NEW e \in Context, e.state \in Provisioning => ~e.busy /\ ~e.seeding
    PROVE  Rests(Failed(e), e)
  BY ProvisionRests, DownloadRests DEF Failed

LEMMA IssueAsks ==
    ASSUME NEW e \in Context, NEW s \in Provisioning \cup Seeding,
           s \in Provisioning => ~e.busy /\ ~e.seeding, NEW f \in Issue(e, s)
    PROVE  Rests(f, e) \/ Asks(f, e, s)
  <1> DEFINE h == [e EXCEPT !.state = s]
             q == [h EXCEPT !.link = "queued"]
  <1>1. s \in State \cup {"MQTT_CLOSE"} /\ "queued" \in Link
    BY DEF State, Link
  <1>2. h \in Context /\ h.state = s /\ Flagged(h, e) /\ CaCounted(h, e) /\ SlotCounted(h, e)
    BY <1>1, PutState
  <1>3. f = q \/ f = Failed(h)
    BY DEF Issue, Submitted
  <1> HIDE DEF h
  <1>4. /\ q \in Context /\ q.link = "queued" /\ q.state = h.state
        /\ Flagged(q, h) /\ CaCounted(q, h) /\ SlotCounted(q, h)
    BY <1>1, <1>2, PutLink
  <1> HIDE DEF q
  <1>5. Rests(Failed(h), h)
    BY <1>2, FailedRests DEF Flagged
  <1>6. Rests(Failed(h), e)
    BY <1>2, <1>5 DEF Rests, Flagged
  <1>7. Asks(q, e, s)
    BY <1>2, <1>4 DEF Asks, Flagged, CaCounted, SlotCounted
  <1> QED
    BY <1>3, <1>6, <1>7

-----------------------------------------------------------------------------
(* What a command that is done leads to: the next one, a state that waits  *)
(* for the Task, the end of the provisioning, or a failure.                *)
Pairs == {<<"FILE_DELETE", "FILE_OPEN">>, <<"FILE_OPEN", "FILE_WRITE">>,
          <<"FILE_WRITE", "FILE_WRITE">>, <<"FILE_WRITE", "FILE_CLOSE">>,
          <<"FILE_CLOSE", "FILE_LIST">>, <<"FILE_LIST", "VERIFY_OPEN">>,
          <<"VERIFY_READ", "VERIFY_CLOSE">>}
Leads(f, e) ==
    \/ (e.state = "PROBE" /\ f.state = "PROBE" /\ f.probe_index = e.probe_index + 1
        /\ f.probe_index <= Probes)
    \/ (e.state = "PROBE" /\ f.state = "CA_OPEN" /\ e.probe_index >= Probes)
    \/ (e.state = "CA_OPEN" /\ f.state = "CA_READ" /\ f.ca_read_size = 0)
    \/ (e.state = "CA_OPEN" /\ f.state = "CA_QUERY")
    \/ (e.state = "CA_QUERY" /\ f.state = "CA_CLOSE" /\ f.ca_repair_pending)
    \/ (e.state \in {"CA_QUERY", "CA_DELETE"} /\ f.state = "CA_UPLOAD")
    \/ (e.state = "CA_READ" /\ f.state \in {"CA_READ", "CA_CLOSE"}
        /\ f.ca_read_size = e.ca_read_size /\ f.ca_ok = e.ca_ok)
    \/ (e.state = "CA_CLOSE" /\ f.state = "CA_DELETE")
    \/ (e.state = "CA_UPLOAD" /\ f.state = "CA_OPEN")
    \/ <<e.state, f.state>> \in Pairs
Follows(f, e) == /\ f \in Context /\ f.link = "queued" /\ Flagged(f, e) /\ SlotCounted(f, e)
                 /\ Leads(f, e)
Waits(f, e) == /\ f \in Context /\ f.link = "none" /\ Flagged(f, e) /\ SlotCounted(f, e)
               /\ <<e.state, f.state>> \in {<<"VERIFY_OPEN", "VERIFY_READ">>,
                                            <<"VERIFY_READ", "VERIFY_READ">>,
                                            <<"VERIFY_CLOSE", "VERIFY">>}
Provisions(f, e) == /\ e.state = "CA_CLOSE" /\ ~e.ca_repair_pending /\ CaMatches(e)
                    /\ f \in Context /\ f.state = "IDLE" /\ f.link = "none" /\ f.read_size = 0
                    /\ f.provisioned /\ f.busy = e.busy /\ f.seeding = e.seeding
Onward(f, e) == Rests(f, e) \/ Follows(f, e) \/ Waits(f, e) \/ Provisions(f, e)

Same(x, e) == /\ x \in Context /\ x.state = e.state /\ Flagged(x, e)
              /\ CaCounted(x, e) /\ SlotCounted(x, e)

LEMMA IdleSame ==
    ASSUME NEW e \in Context
    PROVE  LET x == [e EXCEPT !.link = "none"] IN Same(x, e) /\ x.link = "none"
  <1>1. "none" \in Link
    BY DEF Link
  <1> QED
    BY <1>1, PutLink DEF Same

LEMMA AskFollows ==
    ASSUME NEW e \in Context, NEW x, Same(x, e), NEW y \in Context,
           Flagged(y, x), SlotCounted(y, x),
           NEW s \in Provisioning \cup Seeding,
           s \in Provisioning => ~e.busy /\ ~e.seeding,
           NEW f \in Issue(y, s),
           ASSUME NEW h \in Context, h.state = s, CaCounted(h, y) PROVE Leads(h, e)
    PROVE  Onward(f, e)
  <1>1. s \in Provisioning => ~y.busy /\ ~y.seeding
    BY DEF Same, Flagged
  <1>2. Rests(f, y) \/ Asks(f, y, s)
    BY <1>1, IssueAsks
  <1>3. CASE Rests(f, y)
    BY <1>3 DEF Rests, Onward, Same, Flagged
  <1>4. CASE Asks(f, y, s)
    <2>1. Leads(f, e)
      BY <1>4 DEF Asks
    <2>2. Flagged(f, e) /\ SlotCounted(f, e)
      BY <1>4 DEF Asks, Same, Flagged, SlotCounted
    <2> QED
      BY <1>4, <2>1, <2>2 DEF Asks, Follows, Onward
  <1> QED
    BY <1>2, <1>3, <1>4

LEMMA FailOnward ==
    ASSUME NEW e \in Context, NEW x, Same(x, e), NEW y \in Context, Flagged(y, x),
           e.state \in Provisioning => ~e.busy /\ ~e.seeding
    PROVE  /\ Onward(DownloadFailed(y), e)
           /\ e.state \in Provisioning => Onward(ProvisionFailed(y), e)
           /\ y.state = e.state => Onward(Failed(y), e)
  <1>1. Rests(DownloadFailed(y), y)
    BY DownloadRests
  <1>2. e.state \in Provisioning => Rests(ProvisionFailed(y), y)
    BY ProvisionRests DEF Same, Flagged
  <1>3. y.state = e.state => Rests(Failed(y), y)
    BY FailedRests DEF Same, Flagged
  <1> QED
    BY <1>1, <1>2, <1>3 DEF Rests, Onward, Same, Flagged

LEMMA CaReadOnward ==
    ASSUME NEW e \in Context, Proper(e), NEW x, Same(x, e), x.link = "none",
           e.state \in {"CA_QUERY", "CA_READ"}, NEW f \in Repair(x)
    PROVE  Onward(f, e)
  <1> DEFINE yes == TRUE
             y == [x EXCEPT !.ca_repair_pending = yes]
  <1>1. yes \in BOOLEAN /\ yes
    OBVIOUS
  <1>2. f \in Issue(y, "CA_CLOSE")
    BY DEF Repair
  <1> HIDE DEF yes
  <1>3. /\ y \in Context /\ y.ca_repair_pending = yes /\ y.ca_read_size = x.ca_read_size
        /\ y.ca_ok = x.ca_ok /\ Flagged(y, x) /\ SlotCounted(y, x)
    BY <1>1, PutRepair DEF Same
  <1> HIDE DEF y
  <1>4. ASSUME NEW h \in Context, h.state = "CA_CLOSE", CaCounted(h, y)
        PROVE  Leads(h, e)
    BY <1>1, <1>3, <1>4 DEF Leads, CaCounted, Same
  <1>5. ~e.busy /\ ~e.seeding
    BY DEF Proper, Provisioning
  <1>6. "CA_CLOSE" \in Provisioning \cup Seeding
    BY DEF Provisioning
  <1> QED
    BY <1>2, <1>3, <1>4, <1>5, <1>6, AskFollows

LEMMA UploadOnward ==
    ASSUME NEW e \in Context, Proper(e), NEW x, Same(x, e), NEW y \in Context,
           Flagged(y, x), SlotCounted(y, x),
           e.state \in {"CA_QUERY", "CA_DELETE"}, NEW f \in BeginCaUpload(y)
    PROVE  Onward(f, e)
  <1> DEFINE yes == TRUE
             z == [y EXCEPT !.ca_repair_attempted = yes]
  <1>1. yes \in BOOLEAN
    OBVIOUS
  <1>2. f \in Issue(z, "CA_UPLOAD")
    BY DEF BeginCaUpload
  <1> HIDE DEF yes
  <1>3. z \in Context /\ Like(z, y)
    BY <1>1, PutAttempted
  <1> HIDE DEF z
  <1>4. Flagged(z, x) /\ SlotCounted(z, x)
    BY <1>3 DEF Like, Flagged, SlotCounted
  <1>5. ASSUME NEW h \in Context, h.state = "CA_UPLOAD", CaCounted(h, z)
        PROVE  Leads(h, e)
    BY <1>5 DEF Leads
  <1>6. ~e.busy /\ ~e.seeding
    BY DEF Proper, Provisioning
  <1>7. "CA_UPLOAD" \in Provisioning \cup Seeding
    BY DEF Provisioning
  <1> QED
    BY <1>2, <1>3, <1>4, <1>5, <1>6, <1>7, AskFollows

LEMMA ProbeOnward ==
    ASSUME NEW e \in Context, Proper(e), NEW x, Same(x, e), e.state = "PROBE",
           NEW f \in NextProbe(x)
    PROVE  Onward(f, e)
  <1> DEFINE n == x.probe_index + 1
             y == [x EXCEPT !.probe_index = n]
  <1>1. x \in Context /\ x.probe_index = e.probe_index /\ x.probe_index \in Nat /\ n \in Nat
    BY DEF Same, CaCounted, Context
  <1>2. ~e.busy /\ ~e.seeding /\ Probes \in Nat
    BY StagingAssumption DEF Proper, Provisioning
  <1>3. {"PROBE", "CA_OPEN"} \subseteq Provisioning \cup Seeding
    BY DEF Provisioning
  <1>4. CASE x.probe_index < Probes
    <2>1. f \in Issue(y, "PROBE")
      BY <1>1, <1>4 DEF NextProbe, Context
    <2>2. n = e.probe_index + 1 /\ n <= Probes
      BY <1>1, <1>2, <1>4
    <2> HIDE DEF n
    <2>3. y \in Context /\ y.probe_index = n /\ Flagged(y, x) /\ SlotCounted(y, x)
      BY <1>1, PutIndex
    <2> HIDE DEF y
    <2>4. ASSUME NEW h \in Context, h.state = "PROBE", CaCounted(h, y)
          PROVE  Leads(h, e)
      BY <2>2, <2>3, <2>4 DEF Leads, CaCounted
    <2> QED
      BY <1>2, <1>3, <2>1, <2>3, <2>4, AskFollows
  <1>5. CASE ~(x.probe_index < Probes)
    <2>1. f \in Issue(x, "CA_OPEN")
      BY <1>5 DEF NextProbe
    <2>2. ASSUME NEW h \in Context, h.state = "CA_OPEN", CaCounted(h, x)
          PROVE  Leads(h, e)
      BY <1>1, <1>2, <1>5, <2>2 DEF Leads
    <2>3. Flagged(x, x) /\ SlotCounted(x, x)
      BY DEF Flagged, SlotCounted
    <2> QED
      BY <1>1, <1>2, <1>3, <2>1, <2>2, <2>3, AskFollows
  <1> QED
    BY <1>4, <1>5

LEMMA CaOpenOnward ==
    ASSUME NEW e \in Context, Proper(e), NEW x, Same(x, e), e.state = "CA_OPEN"
    PROVE  /\ \A f \in Succeeded(x) : Onward(f, e)
           /\ \A f \in Issue([x EXCEPT !.handle = "none", !.ca_repair_pending = TRUE], "CA_QUERY") :
                  Onward(f, e)
  <1> DEFINE yes == TRUE
             y == [x EXCEPT !.ca_read_size = 0]
             z == [y EXCEPT !.ca_ok = yes]
             u == [x EXCEPT !.handle = "none"]
             v == [u EXCEPT !.ca_repair_pending = yes]
  <1>1. x \in Context /\ x.state = "CA_OPEN" /\ ~e.busy /\ ~e.seeding /\ yes \in BOOLEAN /\ "none" \in Handle
    BY DEF Same, Proper, Provisioning, Handle
  <1>2. {"CA_READ", "CA_QUERY"} \subseteq Provisioning \cup Seeding
    BY DEF Provisioning
  <1>3. /\ \A f \in Succeeded(x) : f = ProvisionFailed(x) \/ f \in Issue(z, "CA_READ")
        /\ [x EXCEPT !.handle = "none", !.ca_repair_pending = TRUE] = v
    BY <1>1 DEF Succeeded
  <1> HIDE DEF yes
  <1>4. Flagged(x, x) /\ SlotCounted(x, x)
    BY DEF Flagged, SlotCounted
  <1>5. Onward(ProvisionFailed(x), e)
    BY <1>1, <1>4, FailOnward DEF Provisioning
  <1>6. y \in Context /\ y.ca_read_size = 0 /\ Flagged(y, x) /\ SlotCounted(y, x)
    BY <1>1, PutCaRead
  <1> HIDE DEF y
  <1>7. z \in Context /\ z.ca_read_size = y.ca_read_size /\ Flagged(z, y) /\ SlotCounted(z, y)
    BY <1>1, <1>6, PutCaOk
  <1> HIDE DEF z
  <1>8. Flagged(z, x) /\ SlotCounted(z, x)
    BY <1>6, <1>7 DEF Flagged, SlotCounted
  <1>9. ASSUME NEW h \in Context, h.state = "CA_READ", CaCounted(h, z)
        PROVE  Leads(h, e)
    BY <1>6, <1>7, <1>9 DEF Leads, CaCounted
  <1>10. \A f \in Issue(z, "CA_READ") : Onward(f, e)
    BY <1>1, <1>2, <1>7, <1>8, <1>9, AskFollows
  <1>11. u \in Context /\ Like(u, x)
    BY <1>1, PutHandle
  <1> HIDE DEF u
  <1>12. v \in Context /\ Flagged(v, u) /\ SlotCounted(v, u)
    BY <1>1, <1>11, PutRepair
  <1> HIDE DEF v
  <1>13. Flagged(v, x) /\ SlotCounted(v, x)
    BY <1>11, <1>12 DEF Like, Flagged, SlotCounted
  <1>14. ASSUME NEW h \in Context, h.state = "CA_QUERY", CaCounted(h, v)
         PROVE  Leads(h, e)
    BY <1>14 DEF Leads
  <1>15. \A f \in Issue(v, "CA_QUERY") : Onward(f, e)
    BY <1>1, <1>2, <1>12, <1>13, <1>14, AskFollows
  <1> QED
    BY <1>3, <1>5, <1>10, <1>15

LEMMA CaCloseOnward ==
    ASSUME NEW e \in Context, Proper(e), NEW x, Same(x, e), e.state = "CA_CLOSE",
           NEW f \in Succeeded(x)
    PROVE  Onward(f, e)
  <1> DEFINE no == FALSE
             yes == TRUE
             y == [x EXCEPT !.handle = "none"]
             z == [y EXCEPT !.ca_repair_pending = no]
             c == Cleared(y)
             u == [c EXCEPT !.provisioned = yes]
             v == [u EXCEPT !.state = "IDLE"]
  <1>1. /\ x \in Context /\ x.state = "CA_CLOSE" /\ ~e.busy /\ ~e.seeding /\ no \in BOOLEAN /\ yes \in BOOLEAN
        /\ yes /\ "none" \in Handle /\ "IDLE" \in State \cup {"MQTT_CLOSE"}
    BY DEF Same, Proper, Provisioning, Handle, State
  <1>2. "CA_DELETE" \in Provisioning \cup Seeding
    BY DEF Provisioning
  <1>3. f \in CaClosed(y)
    BY <1>1 DEF Succeeded
  <1>4. \/ f \in Issue(z, "CA_DELETE")
        \/ f = v /\ ~y.ca_repair_pending /\ CaMatches(y)
        \/ f = ProvisionFailed(y)
        \/ f \in Issue(y, "CA_DELETE")
    BY <1>3 DEF CaClosed
  <1> HIDE DEF yes, no
  <1>5. y \in Context /\ Like(y, x)
    BY <1>1, PutHandle
  <1> HIDE DEF y
  <1>6. Flagged(y, x) /\ SlotCounted(y, x) /\ CaCounted(y, x)
    BY <1>5 DEF Like
  <1>7. z \in Context /\ Flagged(z, y) /\ SlotCounted(z, y)
    BY <1>1, <1>5, PutRepair
  <1> HIDE DEF z
  <1>8. Flagged(z, x) /\ SlotCounted(z, x)
    BY <1>6, <1>7 DEF Flagged, SlotCounted
  <1>9. ASSUME NEW h \in Context, h.state = "CA_DELETE"
        PROVE  Leads(h, e)
    BY <1>9 DEF Leads
  <1>10. CASE f \in Issue(z, "CA_DELETE")
    BY <1>1, <1>2, <1>7, <1>8, <1>9, <1>10, AskFollows
  <1>11. CASE f \in Issue(y, "CA_DELETE")
    BY <1>1, <1>2, <1>5, <1>6, <1>9, <1>11, AskFollows
  <1>12. CASE f = ProvisionFailed(y)
    BY <1>1, <1>5, <1>6, <1>12, FailOnward DEF Provisioning
  <1>13. CASE f = v /\ ~y.ca_repair_pending /\ CaMatches(y)
    <2>1. c \in Context /\ c.link = "none" /\ Flagged(c, y) /\ c.read_size = 0
      BY <1>5, ClearedKeeps
    <2> HIDE DEF c
    <2>2. /\ u \in Context /\ u.provisioned = yes /\ u.busy = c.busy /\ u.seeding = c.seeding
          /\ Posed(u, c) /\ SlotCounted(u, c)
      BY <1>1, <2>1, PutProvisioned
    <2> HIDE DEF u
    <2>3. v \in Context /\ v.state = "IDLE" /\ v.link = u.link /\ Flagged(v, u) /\ SlotCounted(v, u)
      BY <1>1, <2>2, PutState
    <2> HIDE DEF v
    <2>4. /\ v.link = "none" /\ v.provisioned /\ v.read_size = 0
          /\ v.busy = e.busy /\ v.seeding = e.seeding
      BY <1>1, <1>6, <2>1, <2>2, <2>3 DEF Posed, Flagged, SlotCounted, Same
    <2>5. ~e.ca_repair_pending /\ CaMatches(e)
      BY <1>6, <1>13 DEF CaMatches, CaCounted, Same
    <2> QED
      BY <1>13, <2>3, <2>4, <2>5 DEF Provisions, Onward
  <1> QED
    BY <1>4, <1>10, <1>11, <1>12, <1>13

LEMMA CaOnward ==
    ASSUME NEW e \in Context, Proper(e), NEW x, Same(x, e), x.link = "none",
           e.state \in {"CA_QUERY", "CA_READ", "CA_DELETE", "CA_UPLOAD"}, NEW f \in Succeeded(x)
    PROVE  Onward(f, e)
  <1> DEFINE no == FALSE
             y == [x EXCEPT !.ca_repair_pending = no]
             z == [x EXCEPT !.handle = "none"]
  <1>1. x \in Context /\ x.state = e.state /\ ~e.busy /\ ~e.seeding /\ no \in BOOLEAN /\ "none" \in Handle
    BY DEF Same, Proper, Provisioning, Handle
  <1>2. {"CA_READ", "CA_CLOSE", "CA_OPEN"} \subseteq Provisioning \cup Seeding
    BY DEF Provisioning
  <1>3. Flagged(x, x) /\ SlotCounted(x, x)
    BY DEF Flagged, SlotCounted
  <1>4. CASE e.state = "CA_QUERY"
    <2>1. f \in Repair(x) \/ f \in BeginCaUpload(y)
      BY <1>1, <1>4 DEF Succeeded
    <2> HIDE DEF no
    <2>2. y \in Context /\ Flagged(y, x) /\ SlotCounted(y, x)
      BY <1>1, PutRepair
    <2> HIDE DEF y
    <2> QED
      BY <1>4, <2>1, <2>2, CaReadOnward, UploadOnward
  <1>5. CASE e.state = "CA_DELETE"
    <2>1. f \in BeginCaUpload(x)
      BY <1>1, <1>5 DEF Succeeded
    <2> QED
      BY <1>1, <1>3, <1>5, <2>1, UploadOnward
  <1>6. CASE e.state = "CA_READ"
    <2>1. PICK s \in {"CA_READ", "CA_CLOSE"} : f \in Issue(x, s)
      BY <1>1, <1>6 DEF Succeeded
    <2>2. ASSUME NEW h \in Context, h.state = s, CaCounted(h, x)
          PROVE  Leads(h, e)
      BY <1>6, <2>2 DEF Leads, CaCounted, Same
    <2>3. s \in Provisioning \cup Seeding
      BY <1>2
    <2> QED
      BY <1>1, <1>3, <2>1, <2>2, <2>3, AskFollows
  <1>7. CASE e.state = "CA_UPLOAD"
    <2>1. f \in Issue(z, "CA_OPEN")
      BY <1>1, <1>7 DEF Succeeded
    <2>2. z \in Context /\ Like(z, x)
      BY <1>1, PutHandle
    <2> HIDE DEF z
    <2>3. Flagged(z, x) /\ SlotCounted(z, x)
      BY <2>2 DEF Like
    <2>4. ASSUME NEW h \in Context, h.state = "CA_OPEN", CaCounted(h, z)
          PROVE  Leads(h, e)
      BY <1>7, <2>4 DEF Leads
    <2> QED
      BY <1>1, <1>2, <2>1, <2>2, <2>3, <2>4, AskFollows
  <1> QED
    BY <1>4, <1>5, <1>6, <1>7

LEMMA SeedAsks ==
    ASSUME NEW e \in Context, NEW x, Same(x, e), NEW y \in Context,
           Flagged(y, x), SlotCounted(y, x), NEW s \in Seeding, <<e.state, s>> \in Pairs,
           NEW f \in Issue(y, s)
    PROVE  Onward(f, e)
  <1>1. s \in Provisioning \cup Seeding /\ s \notin Provisioning
    BY DEF Seeding, Provisioning
  <1>2. ASSUME NEW h \in Context, h.state = s, CaCounted(h, y)
        PROVE  Leads(h, e)
    BY <1>2 DEF Leads
  <1> QED
    BY <1>1, <1>2, AskFollows

LEMMA SeedOnward ==
    ASSUME NEW e \in Context, NEW x, Same(x, e), x.link = "none",
           e.state \in Seeding, NEW f \in Succeeded(x)
    PROVE  Onward(f, e)
  <1> DEFINE n == x.downloaded + 1
             y == [x EXCEPT !.downloaded = n]
             z == [x EXCEPT !.handle = "none"]
             r == [x EXCEPT !.state = "VERIFY_READ"]
             v == [z EXCEPT !.state = "VERIFY"]
  <1>1. /\ x \in Context /\ x.state = e.state /\ "none" \in Handle /\ e.state \notin Provisioning
        /\ {"VERIFY_READ", "VERIFY"} \subseteq State \cup {"MQTT_CLOSE"}
        /\ {"FILE_OPEN", "FILE_WRITE", "FILE_CLOSE", "FILE_LIST", "VERIFY_OPEN", "VERIFY_CLOSE"} \subseteq Seeding
    BY DEF Same, Handle, State, Seeding, Provisioning
  <1>2. Flagged(x, x) /\ SlotCounted(x, x) /\ n \in Nat
    BY <1>1 DEF Flagged, SlotCounted, Context
  <1>3. Onward(DownloadFailed(x), e)
    BY <1>1, <1>2, FailOnward
  <1>4. z \in Context /\ Like(z, x)
    BY <1>1, PutHandle
  <1>5. Flagged(z, x) /\ SlotCounted(z, x) /\ z.link = "none"
    BY <1>4 DEF Like, Posed
  <1>6. CASE e.state = "FILE_DELETE"
    <2>1. f \in Issue(x, "FILE_OPEN")
      BY <1>1, <1>6 DEF Succeeded
    <2>2. <<e.state, "FILE_OPEN">> \in Pairs
      BY <1>6 DEF Pairs
    <2> QED
      BY <1>1, <1>2, <2>1, <2>2, SeedAsks
  <1>7. CASE e.state = "FILE_OPEN"
    <2>1. f = DownloadFailed(x) \/ f \in Issue(x, "FILE_WRITE")
      BY <1>1, <1>7 DEF Succeeded
    <2>2. <<e.state, "FILE_WRITE">> \in Pairs
      BY <1>7 DEF Pairs
    <2> QED
      BY <1>1, <1>2, <1>3, <2>1, <2>2, SeedAsks
  <1>8. CASE e.state = "FILE_WRITE"
    <2>1. f \in Written(x)
      BY <1>1, <1>8 DEF Succeeded
    <2>2. f = DownloadFailed(x) \/ f \in Issue(y, "FILE_CLOSE") \/ f \in Issue(y, "FILE_WRITE")
      BY <2>1 DEF Written
    <2> HIDE DEF n
    <2>3. y \in Context /\ Like(y, x)
      BY <1>1, <1>2, PutDownloaded
    <2> HIDE DEF y
    <2>4. Flagged(y, x) /\ SlotCounted(y, x)
      BY <2>3 DEF Like
    <2>5. <<e.state, "FILE_CLOSE">> \in Pairs /\ <<e.state, "FILE_WRITE">> \in Pairs
      BY <1>8 DEF Pairs
    <2>6. CASE f \in Issue(y, "FILE_CLOSE")
      BY <1>1, <2>3, <2>4, <2>5, <2>6, SeedAsks
    <2>7. CASE f \in Issue(y, "FILE_WRITE")
      BY <1>1, <2>3, <2>4, <2>5, <2>7, SeedAsks
    <2> QED
      BY <1>3, <2>2, <2>6, <2>7
  <1>9. CASE e.state = "FILE_CLOSE"
    <2>1. f \in Issue(z, "FILE_LIST")
      BY <1>1, <1>9 DEF Succeeded
    <2> HIDE DEF z
    <2>2. <<e.state, "FILE_LIST">> \in Pairs
      BY <1>9 DEF Pairs
    <2> QED
      BY <1>1, <1>4, <1>5, <2>1, <2>2, SeedAsks
  <1>10. CASE e.state = "FILE_LIST"
    <2>1. f = DownloadFailed(x) \/ f \in Issue(x, "VERIFY_OPEN")
      BY <1>1, <1>10 DEF Succeeded
    <2>2. <<e.state, "VERIFY_OPEN">> \in Pairs
      BY <1>10 DEF Pairs
    <2> QED
      BY <1>1, <1>2, <1>3, <2>1, <2>2, SeedAsks
  <1>11. CASE e.state = "VERIFY_OPEN"
    <2>1. f = DownloadFailed(x) \/ f = r
      BY <1>1, <1>11 DEF Succeeded
    <2>2. /\ r \in Context /\ r.state = "VERIFY_READ" /\ r.link = "none"
          /\ Flagged(r, x) /\ SlotCounted(r, x)
      BY <1>1, PutState
    <2> HIDE DEF r
    <2>3. Waits(r, e)
      BY <1>11, <2>2 DEF Waits, Same, Flagged, SlotCounted
    <2> QED
      BY <1>3, <2>1, <2>3 DEF Onward
  <1>12. CASE e.state = "VERIFY_READ"
    <2>1. f = x \/ f \in Issue(x, "VERIFY_CLOSE")
      BY <1>1, <1>12 DEF Succeeded
    <2>2. <<e.state, "VERIFY_CLOSE">> \in Pairs
      BY <1>12 DEF Pairs
    <2>3. Waits(x, e)
      BY <1>1, <1>12 DEF Waits, Same
    <2> QED
      BY <1>1, <1>2, <2>1, <2>2, <2>3, SeedAsks DEF Onward
  <1>13. CASE e.state = "VERIFY_CLOSE"
    <2>1. f = v
      BY <1>1, <1>13 DEF Succeeded
    <2> HIDE DEF z
    <2>2. /\ v \in Context /\ v.state = "VERIFY" /\ v.link = z.link
          /\ Flagged(v, z) /\ SlotCounted(v, z)
      BY <1>1, <1>4, PutState
    <2> HIDE DEF v
    <2>3. Waits(v, e)
      BY <1>5, <1>13, <2>2 DEF Waits, Same, Flagged, SlotCounted
    <2> QED
      BY <2>1, <2>3 DEF Onward
  <1> QED
    BY <1>6, <1>7, <1>8, <1>9, <1>10, <1>11, <1>12, <1>13 DEF Seeding

LEMMA DoneOnward ==
    ASSUME NEW e \in Context, Proper(e), e.link # "none", NEW how, NEW f \in CommandDone(e, how)
    PROVE  /\ Onward(f, e)
           /\ how # "ok" => \/ Rests(f, e)
                              \/ (f.link = "queued" /\ e.state \notin PayloadCommand \cup Reading)
  <1> DEFINE x == [e EXCEPT !.link = "none"]
  <1>1. Same(x, e) /\ x.link = "none"
    BY IdleSame
  <1>2. e.state \in Provisioning \cup Seeding
    BY DEF Proper
  <1>3. e.state \in Provisioning => ~e.busy /\ ~e.seeding
    BY DEF Proper
  <1>4. Flagged(x, x) /\ SlotCounted(x, x) /\ x \in Context /\ x.state = e.state
    BY <1>1 DEF Flagged, SlotCounted, Same
  <1>5. \/ f \in Succeeded(x) /\ (how = "ok" \/ x.state \in {"CA_DELETE", "FILE_DELETE", "PROBE"})
        \/ (x.state = "CA_OPEN" /\
            f \in Issue([x EXCEPT !.handle = "none", !.ca_repair_pending = TRUE], "CA_QUERY"))
        \/ (x.state = "CA_READ" /\ f \in Repair(x))
        \/ f = Failed(x)
    BY DEF CommandDone
  <1> HIDE DEF x
  <1>6. CASE f = Failed(x)
    <2>1. Onward(f, e)
      BY <1>1, <1>3, <1>4, <1>6, FailOnward
    <2>2. Rests(f, x)
      BY <1>1, <1>3, <1>4, <1>6, FailedRests DEF Same, Flagged
    <2> QED
      BY <1>1, <2>1, <2>2 DEF Rests, Same, Flagged
  <1>7. CASE x.state = "CA_OPEN" /\
             f \in Issue([x EXCEPT !.handle = "none", !.ca_repair_pending = TRUE], "CA_QUERY")
    <2>1. Onward(f, e)
      BY <1>1, <1>4, <1>7, CaOpenOnward
    <2> QED
      BY <1>4, <1>7, <2>1 DEF Onward, Follows, Waits, Provisions, PayloadCommand, Reading, Counting
  <1>8. CASE x.state = "CA_READ" /\ f \in Repair(x)
    <2>1. Onward(f, e)
      BY <1>1, <1>4, <1>8, CaReadOnward
    <2> QED
      BY <1>4, <1>8, <2>1 DEF Onward, Follows, Waits, Provisions, PayloadCommand, Reading, Counting
  <1>9. CASE f \in Succeeded(x) /\ (how = "ok" \/ x.state \in {"CA_DELETE", "FILE_DELETE", "PROBE"})
    <2>1. Onward(f, e)
      <3>1. CASE e.state = "PROBE"
        <4>1. f \in NextProbe(x)
          BY <1>4, <1>9, <3>1 DEF Succeeded
        <4> QED
          BY <1>1, <3>1, <4>1, ProbeOnward
      <3>2. CASE e.state = "CA_OPEN"
        BY <1>1, <1>9, <3>2, CaOpenOnward
      <3>3. CASE e.state = "CA_CLOSE"
        BY <1>1, <1>9, <3>3, CaCloseOnward
      <3>4. CASE e.state \in {"CA_QUERY", "CA_READ", "CA_DELETE", "CA_UPLOAD"}
        BY <1>1, <1>9, <3>4, CaOnward
      <3>5. CASE e.state \in Seeding
        BY <1>1, <1>9, <3>5, SeedOnward
      <3> QED
        BY <1>2, <3>1, <3>2, <3>3, <3>4, <3>5 DEF Provisioning
    <2> QED
      BY <1>4, <1>9, <2>1 DEF Onward, Follows, Waits, Provisions, PayloadCommand, Reading, Counting
  <1> QED
    BY <1>5, <1>6, <1>7, <1>8, <1>9

-----------------------------------------------------------------------------
(* The invariant and the wire: what is answered, given up or lost, and     *)
(* what follows a command that is done.                                    *)
FileType == [Name -> [chunks : Nat, sound : BOOLEAN, there : BOOLEAN]]
Fades(w, v) == /\ Len(v) = Len(w)
               /\ \A i \in 1..Len(w) : /\ v[i].cmd = w[i].cmd
                                       /\ v[i].stage = "asked" => w[i].stage = "asked"

LEMMA FadesHeld ==
    ASSUME NEW e, NEW w \in Seq(Order), NEW v \in Seq(Order), Fades(w, v),
           NEW c, NEW p, NEW r, Held(e, w, c, p, r)
    PROVE  Held(e, v, c, p, r)
  <1>1. Len(w) \in Nat /\ Len(v) = Len(w)
    BY DEF Fades
  <1>2. Aged(e, v)
    BY <1>1 DEF Held, Aged, Fades
  <1>3. Ranked(e, v, r)
    BY <1>1 DEF Held, Ranked, Fades
  <1>4. v = <<>> <=> w = <<>>
    BY <1>1
  <1>5. Alone(e, v)
    BY <1>1, <1>4 DEF Held, Alone, Fades
  <1>6. Compared(e, v, c, p)
    <2>1. SUFFICES ASSUME Comparing(e), NEW i \in 1..Len(v), v[i].cmd = "CA_OPEN", v[i].stage = "asked"
                   PROVE  e.ca_read_size = 0 /\ \A j \in 1..(i - 1) : v[j].cmd # "CA_READ"
      BY DEF Held, Compared
    <2>2. e.ca_read_size = 0 /\ \A j \in 1..(i - 1) : w[j].cmd # "CA_READ"
      BY <1>1, <2>1 DEF Held, Compared, Fades
    <2>3. \A j \in 1..(i - 1) : v[j].cmd = w[j].cmd
      BY <1>1, <2>1 DEF Fades
    <2> QED
      BY <2>2, <2>3
  <1>7. ReadAlone(e, v, c, p)
    BY <1>1, <1>4 DEF Held, ReadAlone, Fades
  <1>8. CaStays(e, v, c) /\ SlotStays(e, v, c, r)
    BY <1>1 DEF Held, CaStays, SlotStays, Spares, Fades
  <1> QED
    BY <1>2, <1>3, <1>5, <1>6, <1>7, <1>8 DEF Held

LEMMA TailHeld ==
    ASSUME NEW e, NEW w \in Seq(Order), w # <<>>, NEW c, NEW p, NEW r, Held(e, w, c, p, r)
    PROVE  /\ Tail(w) \in Seq(Order) /\ Len(w) \in Nat \ {0} /\ Len(Tail(w)) = Len(w) - 1
           /\ Held(e, Tail(w), c, p, r)
  <1> DEFINE v == Tail(w)
  <1>1. v \in Seq(Order) /\ Len(w) \in Nat \ {0} /\ Len(v) = Len(w) - 1
    OBVIOUS
  <1>2. \A i \in 1..Len(v) : v[i] = w[i + 1] /\ i + 1 \in 1..Len(w)
    BY <1>1
  <1> HIDE DEF v
  <1>3. Aged(e, v)
    BY <1>1, <1>2 DEF Held, Aged
  <1>4. Ranked(e, v, r)
    BY <1>1, <1>2 DEF Held, Ranked
  <1>5. Len(w) = 1 => v = <<>>
    BY <1>1
  <1>6. Alone(e, v)
    <2>1. SUFFICES ASSUME e.state \in PayloadCommand, e.link \in {"prompted", "given"}
                   PROVE  v = <<>>
      BY DEF Alone
    <2>2. Len(w) = 1
      BY <2>1 DEF Held, Alone
    <2> QED
      BY <1>5, <2>2
  <1>7. Compared(e, v, c, p)
    <2>1. SUFFICES ASSUME Comparing(e), NEW i \in 1..Len(v), v[i].cmd = "CA_OPEN", v[i].stage = "asked"
                   PROVE  e.ca_read_size = 0 /\ \A j \in 1..(i - 1) : v[j].cmd # "CA_READ"
      BY DEF Held, Compared
    <2>2. e.ca_read_size = 0 /\ \A j \in 1..i : w[j].cmd # "CA_READ"
      BY <1>1, <1>2, <2>1 DEF Held, Compared
    <2>3. \A j \in 1..(i - 1) : v[j] = w[j + 1] /\ j + 1 \in 1..i
      BY <1>1, <1>2, <2>1
    <2> QED
      BY <2>2, <2>3
  <1>8. ReadAlone(e, v, c, p)
    <2>1. SUFFICES ASSUME e.state \in Reading
                   PROVE  v = <<>>
      BY DEF Held, ReadAlone
    <2>2. Len(w) = 1
      BY <2>1 DEF Held, ReadAlone
    <2> QED
      BY <1>5, <2>2
  <1>9. CaStays(e, v, c) /\ SlotStays(e, v, c, r)
    BY <1>1, <1>2 DEF Held, CaStays, SlotStays, Spares
  <1> QED
    BY <1>1, <1>3, <1>4, <1>6, <1>7, <1>8, <1>9 DEF Held, v

LEMMA RestHeld ==
    ASSUME NEW e, NEW f, Rests(f, e), NEW w, NEW c, NEW p, NEW r, Held(e, w, c, p, r)
    PROVE  Proper(f) /\ Held(f, w, c, p, r)
  <1>1. f.state = "RETRY" /\ f.link = "none" /\ ~f.busy /\ ~f.seeding /\ f.read_size = 0
    BY DEF Rests
  <1>2. Proper(f)
    BY <1>1 DEF Proper, Provisioning, Seeding
  <1>3. Aged(f, w) /\ Ranked(f, w, r) /\ Alone(f, w)
    BY <1>1 DEF Aged, Ranked, Bound, Alone, Provisioning, PayloadCommand
  <1>4. Compared(f, w, c, p) /\ ReadAlone(f, w, c, p)
    BY <1>1 DEF Compared, Comparing, ReadAlone, Reading, Counting
  <1>5. CaStays(f, w, c) /\ SlotStays(f, w, c, r)
    BY <1>1 DEF Held, CaStays, SlotStays, Rests
  <1> QED
    BY <1>2, <1>3, <1>4, <1>5 DEF Held

(* The same context, but for what the invariant does not speak of.         *)
LEMMA LikeHeld ==
    ASSUME NEW e, NEW f, Like(f, e), NEW w, NEW c, NEW p, NEW r,
           Proper(e), Held(e, w, c, p, r)
    PROVE  Proper(f) /\ Held(f, w, c, p, r)
  <1>1. Proper(f)
    BY DEF Proper, Like, Posed, Flagged, CaCounted, SlotCounted
  <1>2. Aged(f, w) /\ Ranked(f, w, r) /\ Alone(f, w)
    BY DEF Held, Like, Posed, Flagged, CaCounted, Aged, Asked, Sending, Ranked, Bound, Alone
  <1>3. Compared(f, w, c, p) /\ ReadAlone(f, w, c, p)
    BY DEF Held, Like, Posed, CaCounted, SlotCounted, Compared, Comparing, ReadAlone, Sending
  <1>4. CaStays(f, w, c) /\ SlotStays(f, w, c, r)
    BY DEF Held, Like, Flagged, CaStays, SlotStays
  <1> QED
    BY <1>1, <1>2, <1>3, <1>4 DEF Held


LEMMA FollowsProper ==
    ASSUME NEW e \in Context, NEW f, Proper(e), Sending(e), Follows(f, e)
    PROVE  Proper(f)
  <1>1. /\ f.link = "queued" /\ f.provisioned = e.provisioned /\ f.busy = e.busy
        /\ f.seeding = e.seeding /\ f.read_size = e.read_size /\ f.probe_index \in Nat
        /\ e.probe_index \in Nat
    BY DEF Follows, Flagged, SlotCounted, Context
  <1>2. CASE e.state \in Provisioning
    <2>1. /\ f.state \in Provisioning
          /\ f.state = "PROBE" => f.probe_index = e.probe_index + 1 /\ f.probe_index <= Probes
      BY <1>2 DEF Follows, Leads, Pairs, Provisioning
    <2>2. ~e.provisioned /\ ~e.busy /\ ~e.seeding /\ ~(e.read_size > 0) /\ Probes \in Nat
      BY <1>2, StagingAssumption DEF Proper, Provisioning, Counting, Seeding
    <2>3. f.state = "PROBE" => f.probe_index \in 1..Probes
      BY <1>1, <2>1, <2>2
    <2> QED
      BY <1>1, <2>1, <2>2, <2>3 DEF Proper, Provisioning, Seeding
  <1>3. CASE e.state \notin Provisioning
    <2>1. <<e.state, f.state>> \in Pairs
      BY <1>3 DEF Follows, Leads, Provisioning
    <2>2. f.state \in Seeding /\ e.state \in Seeding /\ f.state \notin Provisioning
      BY <2>1 DEF Pairs, Seeding, Provisioning
    <2>3. e.read_size > 0 => f.state \in Counting
      BY <2>1 DEF Proper, Pairs, Counting
    <2> QED
      BY <1>1, <2>2, <2>3 DEF Proper, Seeding, Provisioning
  <1> QED
    BY <1>2, <1>3

LEMMA FollowsAged ==
    ASSUME NEW e \in Context, NEW f, Proper(e), Sending(e), Follows(f, e),
           NEW w \in Seq(Order), Aged(e, w),
           e.state \notin PayloadCommand \cup Reading \/ w = <<>>
    PROVE  Aged(f, w)
  <1>1. SUFFICES ASSUME f.state \in {"PROBE", "CA_OPEN"}, w # <<>>, ~Sending(f),
                        NEW i \in 1..Len(w), w[i].cmd # "PROBE"
                 PROVE  Len(w) - i >= Asked(f)
    <2>1. ~Sending(f)
      BY DEF Follows, Sending
    <2>2. w = <<>> => Len(w) = 0
      OBVIOUS
    <2> QED
      BY <2>1, <2>2 DEF Aged
  <1>2. e.state = "PROBE" /\ Asked(f) = e.probe_index
    <2>1. e.state = "PROBE"
      BY <1>1 DEF Follows, Leads, Pairs, PayloadCommand
    <2>2. e.probe_index \in 1..Probes /\ Probes \in Nat /\ f.probe_index \in Nat
      BY <2>1, StagingAssumption DEF Proper, Follows, Context
    <2>3. CASE f.state = "PROBE"
      BY <1>1, <2>1, <2>2, <2>3 DEF Follows, Leads, Pairs, Asked
    <2>4. CASE f.state = "CA_OPEN"
      BY <1>1, <2>1, <2>2, <2>4 DEF Follows, Leads, Pairs, Asked
    <2> QED
      BY <1>1, <2>1, <2>3, <2>4
  <1> QED
    BY <1>1, <1>2 DEF Aged, Asked

LEMMA FollowsRanked ==
    ASSUME NEW e \in Context, NEW f, Proper(e), Sending(e), Follows(f, e),
           NEW w \in Seq(Order), NEW r, Ranked(e, w, r),
           e.state \notin PayloadCommand \cup Reading \/ w = <<>>
    PROVE  Ranked(f, w, r)
  <1>1. SUFFICES ASSUME Bound(f, r), w # <<>>, NEW i \in 1..Len(w)
                 PROVE  /\ Rank(w[i].cmd) <= Rank(f.state)
                        /\ ~(w[i].cmd \in PayloadCommand /\ w[i].cmd = f.state)
    <2>1. w = <<>> => Len(w) = 0
      OBVIOUS
    <2> QED
      BY <2>1 DEF Ranked
  <1>2. f.link = "queued" /\ ~Sending(f) /\ f.seeding = e.seeding
    BY DEF Follows, Flagged, Sending
  <1>3. Bound(e, r)
    <2>1. CASE e.seeding
      BY <2>1 DEF Bound
    <2>2. CASE ~e.seeding
      <3>1. e.state \in Provisioning /\ f.state \in Provisioning \ {"PROBE", "CA_OPEN"}
        BY <1>1, <1>2, <2>2 DEF Bound, Follows, Leads, Pairs, Provisioning, Proper, Seeding
      <3> QED
        BY <3>1 DEF Bound, Follows, Leads, Pairs, Provisioning
    <2> QED
      BY <2>1, <2>2
  <1>4. Rank(w[i].cmd) <= Rank(e.state)
    BY <1>1, <1>3 DEF Ranked
  <1>5. e.state \notin PayloadCommand /\ f.state \notin {"PROBE"}
    BY <1>1, <1>2 DEF Bound, Follows, Leads, Pairs, Proper, Provisioning
  <1>6. /\ Rank(e.state) <= Rank(f.state)
        /\ f.state \in PayloadCommand => Rank(e.state) < Rank(f.state)
        /\ f.state # "CA_OPEN"
    <2>1. f.state # "CA_OPEN"
      BY <1>1, <1>2, <1>5 DEF Follows, Leads, Pairs, PayloadCommand, Bound, Proper, Seeding, Provisioning
    <2> QED
      BY <1>5, <2>1 DEF Follows, Leads, Pairs, Rank, PayloadCommand
  <1>7. Rank(w[i].cmd) \in Nat /\ Rank(e.state) \in Nat /\ Rank(f.state) \in Nat
    BY DEF Rank
  <1> QED
    BY <1>4, <1>6, <1>7

LEMMA FollowsRead ==
    ASSUME NEW e \in Context, NEW f, Proper(e), Sending(e), Follows(f, e),
           NEW w \in Seq(Order), NEW c \in FileType, NEW p \in [Name -> Nat],
           NEW r, Ranked(e, w, r), Compared(e, w, c, p), ReadAlone(e, w, c, p),
           e.state \notin PayloadCommand \cup Reading \/ w = <<>>
    PROVE  Compared(f, w, c, p) /\ ReadAlone(f, w, c, p)
  <1>1. p["ca"] \in Nat /\ p["slot"] \in Nat /\ e.read_size \in Nat
    BY DEF Name, Context
  <1>2. Compared(f, w, c, p)
    <2>1. CASE e.state = "CA_OPEN" /\ f.state = "CA_READ"
      <3>1. f.ca_read_size = 0
        BY <2>1 DEF Follows, Leads, Pairs
      <3>2. Bound(e, r)
        BY <2>1 DEF Bound
      <3>3. \A i \in 1..Len(w) : w[i].cmd # "CA_READ"
        BY <2>1, <3>2 DEF Ranked, Rank
      <3>4. \A i \in 1..Len(w) : \A j \in 1..(i - 1) : j \in 1..Len(w)
        OBVIOUS
      <3> QED
        BY <1>1, <3>1, <3>3, <3>4 DEF Compared
    <2>2. CASE e.state = "CA_READ"
      BY <2>2 DEF Follows, Leads, Pairs, Compared, Comparing
    <2>3. CASE ~(e.state = "CA_OPEN" /\ f.state = "CA_READ") /\ e.state # "CA_READ"
      BY <2>3 DEF Follows, Leads, Pairs, Compared, Comparing
    <2> QED
      BY <2>1, <2>2, <2>3
  <1>3. ReadAlone(f, w, c, p)
    <2>1. SUFFICES ASSUME f.state \in Reading
                   PROVE  /\ w = <<>>
                          /\ f.crc_ok => /\ f.read_size <= p["slot"]
                                         /\ f.read_size > 0 => c["slot"].there /\ c["slot"].sound
      BY DEF ReadAlone
    <2>2. e.state = "FILE_WRITE" \/ e.state \in Reading
      BY <2>1 DEF Follows, Leads, Pairs, Reading, Counting
    <2>3. w = <<>>
      BY <2>2 DEF PayloadCommand
    <2>4. e.state = "FILE_WRITE" => e.read_size = 0
      BY <1>1 DEF Proper, Counting
    <2>5. f.read_size = e.read_size /\ f.crc_ok = e.crc_ok
      BY DEF Follows, SlotCounted
    <2> QED
      BY <1>1, <2>2, <2>3, <2>4, <2>5 DEF ReadAlone
  <1> QED
    BY <1>2, <1>3

LEMMA WaitsHeld ==
    ASSUME NEW e \in Context, NEW f, Proper(e), Waits(f, e), NEW w, w = <<>>,
           NEW c, NEW p, NEW r, Held(e, w, c, p, r), e.state \in Seeding
    PROVE  Proper(f) /\ Held(f, w, c, p, r)
  <1>1. /\ f.state \in Counting /\ e.state \in Reading
        /\ f.link = "none" /\ f.provisioned = e.provisioned /\ f.busy = e.busy
        /\ f.seeding = e.seeding /\ f.read_size = e.read_size /\ f.crc_ok = e.crc_ok
    BY DEF Waits, Flagged, SlotCounted, Counting, Reading
  <1>2. Proper(f)
    BY <1>1 DEF Proper, Counting, Seeding, Provisioning
  <1>3. Len(w) = 0
    OBVIOUS
  <1>4. Aged(f, w) /\ Ranked(f, w, r) /\ Alone(f, w)
    BY <1>1, <1>3 DEF Aged, Ranked, Alone
  <1>5. Compared(f, w, c, p) /\ ReadAlone(f, w, c, p)
    BY <1>1 DEF Held, Compared, Comparing, ReadAlone, Counting
  <1>6. CaStays(f, w, c) /\ SlotStays(f, w, c, r)
    BY <1>1 DEF Held, CaStays, SlotStays
  <1> QED
    BY <1>2, <1>4, <1>5, <1>6 DEF Held

LEMMA ProvisionsHeld ==
    ASSUME NEW e \in Context, NEW f, Proper(e), Provisions(f, e), NEW w \in Seq(Order),
           NEW c \in FileType, NEW p \in [Name -> Nat], Fits(c, p),
           NEW r, Held(e, w, c, p, r)
    PROVE  Proper(f) /\ Held(f, w, c, p, r)
  <1>1. /\ f.state = "IDLE" /\ f.link = "none" /\ f.read_size = 0 /\ f.provisioned
        /\ ~f.busy /\ ~f.seeding /\ e.state = "CA_CLOSE" /\ Comparing(e) /\ f.seeding = e.seeding
    BY DEF Provisions, Proper, Provisioning, Comparing
  <1>2. Proper(f)
    BY <1>1 DEF Proper, Provisioning, Seeding
  <1>3. \A i \in 1..Len(w) : Rank(w[i].cmd) <= 4
    BY <1>1 DEF Held, Ranked, Bound, Provisioning, Rank
  <1>4. Aged(f, w) /\ Ranked(f, w, r) /\ Alone(f, w)
    BY <1>1, <1>3 DEF Aged, Ranked, Rank, PayloadCommand, Alone
  <1>5. Compared(f, w, c, p) /\ ReadAlone(f, w, c, p)
    BY <1>1 DEF Compared, Comparing, ReadAlone, Reading, Counting
  <1>6. c["ca"].there /\ c["ca"].chunks = CaChunks /\ c["ca"].sound
    <2>1. e.ca_read_size = CaChunks /\ e.ca_ok /\ CaChunks \in Nat /\ CaChunks > 0
      BY StagingAssumption DEF Provisions, CaMatches
    <2>2. e.ca_read_size <= p["ca"] /\ c["ca"].there /\ c["ca"].sound
      BY <1>1, <2>1 DEF Held, Compared
    <2>3. p["ca"] \in Nat /\ c["ca"].chunks \in Nat
      BY DEF FileType, Name
    <2> QED
      BY <2>1, <2>2, <2>3 DEF Fits
  <1>7. CaStays(f, w, c)
    BY <1>3, <1>6 DEF CaStays, Spares, Rank
  <1>8. SlotStays(f, w, c, r)
    BY <1>1 DEF Held, SlotStays
  <1> QED
    BY <1>2, <1>4, <1>5, <1>7, <1>8 DEF Held

LEMMA OnwardHeld ==
    ASSUME NEW e \in Context, NEW f, Proper(e), Sending(e), NEW w \in Seq(Order),
           NEW c \in FileType, NEW p \in [Name -> Nat], Fits(c, p),
           NEW r, Held(e, w, c, p, r), Onward(f, e),
           Rests(f, e) \/ e.state \notin PayloadCommand \cup Reading \/ w = <<>>
    PROVE  f \in Context /\ Proper(f) /\ Held(f, w, c, p, r)
  <1>1. CASE Rests(f, e)
    BY <1>1, RestHeld DEF Rests
  <1>2. CASE ~Rests(f, e) /\ Follows(f, e)
    <2>0. e.state \notin PayloadCommand \cup Reading \/ w = <<>>
      BY <1>2
    <2>1. Aged(e, w) /\ Ranked(e, w, r) /\ Compared(e, w, c, p) /\ ReadAlone(e, w, c, p)
      BY DEF Held
    <2>2. Proper(f)
      BY <1>2, FollowsProper
    <2>3. Aged(f, w)
      BY <1>2, <2>0, <2>1, FollowsAged
    <2>4. Ranked(f, w, r)
      BY <1>2, <2>0, <2>1, FollowsRanked
    <2>5. Compared(f, w, c, p) /\ ReadAlone(f, w, c, p)
      BY <1>2, <2>0, <2>1, FollowsRead
    <2>6. Alone(f, w)
      BY <1>2 DEF Follows, Alone
    <2>7. CaStays(f, w, c) /\ SlotStays(f, w, c, r)
      BY <1>2 DEF Held, CaStays, SlotStays, Follows, Flagged
    <2> QED
      BY <1>2, <2>2, <2>3, <2>4, <2>5, <2>6, <2>7 DEF Held, Follows
  <1>3. CASE ~Rests(f, e) /\ Waits(f, e)
    <2>1. e.state \in Reading /\ e.state \in Seeding
      BY <1>3 DEF Waits, Reading, Counting, Seeding
    <2>2. w = <<>>
      BY <1>3, <2>1
    <2> QED
      BY <1>3, <2>1, <2>2, WaitsHeld DEF Waits
  <1>4. CASE Provisions(f, e)
    BY <1>4, ProvisionsHeld DEF Provisions
  <1> QED
    BY <1>1, <1>2, <1>3, <1>4 DEF Onward

-----------------------------------------------------------------------------
(* What a step may do to the two files, and to who relies on them.         *)
Lawful == /\ files' = files \/ (Like(g', g) /\ rec' = rec)
          /\ g'.provisioned => g.provisioned \/ g.state \in Provisioning
          /\ rec'.seeded => rec.seeded \/ g.seeding
Wire(v) == v \in Seq(Order) /\ Len(v) <= Unanswered

LEMMA StagingFacts ==
    ASSUME StagingInv
    PROVE  /\ g \in Context /\ rec \in [seeded : BOOLEAN, pending : BOOLEAN] /\ gate \in BOOLEAN
           /\ wire \in Seq(Order) /\ Wire(wire) /\ Len(wire) \in Nat /\ Unanswered \in Nat \ {0}
           /\ files \in FileType /\ pos \in [Name -> Nat]
           /\ Fits(files, pos) /\ Proper(g) /\ Held(g, wire, files, pos, rec)
  <1>1. wire \in Seq(Order)
    BY DEF StagingInv, StagingTypeOK
  <1>2. Len(wire) \in Nat
    BY <1>1
  <1>3. Unanswered \in Nat \ {0}
    BY StagingAssumption
  <1> QED
    BY <1>1, <1>2, <1>3 DEF StagingInv, StagingTypeOK, FileType, Wire

LEMMA InvKeeps ==
    ASSUME g' \in Context, rec' \in [seeded : BOOLEAN, pending : BOOLEAN], gate' \in BOOLEAN,
           Wire(wire'), files' \in FileType, pos' \in [Name -> Nat],
           Fits(files', pos'), Proper(g'), Held(g', wire', files', pos', rec')
    PROVE  StagingInv'
  BY DEF StagingInv, StagingTypeOK, FileType, Wire

LEMMA WorkKeeps ==
    ASSUME StagingInv, UNCHANGED <<rec, modem>>, gate' \in BOOLEAN, Wire(wire'),
           g' \in Context, Proper(g'), Held(g', wire', files, pos, rec),
           g'.provisioned => g.provisioned \/ g.state \in Provisioning
    PROVE  StagingInv' /\ Lawful
  <1>1. rec' = rec /\ files' = files /\ pos' = pos
    BY DEF modem
  <1>2. /\ rec \in [seeded : BOOLEAN, pending : BOOLEAN]
        /\ files \in FileType /\ pos \in [Name -> Nat] /\ Fits(files, pos)
    BY StagingFacts
  <1>3. Held(g', wire', files', pos', rec') /\ Fits(files', pos')
    BY <1>1, <1>2
  <1> QED
    BY <1>1, <1>2, <1>3, InvKeeps DEF Lawful

LEMMA LikeKeeps ==
    ASSUME StagingInv, UNCHANGED <<rec, gate, modem>>, g' \in Context, Like(g', g),
           Wire(wire'), Held(g, wire', files, pos, rec)
    PROVE  StagingInv' /\ Lawful
  <1>1. gate' \in BOOLEAN /\ Proper(g)
    BY StagingFacts
  <1>2. Proper(g') /\ Held(g', wire', files, pos, rec)
    BY <1>1, LikeHeld
  <1>3. g'.provisioned = g.provisioned
    BY DEF Like, Flagged
  <1>4. UNCHANGED <<rec, modem>>
    OBVIOUS
  <1> QED
    BY <1>1, <1>2, <1>3, <1>4, WorkKeeps

LEMMA Itself == ASSUME NEW e PROVE Like(e, e)
  BY DEF Like, Posed, Flagged, CaCounted, SlotCounted

LEMMA StageFades ==
    ASSUME NEW w \in Seq(Order), w # <<>>, NEW s \in Answer, s # "asked"
    PROVE  LET v == [w EXCEPT ![1].stage = s] IN
           /\ v \in Seq(Order) /\ Len(v) = Len(w) /\ Fades(w, v)
           /\ v[1].cmd = w[1].cmd /\ v[1].stage = s
  <1> DEFINE x == [w[1] EXCEPT !.stage = s]
             v == [w EXCEPT ![1] = x]
  <1>1. Len(w) >= 1 /\ Len(w) \in Nat /\ w[1] \in Order
    OBVIOUS
  <1>2. x \in Order /\ x.cmd = w[1].cmd /\ x.stage = s
    BY <1>1 DEF Order
  <1>3. [w EXCEPT ![1].stage = s] = v
    OBVIOUS
  <1> HIDE DEF x
  <1>4. v \in Seq(Order) /\ Len(v) = Len(w) /\ v[1] = x
    BY <1>1, <1>2
  <1>5. \A i \in 1..Len(w) : i # 1 => v[i] = w[i]
    BY <1>1
  <1> HIDE DEF v
  <1>6. Fades(w, v)
    <2> SUFFICES ASSUME NEW i \in 1..Len(w)
                 PROVE  v[i].cmd = w[i].cmd /\ (v[i].stage = "asked" => w[i].stage = "asked")
      BY <1>4 DEF Fades
    <2>1. CASE i = 1
      BY <1>2, <1>4, <2>1
    <2>2. CASE i # 1
      BY <1>5, <2>2
    <2> QED
      BY <2>1, <2>2
  <1> QED
    BY <1>2, <1>3, <1>4, <1>6

LEMMA EscapedFades ==
    ASSUME StagingInv
    PROVE  Escaped \in Seq(Order) /\ Wire(Escaped) /\ Fades(wire, Escaped)
  <1> DEFINE v == Escaped
  <1>1. wire \in Seq(Order) /\ Len(wire) \in Nat
    BY StagingFacts
  <1>2. /\ DOMAIN v = 1..Len(wire)
        /\ v = [i \in 1..Len(wire) |-> v[i]]
        /\ \A i \in 1..Len(wire) :
              v[i] = IF wire[i].cmd \in PayloadCommand /\ wire[i].stage \in {"asked", "prompted"}
                     THEN [wire[i] EXCEPT !.stage = "refused"] ELSE wire[i]
    BY <1>1 DEF Escaped
  <1> HIDE DEF v
  <1>3. ASSUME NEW i \in 1..Len(wire)
        PROVE  /\ v[i] \in Order /\ v[i].cmd = wire[i].cmd
               /\ v[i].stage = "asked" => wire[i].stage = "asked"
    <2> DEFINE x == wire[i]
               y == [x EXCEPT !.stage = "refused"]
    <2>1. x \in Order
      BY <1>1
    <2>2. v[i] = IF x.cmd \in PayloadCommand /\ x.stage \in {"asked", "prompted"} THEN y ELSE x
      BY <1>2
    <2> HIDE DEF x
    <2>3. y \in Order /\ y.cmd = x.cmd /\ y.stage = "refused"
      BY <2>1 DEF Order, Answer
    <2> HIDE DEF y
    <2>4. v[i] \in Order /\ v[i].cmd = x.cmd /\ (v[i].stage = "asked" => x.stage = "asked")
      BY <2>1, <2>2, <2>3
    <2> QED
      BY <2>4 DEF x
  <1>4. v \in Seq(Order) /\ Len(v) = Len(wire)
    BY <1>1, <1>2, <1>3
  <1>5. Fades(wire, v)
    BY <1>3, <1>4 DEF Fades
  <1> QED
    BY <1>4, <1>5, StagingFacts DEF v, Wire

LEMMA OnwardFlags ==
    ASSUME NEW e, NEW f, Onward(f, e)
    PROVE  f \in Context /\ (f.provisioned => e.provisioned \/ e.state \in Provisioning)
  BY DEF Onward, Rests, Follows, Waits, Provisions, Flagged, Provisioning

LEMMA RestKeeps ==
    ASSUME StagingInv, UNCHANGED <<rec, modem>>, gate' \in BOOLEAN, Rests(g', g),
           wire' \in Seq(Order), Wire(wire'), Fades(wire, wire') \/ wire' = <<>>
    PROVE  StagingInv' /\ Lawful
  <1>1. wire \in Seq(Order) /\ Held(g, wire, files, pos, rec)
    BY StagingFacts
  <1>2. Held(g, wire', files, pos, rec)
    <2>1. CASE Fades(wire, wire')
      BY <1>1, <2>1, FadesHeld
    <2>2. CASE wire' = <<>>
      <3>1. Len(wire') = 0
        BY <2>2
      <3> QED
        BY <1>1, <2>2, <3>1
        DEF Held, Aged, Ranked, Alone, Compared, ReadAlone, CaStays, SlotStays, Spares
    <2> QED
      BY <2>1, <2>2
  <1>3. Proper(g') /\ Held(g', wire', files, pos, rec)
    BY <1>2, RestHeld
  <1>4. g' \in Context /\ (g'.provisioned => g.provisioned)
    BY DEF Rests
  <1> QED
    BY <1>3, <1>4, WorkKeeps

LEMMA SameFades ==
    ASSUME NEW w \in Seq(Order)
    PROVE  Fades(w, w)
  BY DEF Fades

-----------------------------------------------------------------------------
(* Every action keeps the invariant, and is lawful.                        *)
LEMMA TakeFailureKeeps == StagingInv /\ TakeFailure => StagingInv' /\ Lawful
  <1> SUFFICES ASSUME StagingInv, TakeFailure PROVE StagingInv' /\ Lawful
    OBVIOUS
  <1> DEFINE no == FALSE
  <1>1. g' = [g EXCEPT !.failure_pending = no] /\ no \in BOOLEAN /\ UNCHANGED <<rec, gate, modem>> /\ wire' = wire
    BY DEF TakeFailure
  <1> HIDE DEF no
  <1>2. g \in Context /\ Wire(wire) /\ Held(g, wire, files, pos, rec)
    BY StagingFacts
  <1>3. g' \in Context /\ Like(g', g)
    BY <1>1, <1>2, PutFailure
  <1> QED
    BY <1>1, <1>2, <1>3, LikeKeeps

LEMMA TakeInstallReadyKeeps == StagingInv /\ TakeInstallReady => StagingInv' /\ Lawful
  <1> SUFFICES ASSUME StagingInv, TakeInstallReady PROVE StagingInv' /\ Lawful
    OBVIOUS
  <1> DEFINE no == FALSE
  <1>1. g' = [g EXCEPT !.install_ready = no] /\ no \in BOOLEAN /\ UNCHANGED <<rec, gate, modem>> /\ wire' = wire
    BY DEF TakeInstallReady
  <1> HIDE DEF no
  <1>2. g \in Context /\ Wire(wire) /\ Held(g, wire, files, pos, rec)
    BY StagingFacts
  <1>3. g' \in Context /\ Like(g', g)
    BY <1>1, <1>2, PutReady
  <1> QED
    BY <1>1, <1>2, <1>3, LikeKeeps

LEMMA LostKeeps == StagingInv /\ Lost => StagingInv' /\ Lawful
  <1> SUFFICES ASSUME StagingInv, Lost PROVE StagingInv' /\ Lawful
    OBVIOUS
  <1>1. wire # <<>> /\ wire' = Tail(wire) /\ UNCHANGED <<rec, gate, modem>> /\ g' = g
    BY DEF Lost
  <1>2. /\ g \in Context /\ wire \in Seq(Order) /\ Wire(wire) /\ Held(g, wire, files, pos, rec)
        /\ Unanswered \in Nat
    BY StagingFacts
  <1>3. wire' \in Seq(Order) /\ Len(wire) \in Nat \ {0} /\ Len(wire') = Len(wire) - 1
        /\ Held(g, wire', files, pos, rec)
    BY <1>1, <1>2, TailHeld
  <1>4. Wire(wire') /\ Like(g', g) /\ g' \in Context
    BY <1>1, <1>2, <1>3, Itself DEF Wire
  <1> QED
    BY <1>1, <1>3, <1>4, LikeKeeps

LEMMA ProvisioningKeeps ==
    ASSUME StagingInv, ~g.busy, g' \in StartProvisioning(g), UNCHANGED <<rec, gate, wire, modem>>
    PROVE  StagingInv' /\ Lawful
  <1> DEFINE no == FALSE
             x == Cleared(g)
             y == [x EXCEPT !.provisioned = no]
             z == [y EXCEPT !.probe_index = 1]
  <1>1. /\ g \in Context /\ gate \in BOOLEAN /\ wire \in Seq(Order) /\ Wire(wire) /\ Len(wire) \in Nat
        /\ Proper(g) /\ Held(g, wire, files, pos, rec) /\ Probes \in Nat \ {0}
    BY StagingFacts, StagingAssumption
  <1>2. ~g.seeding
    BY <1>1 DEF Proper
  <1>3. g' \in Issue(z, "PROBE") /\ no \in BOOLEAN /\ ~no
    BY DEF StartProvisioning
  <1> HIDE DEF no
  <1>4. x \in Context /\ Flagged(x, g) /\ x.read_size = 0
    BY <1>1, ClearedKeeps
  <1> HIDE DEF x
  <1>5. /\ y \in Context /\ y.provisioned = no /\ y.busy = x.busy /\ y.seeding = x.seeding
        /\ SlotCounted(y, x)
    BY <1>3, <1>4, PutProvisioned
  <1> HIDE DEF y
  <1>6. z \in Context /\ z.probe_index = 1 /\ Flagged(z, y) /\ SlotCounted(z, y)
    BY <1>5, PutIndex
  <1> HIDE DEF z
  <1>7. ~z.provisioned /\ ~z.busy /\ ~z.seeding /\ z.read_size = 0
    BY <1>2, <1>3, <1>4, <1>5, <1>6 DEF Flagged, SlotCounted
  <1>8. "PROBE" \in Provisioning \cup Seeding
    BY DEF Provisioning
  <1>9. Rests(g', z) \/ Asks(g', z, "PROBE")
    BY <1>3, <1>6, <1>7, <1>8, IssueAsks
  <1>10. CASE Rests(g', z)
    <2>1. Rests(g', g)
      BY <1>7, <1>10 DEF Rests
    <2>2. Fades(wire, wire') /\ wire' \in Seq(Order) /\ Wire(wire')
      BY <1>1, SameFades
    <2>3. UNCHANGED <<rec, modem>> /\ gate' \in BOOLEAN
      BY <1>1
    <2> QED
      BY <2>1, <2>2, <2>3, RestKeeps
  <1>11. CASE Asks(g', z, "PROBE")
    <2>1. /\ g' \in Context /\ g'.state = "PROBE" /\ g'.link = "queued" /\ g'.probe_index = 1
          /\ ~g'.provisioned /\ ~g'.busy /\ ~g'.seeding /\ g'.read_size = 0
      BY <1>6, <1>7, <1>11 DEF Asks, Flagged, CaCounted, SlotCounted
    <2>2. Proper(g')
      BY <1>1, <2>1 DEF Proper, Provisioning, Seeding
    <2>3. Asked(g') = 0
      BY <2>1 DEF Asked, Sending
    <2>4. Aged(g', wire)
      BY <1>1, <2>3 DEF Aged
    <2>5. Ranked(g', wire, rec) /\ Alone(g', wire)
      BY <2>1 DEF Ranked, Bound, Alone
    <2>6. Compared(g', wire, files, pos) /\ ReadAlone(g', wire, files, pos)
      BY <2>1 DEF Compared, Comparing, ReadAlone, Reading, Counting
    <2>7. CaStays(g', wire, files) /\ SlotStays(g', wire, files, rec)
      BY <1>1, <2>1 DEF Held, CaStays, SlotStays
    <2>8. Held(g', wire', files, pos, rec) /\ Wire(wire') /\ gate' \in BOOLEAN /\ UNCHANGED <<rec, modem>>
      BY <1>1, <2>4, <2>5, <2>6, <2>7 DEF Held
    <2> QED
      BY <2>1, <2>2, <2>8, WorkKeeps
  <1> QED
    BY <1>9, <1>10, <1>11

LEMMA BeginProvisioningKeeps == StagingInv /\ BeginProvisioning => StagingInv' /\ Lawful
  BY ProvisioningKeeps DEF BeginProvisioning

LEMMA RetryDueKeeps == StagingInv /\ RetryDue => StagingInv' /\ Lawful
  <1> SUFFICES ASSUME StagingInv, RetryDue PROVE StagingInv' /\ Lawful
    OBVIOUS
  <1>1. ~g.busy
    BY StagingFacts DEF RetryDue, Proper, Seeding
  <1> QED
    BY <1>1, ProvisioningKeeps DEF RetryDue

LEMMA BegunIs ==
    ASSUME NEW e \in Context, NEW seed \in BOOLEAN
    PROVE  LET f == Begun(e, seed) IN
           /\ f \in Context /\ f.state = "MQTT_QUIESCE" /\ f.link = "none" /\ f.busy
           /\ f.seeding = seed /\ f.provisioned = e.provisioned /\ f.read_size = 0
  <1> DEFINE yes == TRUE
             no == FALSE
             e0 == Cleared(e)
             e1 == [e0 EXCEPT !.seeding = seed]
             e2 == [e1 EXCEPT !.busy = yes]
             e3 == [e2 EXCEPT !.failure_pending = no]
             e4 == [e3 EXCEPT !.paused = yes]
             e5 == [e4 EXCEPT !.state = "MQTT_QUIESCE"]
  <1>1. Begun(e, seed) = e5
    BY DEF Begun
  <1>2. yes \in BOOLEAN /\ yes /\ no \in BOOLEAN /\ "MQTT_QUIESCE" \in State \cup {"MQTT_CLOSE"}
    BY DEF State
  <1> HIDE DEF yes, no
  <1>3. e0 \in Context /\ e0.link = "none" /\ Flagged(e0, e) /\ e0.read_size = 0
    BY ClearedKeeps
  <1> HIDE DEF e0
  <1>4. /\ e1 \in Context /\ e1.seeding = seed /\ e1.provisioned = e0.provisioned
        /\ Posed(e1, e0) /\ SlotCounted(e1, e0)
    BY <1>3, PutSeeding
  <1> HIDE DEF e1
  <1>5. /\ e2 \in Context /\ e2.busy = yes /\ e2.provisioned = e1.provisioned
        /\ e2.seeding = e1.seeding /\ Posed(e2, e1) /\ SlotCounted(e2, e1)
    BY <1>2, <1>4, PutBusy
  <1> HIDE DEF e2
  <1>6. e3 \in Context /\ Like(e3, e2)
    BY <1>2, <1>5, PutFailure
  <1> HIDE DEF e3
  <1>7. e4 \in Context /\ Like(e4, e3)
    BY <1>2, <1>6, PutPaused
  <1> HIDE DEF e4
  <1>8. /\ e5 \in Context /\ e5.state = "MQTT_QUIESCE" /\ e5.link = e4.link
        /\ Flagged(e5, e4) /\ SlotCounted(e5, e4)
    BY <1>2, <1>7, PutState
  <1> HIDE DEF e5
  <1> QED
    BY <1>1, <1>2, <1>3, <1>4, <1>5, <1>6, <1>7, <1>8 DEF Like, Posed, Flagged, SlotCounted

LEMMA BegunKeeps ==
    ASSUME StagingInv, UNCHANGED <<rec, gate, wire, modem>>, g.provisioned,
           g' \in Context, g'.state = "MQTT_QUIESCE", g'.link = "none", g'.busy,
           g'.provisioned, g'.read_size = 0,
           g'.seeding => g.state = "IDLE" /\ ~rec.pending /\ ~rec.seeded
    PROVE  StagingInv' /\ Lawful
  <1>1. /\ gate \in BOOLEAN /\ wire \in Seq(Order) /\ Wire(wire) /\ Held(g, wire, files, pos, rec)
        /\ rec \in [seeded : BOOLEAN, pending : BOOLEAN]
    BY StagingFacts
  <1>2. Proper(g')
    BY DEF Proper, Seeding, Provisioning
  <1>3. Ranked(g', wire, rec)
    <2>1. SUFFICES ASSUME g'.seeding PROVE Ranked(g', wire, rec)
      BY DEF Ranked, Bound, Provisioning
    <2>2. Bound(g, rec)
      BY <2>1 DEF Bound
    <2>3. \A i \in 1..Len(wire) : Rank(wire[i].cmd) <= 6
      BY <1>1, <2>1, <2>2 DEF Held, Ranked, Rank
    <2> QED
      BY <2>3 DEF Ranked, Rank, PayloadCommand
  <1>4. Aged(g', wire) /\ Alone(g', wire)
    BY DEF Aged, Alone, PayloadCommand
  <1>5. Compared(g', wire, files, pos) /\ ReadAlone(g', wire, files, pos)
    BY DEF Compared, Comparing, ReadAlone, Reading, Counting
  <1>6. CaStays(g', wire, files) /\ SlotStays(g', wire, files, rec)
    BY <1>1 DEF Held, CaStays, SlotStays
  <1>7. Held(g', wire', files, pos, rec) /\ Wire(wire') /\ gate' \in BOOLEAN /\ UNCHANGED <<rec, modem>>
    BY <1>1, <1>3, <1>4, <1>5, <1>6 DEF Held
  <1> QED
    BY <1>2, <1>7, WorkKeeps

LEMMA StartKeeps == StagingInv /\ Start => StagingInv' /\ Lawful
  <1> SUFFICES ASSUME StagingInv, Start PROVE StagingInv' /\ Lawful
    OBVIOUS
  <1> DEFINE no == FALSE
  <1>1. g' = Begun(g, no) /\ no \in BOOLEAN /\ ~no /\ UNCHANGED <<rec, gate, wire, modem>> /\ g.provisioned
    BY DEF Start
  <1> HIDE DEF no
  <1>2. g \in Context
    BY StagingFacts
  <1>3. /\ g' \in Context /\ g'.state = "MQTT_QUIESCE" /\ g'.link = "none" /\ g'.busy
        /\ g'.seeding = no /\ g'.provisioned = g.provisioned /\ g'.read_size = 0
    BY <1>1, <1>2, BegunIs
  <1> QED
    BY <1>1, <1>3, BegunKeeps

LEMMA StableCheckKeeps == StagingInv /\ StableCheck => StagingInv' /\ Lawful
  <1> SUFFICES ASSUME StagingInv, StableCheck PROVE StagingInv' /\ Lawful
    OBVIOUS
  <1> DEFINE yes == TRUE
             x == [g EXCEPT !.stable_checked = yes]
  <1>1. /\ (g' = x /\ rec.seeded) \/ (g' = Begun(x, yes) /\ ~rec.seeded) \/ g' = DownloadFailed(g)
        /\ yes \in BOOLEAN /\ yes /\ UNCHANGED <<rec, gate, wire, modem>>
        /\ g.state = "IDLE" /\ g.provisioned /\ ~rec.pending
    BY DEF StableCheck
  <1> HIDE DEF yes
  <1>2. /\ g \in Context /\ gate \in BOOLEAN /\ wire \in Seq(Order) /\ Wire(wire)
        /\ Held(g, wire, files, pos, rec)
    BY StagingFacts
  <1>3. x \in Context /\ Like(x, g)
    BY <1>1, <1>2, PutChecked
  <1> HIDE DEF x
  <1>4. CASE g' = x
    BY <1>1, <1>2, <1>3, <1>4, LikeKeeps
  <1>5. CASE g' = Begun(x, yes) /\ ~rec.seeded
    <2>1. /\ g' \in Context /\ g'.state = "MQTT_QUIESCE" /\ g'.link = "none" /\ g'.busy
          /\ g'.seeding = yes /\ g'.provisioned = x.provisioned /\ g'.read_size = 0
      BY <1>1, <1>3, <1>5, BegunIs
    <2>2. g'.provisioned
      BY <1>1, <1>3, <2>1 DEF Like, Flagged
    <2> QED
      BY <1>1, <1>5, <2>1, <2>2, BegunKeeps
  <1>6. CASE g' = DownloadFailed(g)
    <2>1. Rests(g', g) /\ Fades(wire, wire') /\ wire' \in Seq(Order) /\ Wire(wire')
      BY <1>1, <1>2, <1>6, DownloadRests, SameFades
    <2>2. UNCHANGED <<rec, modem>> /\ gate' \in BOOLEAN
      BY <1>1, <1>2
    <2> QED
      BY <2>1, <2>2, RestKeeps
  <1> QED
    BY <1>1, <1>4, <1>5, <1>6

LEMMA QuiesceKeeps == StagingInv /\ Quiesce => StagingInv' /\ Lawful
  <1> SUFFICES ASSUME StagingInv, Quiesce PROVE StagingInv' /\ Lawful
    OBVIOUS
  <1> DEFINE yes == TRUE
             x == [g EXCEPT !.borrowed = yes]
             y == [x EXCEPT !.state = "MQTT_CLOSE"]
             z == [y EXCEPT !.state = "DOWNLOADER"]
  <1>1. /\ g' = DownloadFailed(g) \/ g' \in Succeeded(y)
        /\ yes \in BOOLEAN /\ g.state = "MQTT_QUIESCE" /\ UNCHANGED <<rec, modem>>
        /\ gate' = gate /\ wire' = wire
    BY DEF Quiesce
  <1> HIDE DEF yes
  <1>2. /\ g \in Context /\ gate \in BOOLEAN /\ wire \in Seq(Order) /\ Wire(wire) /\ Proper(g)
        /\ Held(g, wire, files, pos, rec) /\ rec \in [seeded : BOOLEAN, pending : BOOLEAN]
    BY StagingFacts
  <1>3. x \in Context /\ Like(x, g)
    BY <1>1, <1>2, PutBorrowed
  <1> HIDE DEF x
  <1>4. {"MQTT_CLOSE", "DOWNLOADER"} \subseteq State \cup {"MQTT_CLOSE"}
    BY DEF State
  <1>5. /\ y \in Context /\ y.state = "MQTT_CLOSE" /\ y.link = x.link
        /\ Flagged(y, x) /\ SlotCounted(y, x)
    BY <1>3, <1>4, PutState
  <1> HIDE DEF y
  <1>6. /\ z \in Context /\ z.state = "DOWNLOADER" /\ z.link = y.link
        /\ Flagged(z, y) /\ SlotCounted(z, y)
    BY <1>4, <1>5, PutState
  <1> HIDE DEF z
  <1>7. g.link = "none" /\ ~(g.read_size > 0) /\ g.read_size \in Nat
    BY <1>1, <1>2 DEF Proper, Provisioning, Seeding, Counting, Context
  <1>8. /\ \/ g' = DownloadFailed(g) \/ g' = DownloadFailed(y)
           \/ (g' = z /\ ~y.seeding)
           \/ (g' \in Issue(y, "FILE_DELETE") /\ y.seeding)
        /\ y.seeding = g.seeding
    <2>1. y.seeding = g.seeding
      BY <1>3, <1>5 DEF Like, Flagged
    <2>2. CASE y.seeding
      BY <1>1, <1>5, <2>1, <2>2 DEF Succeeded
    <2>3. CASE ~y.seeding
      <3>1. Succeeded(y) = {z, DownloadFailed(y)}
        BY <1>5, <2>3 DEF Succeeded, z
      <3> QED
        BY <1>1, <2>1, <2>3, <3>1
    <2> QED
      BY <2>2, <2>3
  <1>9. wire' \in Seq(Order) /\ Wire(wire') /\ Fades(wire, wire') /\ gate' \in BOOLEAN
    BY <1>1, <1>2, SameFades
  <1>10. CASE Rests(g', g) \/ Rests(g', y)
    <2>1. Rests(g', g)
      BY <1>3, <1>5, <1>10 DEF Rests, Like, Flagged
    <2> QED
      BY <1>1, <1>9, <2>1, RestKeeps
  <1>11. CASE g' = z /\ ~y.seeding
    <2>1. /\ g' \in Context /\ g'.state = "DOWNLOADER" /\ g'.link = "none" /\ ~g'.seeding
          /\ g'.provisioned = g.provisioned /\ g'.busy = g.busy /\ g'.read_size = g.read_size
      BY <1>3, <1>5, <1>6, <1>7, <1>11 DEF Like, Posed, Flagged, SlotCounted
    <2>2. Proper(g')
      BY <1>2, <1>7, <2>1 DEF Proper, Provisioning, Seeding
    <2>3. Aged(g', wire) /\ Ranked(g', wire, rec) /\ Alone(g', wire)
      BY <2>1 DEF Aged, Ranked, Bound, Provisioning, Alone, PayloadCommand
    <2>4. Compared(g', wire, files, pos) /\ ReadAlone(g', wire, files, pos)
      BY <2>1 DEF Compared, Comparing, ReadAlone, Reading, Counting
    <2>5. CaStays(g', wire, files) /\ SlotStays(g', wire, files, rec)
      BY <1>2, <2>1 DEF Held, CaStays, SlotStays
    <2>6. Held(g', wire', files, pos, rec)
      BY <1>1, <2>3, <2>4, <2>5 DEF Held
    <2> QED
      BY <1>1, <1>9, <2>1, <2>2, <2>6, WorkKeeps
  <1>12. CASE Asks(g', y, "FILE_DELETE") /\ y.seeding
    <2>1. /\ g' \in Context /\ g'.state = "FILE_DELETE" /\ g'.link = "queued" /\ g'.seeding
          /\ g'.provisioned = g.provisioned /\ g'.busy = g.busy /\ g'.read_size = g.read_size
          /\ g.seeding
      BY <1>3, <1>5, <1>8, <1>12 DEF Asks, Like, Flagged, SlotCounted
    <2>2. Proper(g')
      BY <1>2, <1>7, <2>1 DEF Proper, Provisioning, Seeding
    <2>3. Aged(g', wire) /\ Alone(g', wire)
      BY <2>1 DEF Aged, Alone
    <2>4. \A i \in 1..Len(wire) : Rank(wire[i].cmd) <= 6
      BY <1>1, <1>2, <2>1 DEF Held, Ranked, Bound, Rank
    <2>5. Ranked(g', wire, rec)
      BY <2>1, <2>4 DEF Ranked, Rank, PayloadCommand
    <2>6. Compared(g', wire, files, pos) /\ ReadAlone(g', wire, files, pos)
      BY <2>1 DEF Compared, Comparing, ReadAlone, Reading, Counting
    <2>7. CaStays(g', wire, files) /\ SlotStays(g', wire, files, rec)
      BY <1>2, <2>1 DEF Held, CaStays, SlotStays
    <2>8. Held(g', wire', files, pos, rec)
      BY <1>1, <2>3, <2>5, <2>6, <2>7 DEF Held
    <2> QED
      BY <1>1, <1>9, <2>1, <2>2, <2>8, WorkKeeps
  <1>13. Rests(DownloadFailed(g), g) /\ Rests(DownloadFailed(y), y)
    BY <1>2, <1>5, DownloadRests
  <1>14. g' \in Issue(y, "FILE_DELETE") => Rests(g', y) \/ Asks(g', y, "FILE_DELETE")
    <2>1. "FILE_DELETE" \in Provisioning \cup Seeding /\ "FILE_DELETE" \notin Provisioning
      BY DEF Provisioning, Seeding
    <2> QED
      BY <1>5, <2>1, IssueAsks
  <1> QED
    BY <1>8, <1>10, <1>11, <1>12, <1>13, <1>14

(* A command is written: the modem may have dropped the oldest for it.     *)
LEMMA RoomFor ==
    ASSUME StagingInv, NEW x \in Order, Sent(x)
    PROVE  \E t \in Seq(Order) :
           /\ wire' = Append(t, x) /\ Wire(wire') /\ wire' \in Seq(Order)
           /\ Len(t) \in Nat /\ Len(t) < Unanswered /\ Len(wire') = Len(t) + 1
           /\ wire'[Len(t) + 1] = x /\ \A i \in 1..Len(t) : wire'[i] = t[i]
           /\ Held(g, t, files, pos, rec)
  <1> DEFINE t == IF Len(wire) < Unanswered THEN wire ELSE Tail(wire)
  <1>1. /\ wire \in Seq(Order) /\ Len(wire) \in Nat /\ Len(wire) <= Unanswered
        /\ Unanswered \in Nat \ {0} /\ Held(g, wire, files, pos, rec)
    BY StagingFacts DEF Wire
  <1>2. t \in Seq(Order) /\ Len(t) \in Nat /\ Len(t) < Unanswered /\ Held(g, t, files, pos, rec)
    <2>1. CASE Len(wire) < Unanswered
      BY <1>1, <2>1
    <2>2. CASE ~(Len(wire) < Unanswered)
      <3>1. wire # <<>>
        BY <1>1, <2>2
      <3>2. Tail(wire) \in Seq(Order) /\ Len(Tail(wire)) = Len(wire) - 1
            /\ Held(g, Tail(wire), files, pos, rec)
        BY <1>1, <3>1, TailHeld
      <3> QED
        BY <1>1, <2>2, <3>2
    <2> QED
      BY <2>1, <2>2
  <1>3. wire' = Append(t, x)
    BY DEF Sent
  <1> HIDE DEF t
  <1>4. /\ wire' \in Seq(Order) /\ Len(wire') = Len(t) + 1 /\ wire'[Len(t) + 1] = x
        /\ \A i \in 1..Len(t) : wire'[i] = t[i]
    BY <1>2, <1>3
  <1>5. Wire(wire')
    BY <1>1, <1>2, <1>4 DEF Wire
  <1> QED
    BY <1>2, <1>3, <1>4, <1>5

LEMMA DownloaderCommandKeeps == StagingInv /\ DownloaderCommand => StagingInv' /\ Lawful
  <1> SUFFICES ASSUME StagingInv, DownloaderCommand PROVE StagingInv' /\ Lawful
    OBVIOUS
  <1> DEFINE x == [cmd |-> Foreign, stage |-> "asked", handle |-> "none"]
  <1>1. g.state = "DOWNLOADER" /\ g' = g /\ UNCHANGED <<rec, gate, modem>> /\ Sent(x)
    BY DEF DownloaderCommand
  <1>2. x \in Order /\ x.cmd = Foreign
    BY DEF Order, Answer, Handle
  <1> HIDE DEF x
  <1>3. g \in Context /\ Proper(g)
    BY StagingFacts
  <1>4. PICK t \in Seq(Order) :
           /\ wire' = Append(t, x) /\ Wire(wire') /\ wire' \in Seq(Order)
           /\ Len(t) \in Nat /\ Len(t) < Unanswered /\ Len(wire') = Len(t) + 1
           /\ wire'[Len(t) + 1] = x /\ \A i \in 1..Len(t) : wire'[i] = t[i]
           /\ Held(g, t, files, pos, rec)
    BY <1>1, <1>2, RoomFor
  <1>5. ~g.seeding
    BY <1>1, <1>3 DEF Proper
  <1>6. Aged(g, wire') /\ Ranked(g, wire', rec) /\ Alone(g, wire')
    BY <1>1, <1>5 DEF Aged, Ranked, Bound, Provisioning, Alone, PayloadCommand
  <1>7. Compared(g, wire', files, pos) /\ ReadAlone(g, wire', files, pos)
    BY <1>1 DEF Compared, Comparing, ReadAlone, Reading, Counting
  <1>8. \A i \in 1..Len(wire') : wire'[i].cmd = Foreign \/ (i \in 1..Len(t) /\ wire'[i] = t[i])
    <2> SUFFICES ASSUME NEW i \in 1..Len(wire')
                 PROVE  wire'[i].cmd = Foreign \/ (i \in 1..Len(t) /\ wire'[i] = t[i])
      OBVIOUS
    <2>1. i = Len(t) + 1 \/ i \in 1..Len(t)
      BY <1>4
    <2> QED
      BY <1>2, <1>4, <2>1
  <1>9. CaStays(g, wire', files) /\ SlotStays(g, wire', files, rec)
    BY <1>4, <1>8 DEF Held, CaStays, SlotStays, Spares, Foreign
  <1>10. Held(g, wire', files, pos, rec) /\ Wire(wire') /\ Like(g', g) /\ g' \in Context
    BY <1>1, <1>3, <1>4, <1>6, <1>7, <1>9, Itself DEF Held
  <1> QED
    BY <1>1, <1>10, LikeKeeps

LEMMA NextReadKeeps == StagingInv /\ NextRead => StagingInv' /\ Lawful
  <1> SUFFICES ASSUME StagingInv, NextRead PROVE StagingInv' /\ Lawful
    OBVIOUS
  <1>1. /\ g.state = "VERIFY_READ" /\ g.link = "none" /\ g' \in Issue(g, "VERIFY_READ")
        /\ UNCHANGED <<rec, modem>> /\ gate' = gate /\ wire' = wire
    BY DEF NextRead
  <1>2. /\ g \in Context /\ gate \in BOOLEAN /\ wire \in Seq(Order) /\ Wire(wire) /\ Proper(g)
        /\ Held(g, wire, files, pos, rec)
    BY StagingFacts
  <1>3. "VERIFY_READ" \in Provisioning \cup Seeding /\ "VERIFY_READ" \notin Provisioning
    BY DEF Provisioning, Seeding
  <1>4. Rests(g', g) \/ Asks(g', g, "VERIFY_READ")
    BY <1>1, <1>2, <1>3, IssueAsks
  <1>5. wire' \in Seq(Order) /\ Wire(wire') /\ Fades(wire, wire') /\ gate' \in BOOLEAN
    BY <1>1, <1>2, SameFades
  <1>6. CASE Rests(g', g)
    BY <1>1, <1>5, <1>6, RestKeeps
  <1>7. CASE Asks(g', g, "VERIFY_READ")
    <2>1. /\ g' \in Context /\ g'.state = "VERIFY_READ" /\ g'.link = "queued"
          /\ g'.seeding = g.seeding /\ g'.provisioned = g.provisioned /\ g'.busy = g.busy
          /\ g'.read_size = g.read_size /\ g'.crc_ok = g.crc_ok
      BY <1>7 DEF Asks, Flagged, SlotCounted
    <2>2. wire = <<>>
      BY <1>1, <1>2 DEF Held, ReadAlone, Reading, Counting, Sending
    <2>3. Len(wire) = 0
      BY <2>2
    <2>4. Proper(g')
      BY <1>1, <1>2, <2>1 DEF Proper, Provisioning, Seeding, Counting
    <2>5. Aged(g', wire) /\ Ranked(g', wire, rec) /\ Alone(g', wire)
      BY <2>1, <2>3 DEF Aged, Ranked, Alone
    <2>6. Compared(g', wire, files, pos) /\ ReadAlone(g', wire, files, pos)
      BY <1>1, <1>2, <2>1, <2>2 DEF Held, Compared, Comparing, ReadAlone
    <2>7. CaStays(g', wire, files) /\ SlotStays(g', wire, files, rec)
      BY <1>2, <2>1 DEF Held, CaStays, SlotStays
    <2>8. Held(g', wire', files, pos, rec)
      BY <1>1, <2>5, <2>6, <2>7 DEF Held
    <2> QED
      BY <1>1, <1>5, <2>1, <2>4, <2>8, WorkKeeps
  <1> QED
    BY <1>4, <1>6, <1>7

LEMMA StartCommandKeeps ==
    ASSUME Unanswered <= Probes + 1, StagingInv, StartCommand
    PROVE  StagingInv' /\ Lawful
  <1> DEFINE h == IF UsesHandle(g.state) THEN g.handle ELSE "none"
             x == [cmd |-> g.state, stage |-> "asked", handle |-> h]
  <1>1. /\ g.link = "queued" /\ g' = [g EXCEPT !.link = "sent"] /\ Sent(x)
        /\ UNCHANGED <<rec, modem>> /\ gate' = gate
    BY DEF StartCommand
  <1>2. /\ g \in Context /\ Proper(g) /\ gate \in BOOLEAN
        /\ {Probes, Unanswered} \subseteq Nat
    BY StagingFacts, StagingAssumption
  <1>3. g.state \in Provisioning \cup Seeding
    BY <1>1, <1>2 DEF Proper
  <1>4. x \in Order /\ x.cmd = g.state
    <2>1. h \in Handle
      BY <1>2 DEF Context, Handle
    <2> HIDE DEF h
    <2> QED
      BY <1>3, <2>1 DEF Order, Answer
  <1> HIDE DEF x
  <1>5. PICK t \in Seq(Order) :
           /\ wire' = Append(t, x) /\ Wire(wire') /\ wire' \in Seq(Order)
           /\ Len(t) \in Nat /\ Len(t) < Unanswered /\ Len(wire') = Len(t) + 1
           /\ wire'[Len(t) + 1] = x /\ \A i \in 1..Len(t) : wire'[i] = t[i]
           /\ Held(g, t, files, pos, rec)
    BY <1>1, <1>4, RoomFor
  <1>6. \A i \in 1..Len(wire') :
           (i = Len(wire') /\ wire'[i].cmd = g.state) \/ (i \in 1..Len(t) /\ wire'[i] = t[i])
    <2> SUFFICES ASSUME NEW i \in 1..Len(wire')
                 PROVE  (i = Len(wire') /\ wire'[i].cmd = g.state) \/ (i \in 1..Len(t) /\ wire'[i] = t[i])
      OBVIOUS
    <2>1. i = Len(t) + 1 \/ i \in 1..Len(t)
      BY <1>5
    <2> QED
      BY <1>4, <1>5, <2>1
  <1>7. /\ g' \in Context /\ g'.link = "sent" /\ g'.state = g.state
        /\ Flagged(g', g) /\ CaCounted(g', g) /\ SlotCounted(g', g)
    <2>1. "sent" \in Link
      BY DEF Link
    <2> QED
      BY <1>1, <1>2, <2>1, PutLink
  <1>8. Sending(g') /\ ~Sending(g)
    BY <1>1, <1>7 DEF Sending
  <1>9. Proper(g')
    BY <1>1, <1>2, <1>7 DEF Proper, Flagged, CaCounted, SlotCounted
  <1>10. Aged(g', wire')
    <2> SUFFICES ASSUME g.state = "PROBE", NEW i \in 1..Len(wire'), wire'[i].cmd # "PROBE"
                 PROVE  Len(wire') - i >= Asked(g')
      BY <1>7, <1>8 DEF Aged
    <2>1. i \in 1..Len(t) /\ wire'[i] = t[i]
      BY <1>6
    <2>2. Len(t) - i >= g.probe_index - 1
      BY <1>5, <1>8, <2>1 DEF Held, Aged, Asked
    <2>3. Asked(g') = g.probe_index /\ g.probe_index \in Nat
      BY <1>2, <1>7, <1>8 DEF Asked, CaCounted, Context
    <2> QED
      BY <1>5, <2>1, <2>2, <2>3
  <1>11. Ranked(g', wire', rec)
    <2> SUFFICES ASSUME Bound(g', rec), NEW i \in 1..Len(wire')
                 PROVE  /\ Rank(wire'[i].cmd) <= Rank(g.state)
                        /\ wire'[i].cmd \in PayloadCommand /\ wire'[i].cmd = g.state => i = Len(wire')
      BY <1>7, <1>8 DEF Ranked
    <2>1. CASE i = Len(wire') /\ wire'[i].cmd = g.state
      BY <2>1 DEF Rank
    <2>2. CASE i \in 1..Len(t) /\ wire'[i] = t[i]
      <3>1. CASE g.state = "CA_OPEN"
        <4>1. t[i].cmd # "PROBE" => Len(t) - i >= Probes
          BY <1>5, <1>8, <2>2, <3>1 DEF Held, Aged, Asked
        <4>2. t[i].cmd = "PROBE"
          BY <1>2, <1>5, <2>2, <4>1
        <4> QED
          BY <2>2, <3>1, <4>2 DEF Rank, PayloadCommand
      <3>2. CASE g.state # "CA_OPEN"
        <4>1. Bound(g, rec)
          BY <1>7, <3>2 DEF Bound, Flagged
        <4>2. /\ Rank(t[i].cmd) <= Rank(g.state)
              /\ ~(t[i].cmd \in PayloadCommand /\ t[i].cmd = g.state)
          BY <1>5, <1>8, <2>2, <4>1 DEF Held, Ranked
        <4> QED
          BY <2>2, <4>2
      <3> QED
        BY <3>1, <3>2
    <2> QED
      BY <1>6, <2>1, <2>2
  <1>12. Alone(g', wire')
    BY <1>7 DEF Alone
  <1>13. Compared(g', wire', files, pos)
    <2> SUFFICES ASSUME Comparing(g)
                 PROVE  Compared(g', wire', files, pos)
      BY <1>7 DEF Compared, Comparing, CaCounted
    <2>1. ASSUME NEW i \in 1..Len(wire'), wire'[i].cmd = "CA_OPEN", wire'[i].stage = "asked"
          PROVE  g.ca_read_size = 0 /\ \A j \in 1..(i - 1) : wire'[j].cmd # "CA_READ"
      <3>1. i \in 1..Len(t) /\ wire'[i] = t[i]
        BY <1>6, <2>1 DEF Comparing
      <3>2. g.ca_read_size = 0 /\ \A j \in 1..(i - 1) : t[j].cmd # "CA_READ"
        BY <1>5, <2>1, <3>1 DEF Held, Compared
      <3>3. \A j \in 1..(i - 1) : wire'[j] = t[j]
        BY <1>5, <3>1
      <3> QED
        BY <3>2, <3>3
    <2> QED
      BY <1>5, <1>7, <2>1 DEF Held, Compared, CaCounted
  <1>14. ReadAlone(g', wire', files, pos)
    <2> SUFFICES ASSUME g.state \in Reading PROVE ReadAlone(g', wire', files, pos)
      BY <1>7 DEF ReadAlone
    <2>1. t = <<>>
      BY <1>5, <1>8 DEF Held, ReadAlone
    <2>2. Len(wire') = 1 /\ wire'[1].cmd = g.state
      BY <1>4, <1>5, <2>1
    <2> QED
      BY <1>5, <1>7, <1>8, <2>2 DEF Held, ReadAlone, SlotCounted
  <1>15. CaStays(g', wire', files)
    <2>1. g.provisioned => g.state \notin Provisioning
      BY <1>2 DEF Proper
    <2> QED
      BY <1>5, <1>6, <1>7, <2>1 DEF Held, CaStays, Spares, Flagged, Provisioning
  <1>16. SlotStays(g', wire', files, rec)
    <2>1. g.state \in Seeding => g.seeding
      BY <1>2 DEF Proper
    <2> QED
      BY <1>5, <1>6, <1>7, <2>1 DEF Held, SlotStays, Spares, Flagged, Seeding
  <1>17. Held(g', wire', files, pos, rec)
    BY <1>10, <1>11, <1>12, <1>13, <1>14, <1>15, <1>16 DEF Held
  <1>18. g'.provisioned = g.provisioned
    BY <1>7 DEF Flagged
  <1> QED
    BY <1>1, <1>2, <1>5, <1>7, <1>9, <1>17, <1>18, WorkKeeps

(* An answer, or the lack of one.                                          *)
LEMMA DoneKeeps ==
    ASSUME StagingInv, Sending(g), NEW how, g' \in CommandDone(g, how),
           UNCHANGED <<rec, modem>>, gate' \in BOOLEAN,
           wire' \in Seq(Order), Wire(wire'), Held(g, wire', files, pos, rec),
           how = "ok" => g.state \notin PayloadCommand \cup Reading \/ wire' = <<>>
    PROVE  StagingInv' /\ Lawful
  <1>1. /\ g \in Context /\ Proper(g) /\ files \in FileType /\ pos \in [Name -> Nat]
        /\ Fits(files, pos)
    BY StagingFacts
  <1>2. g.link # "none"
    BY DEF Sending
  <1>3. /\ Onward(g', g)
        /\ how # "ok" => \/ Rests(g', g)
                            \/ (g'.link = "queued" /\ g.state \notin PayloadCommand \cup Reading)
    BY <1>1, <1>2, DoneOnward
  <1>4. Rests(g', g) \/ g.state \notin PayloadCommand \cup Reading \/ wire' = <<>>
    BY <1>3
  <1>5. g' \in Context /\ Proper(g') /\ Held(g', wire', files, pos, rec)
    BY <1>1, <1>3, <1>4, OnwardHeld
  <1>6. g'.provisioned => g.provisioned \/ g.state \in Provisioning
    BY <1>3, OnwardFlags
  <1> QED
    BY <1>5, <1>6, WorkKeeps

LEMMA TimeoutKeeps == StagingInv /\ Timeout => StagingInv' /\ Lawful
  <1> SUFFICES ASSUME StagingInv, Timeout PROVE StagingInv' /\ Lawful
    OBVIOUS
  <1>1. /\ Sending(g) /\ g' \in CommandDone(g, "timeout") /\ UNCHANGED <<rec, modem>>
        /\ wire' = wire \/ wire' = Escaped
        /\ gate' = gate
    BY DEF Timeout, OnWire, Sending
  <1>2. gate \in BOOLEAN /\ wire \in Seq(Order) /\ Wire(wire) /\ Held(g, wire, files, pos, rec)
    BY StagingFacts
  <1>3. wire' \in Seq(Order) /\ Wire(wire') /\ Fades(wire, wire')
    BY <1>1, <1>2, SameFades, EscapedFades
  <1>4. Held(g, wire', files, pos, rec)
    BY <1>2, <1>3, FadesHeld
  <1>5. "timeout" # "ok" /\ gate' \in BOOLEAN
    BY <1>1, <1>2
  <1> QED
    BY <1>1, <1>3, <1>4, <1>5, DoneKeeps

LEMMA ResultLineKeeps == StagingInv /\ ResultLine => StagingInv' /\ Lawful
  <1> SUFFICES ASSUME StagingInv, ResultLine PROVE StagingInv' /\ Lawful
    OBVIOUS
  <1>1. /\ wire # <<>> /\ wire' = Tail(wire) /\ UNCHANGED <<rec, modem>> /\ gate' = gate
        /\ Head1.stage \in {"ok", "error"}
    BY DEF ResultLine
  <1>2. /\ g \in Context /\ gate \in BOOLEAN /\ wire \in Seq(Order) /\ Wire(wire)
        /\ Held(g, wire, files, pos, rec) /\ Unanswered \in Nat
    BY StagingFacts
  <1>3. /\ wire' \in Seq(Order) /\ Len(wire) \in Nat \ {0} /\ Len(wire') = Len(wire) - 1
        /\ Held(g, wire', files, pos, rec)
    BY <1>1, <1>2, TailHeld
  <1>4. Wire(wire') /\ gate' \in BOOLEAN
    BY <1>1, <1>2, <1>3 DEF Wire
  <1>5. CASE OnWire /\ (Head1.stage = "error" \/ (g.state \in PayloadCommand => g.link = "given"))
    <2>1. Sending(g) /\ g' \in CommandDone(g, Head1.stage)
      BY <1>5 DEF ResultLine, OnWire, Sending
    <2>2. Head1.stage = "ok" => g.state \notin PayloadCommand \cup Reading \/ wire' = <<>>
      <3> SUFFICES ASSUME Head1.stage = "ok", g.state \in PayloadCommand \cup Reading
                   PROVE  wire' = <<>>
        OBVIOUS
      <3>1. g.state \in PayloadCommand => g.link = "given"
        BY <1>5
      <3>2. Len(wire) = 1
        BY <1>1, <1>2, <3>1 DEF Held, Alone, ReadAlone
      <3> QED
        BY <1>3, <3>2
    <2> QED
      BY <1>1, <1>3, <1>4, <2>1, <2>2, DoneKeeps
  <1>6. CASE ~(OnWire /\ (Head1.stage = "error" \/ (g.state \in PayloadCommand => g.link = "given")))
    <2>1. g' = g /\ UNCHANGED <<rec, gate, modem>>
      BY <1>6 DEF ResultLine
    <2>2. Like(g', g) /\ g' \in Context
      BY <1>2, <2>1, Itself
    <2> QED
      BY <1>3, <1>4, <2>1, <2>2, LikeKeeps
  <1> QED
    BY <1>5, <1>6

(* Who is shut out is answered while nothing more is accepted.             *)
LEMMA ShutRests ==
    ASSUME StagingInv, g.link # "none", NEW how, how # "ok", NEW f \in Shut(how)
    PROVE  Rests(f, g)
  <1>1. f \in CommandDone(g, how) /\ f.link = "none"
    BY DEF Shut
  <1>2. g \in Context /\ Proper(g)
    BY StagingFacts
  <1>3. \/ Rests(f, g)
        \/ (f.link = "queued" /\ g.state \notin PayloadCommand \cup Reading)
    BY <1>1, <1>2, DoneOnward
  <1> QED
    BY <1>1, <1>3

LEMMA QuarantineKeeps == StagingInv /\ Quarantine => StagingInv' /\ Lawful
  <1> SUFFICES ASSUME StagingInv, Quarantine PROVE StagingInv' /\ Lawful
    OBVIOUS
  <1>1. /\ UNCHANGED <<rec, modem>> /\ gate' \in BOOLEAN /\ wire' = Escaped
    BY DEF Quarantine
  <1>2. /\ g \in Context /\ Proper(g) /\ wire \in Seq(Order) /\ Held(g, wire, files, pos, rec)
    BY StagingFacts
  <1>3. wire' \in Seq(Order) /\ Wire(wire') /\ Fades(wire, wire')
    BY <1>1, EscapedFades
  <1>4. CASE g.link = "none"
    <2>1. g' = g
      BY <1>4 DEF Quarantine
    <2>2. Held(g', wire', files, pos, rec) /\ g' \in Context /\ Proper(g')
      BY <1>2, <1>3, <2>1, FadesHeld
    <2> QED
      BY <1>1, <1>3, <2>1, <2>2, WorkKeeps
  <1>5. CASE g.link # "none"
    <2>1. PICK how \in {"error", "send_fail"} : g' \in Shut(how)
      BY <1>5 DEF Quarantine
    <2>2. how # "ok"
      OBVIOUS
    <2>3. Rests(g', g)
      BY <1>5, <2>1, <2>2, ShutRests
    <2> QED
      BY <1>1, <1>3, <2>3, RestKeeps
  <1> QED
    BY <1>4, <1>5

LEMMA AppOnModemResetKeeps == StagingInv /\ AppOnModemReset => StagingInv' /\ Lawful
  <1> SUFFICES ASSUME StagingInv, AppOnModemReset PROVE StagingInv' /\ Lawful
    OBVIOUS
  <1> DEFINE no == FALSE
  <1>1. gate' \in BOOLEAN /\ wire' = <<>> /\ UNCHANGED <<rec, modem>> /\ no \in BOOLEAN /\ ~no
    BY DEF AppOnModemReset
  <1>2. g \in Context /\ Proper(g) /\ Unanswered \in Nat
    BY StagingFacts
  <1>3. PICK e \in IF g.link = "none" THEN {g} ELSE Shut("error") : g' = ResetContext(e)
    BY DEF AppOnModemReset
  <1>4. e = g \/ Rests(e, g)
    <2>1. CASE g.link = "none"
      BY <1>3, <2>1
    <2>2. CASE g.link # "none"
      <3>1. e \in Shut("error") /\ "error" # "ok"
        BY <1>3, <2>2
      <3> QED
        BY <2>2, <3>1, ShutRests
    <2> QED
      BY <2>1, <2>2
  <1>5. e \in Context /\ (~e.busy => ~e.seeding)
    BY <1>2, <1>4 DEF Proper, Rests
  <1> DEFINE x == IF e.busy THEN DownloadFailed(e) ELSE Cleared(e)
             y == [x EXCEPT !.provisioned = no]
             z == [y EXCEPT !.stable_checked = no]
             u == [z EXCEPT !.state = "RETRY"]
  <1>6. g' = u
    BY <1>3 DEF ResetContext
  <1>7. x \in Context /\ x.link = "none" /\ ~x.busy /\ ~x.seeding /\ x.read_size = 0
    BY <1>5, DownloadRests, ClearedKeeps DEF Rests, Flagged
  <1> HIDE DEF x, no
  <1>8. /\ y \in Context /\ y.provisioned = no /\ y.busy = x.busy /\ y.seeding = x.seeding
        /\ Posed(y, x) /\ SlotCounted(y, x)
    BY <1>1, <1>7, PutProvisioned
  <1> HIDE DEF y
  <1>9. z \in Context /\ Like(z, y)
    BY <1>1, <1>8, PutChecked
  <1> HIDE DEF z
  <1>10. "RETRY" \in State \cup {"MQTT_CLOSE"}
    BY DEF State
  <1>11. u \in Context /\ u.state = "RETRY" /\ u.link = z.link /\ Flagged(u, z) /\ SlotCounted(u, z)
    BY <1>9, <1>10, PutState
  <1> HIDE DEF u
  <1>12. Rests(g', g)
    BY <1>1, <1>6, <1>7, <1>8, <1>9, <1>11 DEF Rests, Like, Posed, Flagged, SlotCounted
  <1>13. wire' \in Seq(Order) /\ Len(wire') = 0
    BY <1>1
  <1>14. Wire(wire')
    BY <1>2, <1>13 DEF Wire
  <1> QED
    BY <1>1, <1>12, <1>13, <1>14, RestKeeps

LEMMA BootedIs ==
    /\ Booted \in Context /\ Booted.state = "WAIT" /\ Booted.link = "none"
    /\ ~Booted.provisioned /\ ~Booted.busy /\ ~Booted.seeding /\ Booted.read_size = 0
  BY DEF Booted, Context, State, Link, Handle

LEMMA BootedHeld ==
    ASSUME NEW w, NEW c, NEW p, NEW r, r.seeded => SlotStays(Booted, w, c, r)
    PROVE  Proper(Booted) /\ Held(Booted, w, c, p, r)
  <1>1. Proper(Booted)
    BY BootedIs DEF Proper, Provisioning, Seeding
  <1>2. Aged(Booted, w) /\ Ranked(Booted, w, r) /\ Alone(Booted, w)
    BY BootedIs DEF Aged, Ranked, Bound, Provisioning, Alone
  <1>3. Compared(Booted, w, c, p) /\ ReadAlone(Booted, w, c, p)
    BY BootedIs DEF Compared, Comparing, ReadAlone, Reading, Counting
  <1>4. CaStays(Booted, w, c) /\ SlotStays(Booted, w, c, r)
    BY BootedIs DEF CaStays, SlotStays
  <1> QED
    BY <1>1, <1>2, <1>3, <1>4 DEF Held

LEMMA RebootKeeps == StagingInv /\ Restart => StagingInv' /\ Lawful
  <1> SUFFICES ASSUME StagingInv, Restart PROVE StagingInv' /\ Lawful
    OBVIOUS
  <1> DEFINE no == FALSE
  <1>1. /\ g' = Booted /\ gate' \in BOOLEAN /\ wire' = Escaped /\ files' = files /\ pos' = pos
        /\ rec' = rec \/ rec' = [rec EXCEPT !.pending = no]
        /\ no \in BOOLEAN
    BY DEF Restart, modem
  <1> HIDE DEF no
  <1>2. /\ wire \in Seq(Order) /\ Held(g, wire, files, pos, rec) /\ Fits(files, pos)
        /\ rec \in [seeded : BOOLEAN, pending : BOOLEAN]
        /\ files \in FileType /\ pos \in [Name -> Nat]
    BY StagingFacts
  <1>3. wire' \in Seq(Order) /\ Wire(wire') /\ Fades(wire, wire')
    BY <1>1, EscapedFades
  <1>4. SlotStays(g, wire', files, rec)
    BY <1>2, <1>3, FadesHeld DEF Held
  <1>5. rec' \in [seeded : BOOLEAN, pending : BOOLEAN] /\ rec'.seeded = rec.seeded
    BY <1>1, <1>2
  <1>6. SlotStays(Booted, wire', files, rec')
    BY <1>4, <1>5, BootedIs DEF SlotStays
  <1>7. Proper(g') /\ Held(g', wire', files', pos', rec') /\ Fits(files', pos')
    BY <1>1, <1>2, <1>6, BootedHeld
  <1>8. files' \in FileType /\ pos' \in [Name -> Nat] /\ g' \in Context /\ ~g'.provisioned
    BY <1>1, <1>2, BootedIs
  <1> QED
    BY <1>1, <1>3, <1>5, <1>7, <1>8, InvKeeps DEF Lawful

(* Another record is as good for who rests.                                *)
LEMMA RestRecKeeps ==
    ASSUME StagingInv, Rests(g', g), gate' = gate, wire' = wire, files' = files, pos' = pos,
           rec' \in [seeded : BOOLEAN, pending : BOOLEAN],
           rec'.seeded => rec.seeded \/ g.seeding, SlotStays(g', wire, files, rec')
    PROVE  StagingInv' /\ Lawful
  <1>1. /\ Held(g, wire, files, pos, rec) /\ Fits(files, pos) /\ Wire(wire) /\ gate \in BOOLEAN
        /\ files \in FileType /\ pos \in [Name -> Nat]
    BY StagingFacts
  <1>2. Proper(g') /\ Held(g', wire, files, pos, rec)
    BY <1>1, RestHeld
  <1>3. Ranked(g', wire, rec')
    BY DEF Rests, Ranked, Bound, Provisioning
  <1>4. Held(g', wire', files', pos', rec')
    BY <1>2, <1>3 DEF Held
  <1>5. g' \in Context /\ (g'.provisioned => g.provisioned)
    BY DEF Rests
  <1>6. Lawful
    BY <1>5 DEF Lawful
  <1>7. Fits(files', pos') /\ Wire(wire') /\ gate' \in BOOLEAN /\ files' \in FileType /\ pos' \in [Name -> Nat]
    BY <1>1
  <1> QED
    BY <1>2, <1>4, <1>5, <1>6, <1>7, InvKeeps

LEMMA CommitIs ==
    ASSUME NEW e \in Context, NEW ready \in BOOLEAN
    PROVE  LET f == [Resumed(Cleared(e)) EXCEPT !.busy = FALSE, !.seeding = FALSE,
                                                !.install_ready = ready, !.state = "IDLE"] IN
           /\ f \in Context /\ f.state = "IDLE" /\ f.link = "none" /\ ~f.busy /\ ~f.seeding
           /\ f.provisioned = e.provisioned /\ f.read_size = 0
  <1> DEFINE no == FALSE
             e0 == Cleared(e)
             e1 == Resumed(e0)
             e2 == [e1 EXCEPT !.busy = no]
             e3 == [e2 EXCEPT !.seeding = no]
             e4 == [e3 EXCEPT !.install_ready = ready]
             e5 == [e4 EXCEPT !.state = "IDLE"]
  <1>1. e5 = [Resumed(Cleared(e)) EXCEPT !.busy = FALSE, !.seeding = FALSE,
                                         !.install_ready = ready, !.state = "IDLE"]
    OBVIOUS
  <1>2. no \in BOOLEAN /\ ~no /\ "IDLE" \in State \cup {"MQTT_CLOSE"}
    BY DEF State
  <1> HIDE DEF no
  <1>3. e0 \in Context /\ e0.link = "none" /\ Flagged(e0, e) /\ e0.read_size = 0
    BY ClearedKeeps
  <1> HIDE DEF e0
  <1>4. e1 \in Context /\ Like(e1, e0)
    BY <1>3, ResumedLike
  <1> HIDE DEF e1
  <1>5. /\ e2 \in Context /\ e2.busy = no /\ e2.provisioned = e1.provisioned
        /\ Posed(e2, e1) /\ SlotCounted(e2, e1)
    BY <1>2, <1>4, PutBusy
  <1> HIDE DEF e2
  <1>6. /\ e3 \in Context /\ e3.seeding = no /\ e3.provisioned = e2.provisioned /\ e3.busy = e2.busy
        /\ Posed(e3, e2) /\ SlotCounted(e3, e2)
    BY <1>2, <1>5, PutSeeding
  <1> HIDE DEF e3
  <1>7. e4 \in Context /\ Like(e4, e3)
    BY <1>6, PutReady
  <1> HIDE DEF e4
  <1>8. /\ e5 \in Context /\ e5.state = "IDLE" /\ e5.link = e4.link
        /\ Flagged(e5, e4) /\ SlotCounted(e5, e4)
    BY <1>2, <1>7, PutState
  <1>9. /\ e5 \in Context /\ e5.state = "IDLE" /\ e5.link = "none" /\ ~e5.busy /\ ~e5.seeding
        /\ e5.provisioned = e.provisioned /\ e5.read_size = 0
    BY <1>2, <1>3, <1>4, <1>5, <1>6, <1>7, <1>8 DEF Like, Posed, Flagged, SlotCounted
  <1> HIDE DEF e5
  <1> QED
    BY <1>1, <1>9

(* What is committed lies whole in its slot.                               *)
LEMMA CommitKeeps ==
    ASSUME StagingInv, Commit, gate' = gate, wire' = wire, files' = files, pos' = pos,
           g.seeding => SlotStays(Booted, wire, files, [seeded |-> TRUE, pending |-> FALSE])
    PROVE  StagingInv' /\ Lawful
  <1> DEFINE r == Committed
             ready == ~g.seeding
             f == [Resumed(Cleared(g)) EXCEPT !.busy = FALSE, !.seeding = FALSE,
                                              !.install_ready = ready, !.state = "IDLE"]
  <1>1. /\ g \in Context /\ rec \in [seeded : BOOLEAN, pending : BOOLEAN] /\ gate \in BOOLEAN
        /\ Held(g, wire, files, pos, rec) /\ Fits(files, pos) /\ Wire(wire)
        /\ files \in FileType /\ pos \in [Name -> Nat]
    BY StagingFacts
  <1>2. /\ r \in [seeded : BOOLEAN, pending : BOOLEAN]
        /\ r.seeded => rec.seeded \/ g.seeding
        /\ r.seeded \/ r.pending
    BY <1>1 DEF Committed
  <1>3. ASSUME NEW h, ~h.seeding
        PROVE  SlotStays(h, wire, files, r) /\ SlotStays(h, wire, files, rec)
    <2>1. SlotStays(h, wire, files, rec)
      BY <1>1, <1>3 DEF Held, SlotStays
    <2>2. CASE g.seeding
      BY <1>3, <2>1, <2>2 DEF SlotStays, Committed
    <2>3. CASE ~g.seeding
      <3>1. r.seeded = rec.seeded
        BY <1>1, <2>3 DEF Committed
      <3> QED
        BY <2>1, <3>1 DEF SlotStays
    <2> QED
      BY <2>1, <2>2, <2>3
  <1>4. CASE rec' = r /\ g' = f
    <2>1. /\ g' \in Context /\ g'.state = "IDLE" /\ g'.link = "none" /\ ~g'.busy /\ ~g'.seeding
          /\ g'.provisioned = g.provisioned /\ g'.read_size = 0
      <3>1. ready \in BOOLEAN
        OBVIOUS
      <3> HIDE DEF ready
      <3> QED
        BY <1>1, <1>4, <3>1, CommitIs
    <2> HIDE DEF f, r
    <2>2. Proper(g')
      BY <2>1 DEF Proper, Provisioning, Seeding
    <2>3. Aged(g', wire) /\ Ranked(g', wire, rec') /\ Alone(g', wire)
      BY <1>2, <1>4, <2>1 DEF Aged, Ranked, Bound, Provisioning, Alone, PayloadCommand
    <2>4. Compared(g', wire, files, pos) /\ ReadAlone(g', wire, files, pos)
      BY <2>1 DEF Compared, Comparing, ReadAlone, Reading, Counting
    <2>5. CaStays(g', wire, files) /\ SlotStays(g', wire, files, rec')
      BY <1>1, <1>3, <1>4, <2>1 DEF Held, CaStays
    <2>6. Held(g', wire', files', pos', rec') /\ Fits(files', pos') /\ Wire(wire') /\ gate' \in BOOLEAN
      BY <1>1, <2>3, <2>4, <2>5 DEF Held
    <2>7. Lawful
      BY <1>2, <1>4, <2>1 DEF Lawful
    <2>8. /\ files' \in FileType /\ pos' \in [Name -> Nat]
          /\ rec' \in [seeded : BOOLEAN, pending : BOOLEAN]
      BY <1>1, <1>2, <1>4
    <2> QED
      BY <2>1, <2>2, <2>6, <2>7, <2>8, InvKeeps
  <1>5. CASE rec' \in {rec, r} /\ g' = DownloadFailed(g)
    <2>1. Rests(g', g) /\ ~g'.seeding
      BY <1>1, <1>5, DownloadRests DEF Rests
    <2>2. SlotStays(g', wire, files, rec')
      BY <1>3, <1>5, <2>1
    <2>3. rec' \in [seeded : BOOLEAN, pending : BOOLEAN] /\ (rec'.seeded => rec.seeded \/ g.seeding)
      BY <1>1, <1>2, <1>5
    <2> QED
      BY <2>1, <2>2, <2>3, RestRecKeeps
  <1> QED
    BY <1>4, <1>5 DEF Commit

LEMMA FailKeeps ==
    ASSUME StagingInv, g' = DownloadFailed(g), UNCHANGED <<rec, gate, wire, modem>>
    PROVE  StagingInv' /\ Lawful
  <1>1. g \in Context /\ gate \in BOOLEAN /\ wire \in Seq(Order) /\ Wire(wire)
    BY StagingFacts
  <1>2. Rests(g', g) /\ Fades(wire, wire') /\ wire' \in Seq(Order) /\ Wire(wire')
    BY <1>1, DownloadRests, SameFades
  <1>3. UNCHANGED <<rec, modem>> /\ gate' \in BOOLEAN
    BY <1>1
  <1> QED
    BY <1>2, <1>3, RestKeeps

LEMMA DownloadedKeeps == StagingInv /\ Downloaded => StagingInv' /\ Lawful
  <1> SUFFICES ASSUME StagingInv, Downloaded PROVE StagingInv' /\ Lawful
    OBVIOUS
  <1>1. UNCHANGED <<gate, wire, modem>> /\ gate' = gate /\ wire' = wire /\ files' = files /\ pos' = pos
    BY DEF Downloaded, modem
  <1>2. ~g.seeding
    BY StagingFacts DEF Downloaded, Proper
  <1>3. CASE Commit
    BY <1>1, <1>2, <1>3, CommitKeeps
  <1>4. CASE g' = DownloadFailed(g) /\ UNCHANGED rec
    BY <1>1, <1>4, FailKeeps
  <1> QED
    BY <1>3, <1>4 DEF Downloaded

LEMMA VerifySeedKeeps == StagingInv /\ VerifySeed => StagingInv' /\ Lawful
  <1> SUFFICES ASSUME StagingInv, VerifySeed PROVE StagingInv' /\ Lawful
    OBVIOUS
  <1>1. UNCHANGED <<gate, wire, modem>> /\ gate' = gate /\ wire' = wire /\ files' = files /\ pos' = pos
    BY DEF VerifySeed, modem
  <1>2. /\ g.state = "VERIFY" /\ g \in Context /\ Proper(g) /\ Held(g, wire, files, pos, rec)
        /\ Fits(files, pos) /\ files \in FileType /\ pos \in [Name -> Nat]
        /\ Chunks \in Nat \ {0}
    BY StagingFacts, StagingAssumption DEF VerifySeed
  <1>3. CASE ReadAgain /\ Commit
    <2>1. ~Sending(g)
      BY <1>2 DEF Proper, Sending, Provisioning, Seeding
    <2>2. wire = <<>>
      BY <1>2, <2>1 DEF Held, ReadAlone, Reading, Counting
    <2>3. Chunks <= pos["slot"] /\ files["slot"].there /\ files["slot"].sound
      BY <1>2, <1>3 DEF Held, ReadAlone, Reading, Counting, ReadAgain
    <2>4. files["slot"].chunks = Chunks
      <3>1. files["slot"].chunks \in Nat /\ pos["slot"] \in Nat
        BY <1>2 DEF FileType, Name
      <3> QED
        BY <1>2, <2>3, <3>1 DEF Fits
    <2>5. Len(wire) = 0
      BY <2>2
    <2>6. SlotStays(Booted, wire, files, [seeded |-> TRUE, pending |-> FALSE])
      BY <2>3, <2>4, <2>5, BootedIs DEF SlotStays, Spares
    <2> QED
      BY <1>1, <1>3, <2>6, CommitKeeps
  <1>4. CASE g' = DownloadFailed(g) /\ UNCHANGED rec
    BY <1>1, <1>4, FailKeeps
  <1> QED
    BY <1>3, <1>4 DEF VerifySeed

LEMMA PosedHeld ==
    ASSUME NEW e \in Context, NEW v \in Link, v \notin {"none", "queued"}, Sending(e), Proper(e),
           NEW w, NEW c, NEW p, NEW r, Held(e, w, c, p, r),
           Alone([e EXCEPT !.link = v], w)
    PROVE  LET f == [e EXCEPT !.link = v] IN
           f \in Context /\ Proper(f) /\ Held(f, w, c, p, r) /\ f.provisioned = e.provisioned
  <1> DEFINE f == [e EXCEPT !.link = v]
  <1>1. /\ f \in Context /\ f.link = v /\ f.state = e.state
        /\ Flagged(f, e) /\ CaCounted(f, e) /\ SlotCounted(f, e)
    BY PutLink
  <1>2. Alone(f, w)
    OBVIOUS
  <1> HIDE DEF f
  <1>3. Sending(f)
    BY <1>1 DEF Sending
  <1>4. Proper(f)
    BY <1>1 DEF Proper, Sending, Flagged, CaCounted, SlotCounted
  <1>5. Aged(f, w) /\ Ranked(f, w, r)
    BY <1>1, <1>3 DEF Held, Aged, Asked, Ranked, Bound, Flagged, CaCounted
  <1>6. Compared(f, w, c, p) /\ ReadAlone(f, w, c, p)
    BY <1>1, <1>3 DEF Held, Compared, Comparing, ReadAlone, CaCounted, SlotCounted
  <1>7. CaStays(f, w, c) /\ SlotStays(f, w, c, r) /\ f.provisioned = e.provisioned
    BY <1>1 DEF Held, CaStays, SlotStays, Flagged
  <1>8. Held(f, w, c, p, r)
    BY <1>2, <1>5, <1>6, <1>7 DEF Held
  <1>9. f \in Context /\ Proper(f) /\ Held(f, w, c, p, r) /\ f.provisioned = e.provisioned
    BY <1>1, <1>4, <1>7, <1>8
  <1> QED
    BY <1>9 DEF f

LEMMA SendPayloadKeeps == StagingInv /\ SendPayload => StagingInv' /\ Lawful
  <1> SUFFICES ASSUME StagingInv, SendPayload PROVE StagingInv' /\ Lawful
    OBVIOUS
  <1>1. /\ g \in Context /\ Proper(g) /\ gate \in BOOLEAN /\ wire \in Seq(Order) /\ Wire(wire)
        /\ Held(g, wire, files, pos, rec) /\ Unanswered \in Nat
    BY StagingFacts
  <1>2. g.state \in PayloadCommand /\ UNCHANGED <<rec, gate, modem>>
    BY DEF SendPayload
  <1>3. CASE g' = DownloadFailed(g) /\ UNCHANGED wire
    BY <1>2, <1>3, FailKeeps
  <1>4. CASE /\ g.link = "prompted" /\ g' = [g EXCEPT !.link = "given"]
             /\ wire' = IF wire # <<>> /\ Head1.stage = "prompted"
                        THEN [wire EXCEPT ![1].stage = "given"] ELSE wire
    <2>1. wire' \in Seq(Order) /\ Wire(wire') /\ Fades(wire, wire')
      <3>1. CASE wire # <<>> /\ Head1.stage = "prompted"
        <4>1. wire' = [wire EXCEPT ![1].stage = "given"] /\ "given" \in Answer /\ "given" # "asked"
          BY <1>4, <3>1 DEF Answer
        <4>2. wire' \in Seq(Order) /\ Len(wire') = Len(wire) /\ Fades(wire, wire')
          BY <1>1, <3>1, <4>1, StageFades
        <4> QED
          BY <1>1, <4>2 DEF Wire
      <3>2. CASE ~(wire # <<>> /\ Head1.stage = "prompted")
        <4>1. wire' = wire
          BY <1>4, <3>2
        <4> QED
          BY <1>1, <4>1, SameFades
      <3> QED
        BY <3>1, <3>2
    <2>2. Held(g, wire', files, pos, rec)
      BY <1>1, <2>1, FadesHeld
    <2>3. Alone([g EXCEPT !.link = "given"], wire')
      <3>1. [g EXCEPT !.link = "given"].state = g.state
        BY <1>1 DEF Context
      <3> QED
        BY <1>2, <1>4, <2>2, <3>1 DEF Held, Alone
    <2>4. Sending(g) /\ "given" \in Link /\ "given" \notin {"none", "queued"}
      BY <1>4 DEF Sending, Link
    <2>5. g' \in Context /\ Proper(g') /\ Held(g', wire', files, pos, rec) /\ g'.provisioned = g.provisioned
      BY <1>1, <1>4, <2>2, <2>3, <2>4, PosedHeld
    <2>6. UNCHANGED <<rec, modem>> /\ gate' \in BOOLEAN
      BY <1>1, <1>2
    <2> QED
      BY <2>1, <2>5, <2>6, WorkKeeps
  <1> QED
    BY <1>3, <1>4 DEF SendPayload

(* The prompt for a payload is the own one.                                *)
LEMMA PromptsKeeps == StagingInv /\ Prompts => StagingInv' /\ Lawful
  <1> SUFFICES ASSUME StagingInv, Prompts PROVE StagingInv' /\ Lawful
    OBVIOUS
  <1>1. /\ g \in Context /\ Proper(g) /\ gate \in BOOLEAN /\ wire \in Seq(Order) /\ Wire(wire)
        /\ Held(g, wire, files, pos, rec) /\ Len(wire) \in Nat
    BY StagingFacts
  <1>2. /\ wire # <<>> /\ wire[1].cmd \in PayloadCommand /\ UNCHANGED <<rec, gate, modem>>
        /\ wire' = [wire EXCEPT ![1].stage = "prompted"] /\ Len(wire) >= 1
        /\ g' = IF g.link = "sent" THEN [g EXCEPT !.link = "prompted"] ELSE g
    BY <1>1 DEF Prompts, Staged, Head1
  <1>3. /\ wire' \in Seq(Order) /\ Len(wire') = Len(wire) /\ Fades(wire, wire')
        /\ wire'[1].cmd = wire[1].cmd
    <2>1. "prompted" \in Answer /\ "prompted" # "asked"
      BY DEF Answer
    <2> QED
      BY <1>1, <1>2, <2>1, StageFades
  <1>4. Held(g, wire', files, pos, rec) /\ Wire(wire')
    BY <1>1, <1>3, FadesHeld DEF Wire
  <1>5. CASE g.link = "sent"
    <2>1. ASSUME g.state \in PayloadCommand
          PROVE  Len(wire) = 1 /\ wire[1].cmd = g.state
      <3>1. Bound(g, rec)
        BY <1>1, <2>1 DEF Bound, PayloadCommand, Proper, Provisioning, Seeding
      <3> DEFINE n == Len(wire)
      <3>0. 1 \in 1..n /\ Ranked(g, wire, rec)
        BY <1>1, <1>2 DEF Held
      <3> HIDE DEF n
      <3>2. Rank(wire[1].cmd) <= Rank(g.state) /\ (wire[1].cmd = g.state => 1 = Len(wire))
        BY <1>2, <3>0, <3>1 DEF Ranked, n
      <3>3. CASE g.state = "CA_UPLOAD"
        BY <1>2, <3>2, <3>3 DEF Rank, PayloadCommand
      <3>4. CASE g.state = "FILE_WRITE"
        <4>1. g.provisioned
          BY <1>1, <3>4 DEF Proper, Seeding
        <4>2. wire[1].cmd # "CA_UPLOAD"
          BY <1>1, <1>2, <4>1 DEF Held, CaStays, Spares
        <4> QED
          BY <1>2, <3>2, <3>4, <4>2 DEF PayloadCommand
      <3> QED
        BY <2>1, <3>3, <3>4 DEF PayloadCommand
    <2>2. Alone([g EXCEPT !.link = "prompted"], wire')
      <3>1. [g EXCEPT !.link = "prompted"].state = g.state
        BY <1>1 DEF Context
      <3> QED
        BY <1>3, <2>1, <3>1 DEF Alone
    <2>3. Sending(g) /\ "prompted" \in Link /\ "prompted" \notin {"none", "queued"}
      BY <1>5 DEF Sending, Link
    <2>4. g' \in Context /\ Proper(g') /\ Held(g', wire', files, pos, rec) /\ g'.provisioned = g.provisioned
      BY <1>1, <1>2, <1>4, <1>5, <2>2, <2>3, PosedHeld
    <2>5. UNCHANGED <<rec, modem>> /\ gate' \in BOOLEAN
      BY <1>1, <1>2
    <2> QED
      BY <1>4, <2>4, <2>5, WorkKeeps
  <1>6. CASE g.link # "sent"
    <2>1. g' = g
      BY <1>2, <1>6
    <2>2. Like(g', g) /\ g' \in Context
      BY <1>1, <2>1, Itself
    <2> QED
      BY <1>2, <1>4, <2>2, LikeKeeps
  <1> QED
    BY <1>5, <1>6

-----------------------------------------------------------------------------
(* The modem's files: one of them changes, or is read further.             *)
LEMMA FileKeeps ==
    ASSUME StagingInv, UNCHANGED <<rec, gate>>, g' \in Context, Like(g', g),
           Wire(wire'), files' \in FileType, pos' \in [Name -> Nat], Fits(files', pos'),
           Held(g, wire', files', pos', rec)
    PROVE  StagingInv' /\ Lawful
  <1>1. gate \in BOOLEAN /\ Proper(g) /\ rec \in [seeded : BOOLEAN, pending : BOOLEAN]
    BY StagingFacts
  <1>2. Proper(g') /\ Held(g', wire', files', pos', rec')
    BY <1>1, LikeHeld
  <1>3. Lawful
    BY <1>1 DEF Lawful, Like, Flagged
  <1> QED
    BY <1>1, <1>2, <1>3, InvKeeps

(* The CA file: nobody compares it, or it was not there.                   *)
LEMMA CaChanges ==
    ASSUME NEW e \in Context, NEW w, NEW c, NEW p, NEW r, Held(e, w, c, p, r),
           NEW d, NEW q, d["slot"] = c["slot"], q["slot"] = p["slot"], ~e.provisioned,
           ~Comparing(e) \/ (~c["ca"].there /\ q["ca"] = p["ca"])
    PROVE  Held(e, w, d, q, r)
  <1>1. e.ca_read_size \in Nat
    BY DEF Context
  <1>2. Compared(e, w, d, q)
    BY <1>1 DEF Held, Compared
  <1>3. ReadAlone(e, w, d, q) /\ SlotStays(e, w, d, r) /\ CaStays(e, w, d)
    BY DEF Held, ReadAlone, SlotStays, CaStays
  <1> QED
    BY <1>2, <1>3 DEF Held

(* The slot: nobody reads it yet, or relies on it.                         *)
LEMMA SlotChanges ==
    ASSUME NEW e \in Context, NEW w, NEW c, NEW p, NEW r, Held(e, w, c, p, r),
           NEW d, NEW q, d["ca"] = c["ca"], q["ca"] = p["ca"], ~r.seeded, e.state \notin Reading
    PROVE  Held(e, w, d, q, r)
  BY DEF Held, Compared, ReadAlone, SlotStays, CaStays

(* Who reads at a later place has read no less.                            *)
LEMMA ReadFurther ==
    ASSUME NEW e \in Context, NEW w, NEW c, NEW p \in [Name -> Nat], NEW r, Held(e, w, c, p, r),
           NEW q \in [Name -> Nat], p["ca"] <= q["ca"], p["slot"] <= q["slot"]
    PROVE  Held(e, w, c, q, r)
  <1>1. e.ca_read_size \in Nat /\ e.read_size \in Nat
    BY DEF Context
  <1>2. {p["ca"], p["slot"], q["ca"], q["slot"]} \subseteq Nat
    BY DEF Name
  <1>3. Compared(e, w, c, q) /\ ReadAlone(e, w, c, q)
    BY <1>1, <1>2 DEF Held, Compared, ReadAlone
  <1> QED
    BY <1>3 DEF Held

File == [chunks : Nat, sound : BOOLEAN, there : BOOLEAN]

LEMMA PutFile ==
    ASSUME NEW c \in FileType, NEW n \in Name, NEW x \in File
    PROVE  LET d == [c EXCEPT ![n] = x] IN
           /\ d \in FileType /\ d[n] = x
           /\ n = "ca" => d["slot"] = c["slot"]
           /\ n = "slot" => d["ca"] = c["ca"]
  BY DEF FileType, File, Name

LEMMA PutPos ==
    ASSUME NEW p \in [Name -> Nat], NEW n \in Name, NEW x \in Nat
    PROVE  LET q == [p EXCEPT ![n] = x] IN
           /\ q \in [Name -> Nat] /\ q[n] = x
           /\ n = "ca" => q["slot"] = p["slot"]
           /\ n = "slot" => q["ca"] = p["ca"]
  BY DEF Name

LEMMA FilesAre ==
    ASSUME StagingInv
    PROVE  /\ files["ca"] \in File /\ files["slot"] \in File
           /\ pos["ca"] \in Nat /\ pos["slot"] \in Nat
           /\ pos["ca"] <= files["ca"].chunks /\ files["ca"].chunks <= CaChunks
           /\ pos["slot"] <= files["slot"].chunks /\ files["slot"].chunks <= Chunks
           /\ ~files["ca"].there => files["ca"].chunks = 0
           /\ ~files["slot"].there => files["slot"].chunks = 0
           /\ {"ca", "slot"} = Name /\ {CaChunks, Chunks} \subseteq Nat \ {0}
  BY StagingFacts, StagingAssumption DEF FileType, File, Fits, Name

LEMMA UploadKeeps ==
    ASSUME StagingInv, g' = g, UNCHANGED <<rec, gate>>, Wire(wire'), Held(g, wire', files, pos, rec),
           ~files["ca"].there, NEW f \in Uploads, files' = [files EXCEPT !["ca"] = f], pos' = pos
    PROVE  StagingInv' /\ Lawful
  <1>1. g \in Context /\ files \in FileType /\ pos \in [Name -> Nat] /\ Fits(files, pos)
    BY StagingFacts
  <1>2. f \in File /\ f.there /\ f.chunks <= CaChunks
    <2>1. CaChunks \in Nat
      BY StagingAssumption
    <2>2. CASE f \in {[chunks |-> n, sound |-> TRUE, there |-> TRUE] : n \in 0..CaChunks}
      <3>1. PICK n \in 0..CaChunks : f = [chunks |-> n, sound |-> TRUE, there |-> TRUE]
        BY <2>2
      <3> QED
        BY <2>1, <3>1 DEF File
    <2>3. CASE f = [chunks |-> CaChunks, sound |-> FALSE, there |-> TRUE]
      BY <2>1, <2>3 DEF File
    <2> QED
      BY <2>2, <2>3 DEF Uploads
  <1>3. "ca" \in Name /\ "slot" \in Name /\ \A m \in Name : m = "ca" \/ m = "slot"
    BY DEF Name
  <1>4. files' \in FileType /\ files'["ca"] = f /\ files'["slot"] = files["slot"]
    <2> DEFINE d == [files EXCEPT !["ca"] = f]
    <2>1. d \in FileType /\ d["ca"] = f /\ d["slot"] = files["slot"]
      BY <1>1, <1>2, PutFile DEF Name
    <2> QED
      BY <2>1
  <1>5. pos["ca"] = 0 /\ f.chunks \in Nat
    <2>1. pos["ca"] \in Nat /\ pos["ca"] <= files["ca"].chunks /\ files["ca"].chunks = 0
      BY FilesAre
    <2>2. f.chunks \in Nat
      BY <1>2 DEF File
    <2> QED
      BY <2>1, <2>2
  <1>6. Fits(files', pos')
    <2>1. CaChunks \in Nat
      BY StagingAssumption
    <2>2. f.chunks >= pos["ca"]
      BY <1>5
    <2>3. \A m \in Name : ~files'[m].there => files'[m].chunks = 0
      BY <1>1, <1>2, <1>3, <1>4 DEF Fits
    <2> QED
      BY <1>1, <1>2, <1>4, <1>5, <2>1, <2>2, <2>3 DEF Fits
  <1>7. ~g.provisioned
    BY DEF Held, CaStays
  <1>8. Held(g, wire', files', pos', rec)
    BY <1>1, <1>4, <1>7, CaChanges
  <1>9. g' \in Context /\ Like(g', g) /\ pos' \in [Name -> Nat]
    BY <1>1, Itself
  <1> QED
    BY <1>4, <1>6, <1>8, <1>9, FileKeeps

LEMMA RefusesKeeps == StagingInv /\ Refuses => StagingInv' /\ Lawful
  <1> SUFFICES ASSUME StagingInv, Refuses PROVE StagingInv' /\ Lawful
    OBVIOUS
  <1>1. /\ g \in Context /\ wire \in Seq(Order) /\ Wire(wire) /\ Held(g, wire, files, pos, rec)
    BY StagingFacts
  <1>2. /\ wire # <<>> /\ wire' = [wire EXCEPT ![1].stage = "error"]
        /\ UNCHANGED <<rec, gate>> /\ g' = g /\ pos' = pos
    BY DEF Refuses, Staged
  <1>3. wire' \in Seq(Order) /\ Len(wire') = Len(wire) /\ Fades(wire, wire')
    <2>1. "error" \in Answer /\ "error" # "asked"
      BY DEF Answer
    <2> QED
      BY <1>1, <1>2, <2>1, StageFades
  <1>4. Held(g, wire', files, pos, rec) /\ Wire(wire')
    BY <1>1, <1>3, FadesHeld DEF Wire
  <1>5. CASE UNCHANGED files
    <2>1. UNCHANGED <<rec, gate, modem>> /\ g' \in Context /\ Like(g', g)
      BY <1>1, <1>2, <1>5, Itself DEF modem
    <2> QED
      BY <1>4, <2>1, LikeKeeps
  <1>6. CASE ~files["ca"].there /\ \E f \in Uploads : files' = [files EXCEPT !["ca"] = f]
    BY <1>2, <1>4, <1>6, UploadKeeps
  <1> QED
    BY <1>5, <1>6 DEF Refuses

(* What is obeyed was the oldest command.                                  *)
Obeyed == /\ wire # <<>> /\ Len(wire) \in Nat /\ 1 \in 1..Len(wire) /\ UNCHANGED <<rec, gate>>
          /\ wire' \in Seq(Order) /\ Wire(wire') /\ Fades(wire, wire')
          /\ Held(g, wire', files, pos, rec)

LEMMA ObeysHead ==
    ASSUME StagingInv, Obeys
    PROVE  Obeyed
  <1>1. /\ g \in Context /\ wire \in Seq(Order) /\ Wire(wire) /\ Held(g, wire, files, pos, rec)
        /\ Len(wire) \in Nat
    BY StagingFacts
  <1>2. /\ wire # <<>> /\ wire' = [wire EXCEPT ![1].stage = "ok"] /\ UNCHANGED <<rec, gate>>
    BY DEF Obeys, Ready, Staged
  <1>3. wire' \in Seq(Order) /\ Len(wire') = Len(wire) /\ Fades(wire, wire')
    <2>1. "ok" \in Answer /\ "ok" # "asked"
      BY DEF Answer
    <2> QED
      BY <1>1, <1>2, <2>1, StageFades
  <1>4. Held(g, wire', files, pos, rec) /\ Wire(wire')
    BY <1>1, <1>3, FadesHeld DEF Wire
  <1>5. 1 \in 1..Len(wire)
    BY <1>1, <1>2
  <1> QED
    BY <1>1, <1>2, <1>3, <1>4, <1>5 DEF Obeyed

LEMMA TellsKeeps ==
    ASSUME StagingInv, Obeyed, g' \in Context, Like(g', g), UNCHANGED modem
    PROVE  StagingInv' /\ Lawful
  <1>1. UNCHANGED <<rec, gate, modem>> /\ Wire(wire') /\ Held(g, wire', files, pos, rec)
    BY DEF Obeyed
  <1> QED
    BY <1>1, LikeKeeps

LEMMA ToldLike ==
    ASSUME NEW e \in Context
    PROVE  /\ \A f \in Handle : Opened(e, f) \in Context /\ Like(Opened(e, f), e)
           /\ Queried(e) \in Context /\ Like(Queried(e), e)
           /\ \A n \in Nat : Wrote(e, n) \in Context /\ Like(Wrote(e, n), e)
           /\ \A n : Listed(e, n) \in Context /\ Like(Listed(e, n), e)
  <1>1. "ca" \in Handle
    BY DEF Handle, Name
  <1>2. \A n : Listed(e, n) \in Context /\ Like(Listed(e, n), e)
    <2> TAKE n
    <2> DEFINE v == IF n = Chunks THEN "whole" ELSE "short"
    <2>1. v \in {"no", "short", "whole"}
      OBVIOUS
    <2>2. Listed(e, n) = IF e.seeding THEN [e EXCEPT !.listed = v] ELSE e
      BY DEF Listed
    <2> HIDE DEF v
    <2> QED
      BY <2>1, <2>2, PutListed, Itself
  <1> QED
    BY <1>1, <1>2, PutHandle, PutWritten, Itself DEF Opened, Queried, Wrote

(* The CA file is opened again: whoever compares has read nothing of it.   *)
LEMMA CaOpenKeeps ==
    ASSUME StagingInv, Obeyed, g' = Opened(g, "ca"), wire[1].cmd = "CA_OPEN",
           wire[1].stage = "asked", files' = files, pos' = [pos EXCEPT !["ca"] = 0]
    PROVE  StagingInv' /\ Lawful
  <1>1. /\ g \in Context /\ files \in FileType /\ pos \in [Name -> Nat] /\ Fits(files, pos)
        /\ Held(g, wire, files, pos, rec)
    BY StagingFacts
  <1>2. pos' \in [Name -> Nat] /\ pos'["ca"] = 0 /\ pos'["slot"] = pos["slot"]
    BY <1>1 DEF Name
  <1>3. g' \in Context /\ Like(g', g)
    <2>1. "ca" \in Handle
      BY DEF Handle, Name
    <2> QED
      BY <1>1, <2>1, ToldLike
  <1>4. files["ca"].chunks \in Nat
    BY FilesAre DEF File
  <1>5. Fits(files', pos')
    BY <1>1, <1>2, <1>4 DEF Fits
  <1>6. Compared(g, wire', files', pos')
    <2> SUFFICES ASSUME Comparing(g)
                 PROVE  Compared(g, wire', files', pos')
      BY DEF Compared
    <2>1. g.ca_read_size = 0
      BY <1>1 DEF Held, Compared, Obeyed
    <2> QED
      BY <1>2, <2>1 DEF Obeyed, Held, Compared
  <1>7. ReadAlone(g, wire', files', pos')
    BY <1>2 DEF Obeyed, Held, ReadAlone
  <1>8. Held(g, wire', files', pos', rec) /\ UNCHANGED <<rec, gate>> /\ Wire(wire') /\ files' \in FileType
    BY <1>1, <1>6, <1>7 DEF Obeyed, Held
  <1> QED
    BY <1>2, <1>3, <1>5, <1>8, FileKeeps

LEMMA CaDeleteKeeps ==
    ASSUME StagingInv, Obeyed, g' = g, wire[1].cmd = "CA_DELETE",
           files' = [files EXCEPT !["ca"] = NoFile], pos' = [pos EXCEPT !["ca"] = 0]
    PROVE  StagingInv' /\ Lawful
  <1>1. /\ g \in Context /\ files \in FileType /\ pos \in [Name -> Nat] /\ Fits(files, pos)
        /\ Held(g, wire, files, pos, rec)
    BY StagingFacts
  <1>2. pos' \in [Name -> Nat] /\ pos'["ca"] = 0 /\ pos'["slot"] = pos["slot"]
    BY <1>1 DEF Name
  <1>3. files' \in FileType /\ files'["ca"] = NoFile /\ files'["slot"] = files["slot"]
    <2>1. NoFile \in File /\ "ca" \in Name
      BY DEF NoFile, File, Name
    <2> DEFINE d == [files EXCEPT !["ca"] = NoFile]
    <2>2. d \in FileType /\ d["ca"] = NoFile /\ d["slot"] = files["slot"]
      BY <1>1, <2>1, PutFile DEF Name
    <2> QED
      BY <2>2
  <1>4. Fits(files', pos')
    <2>1. NoFile.chunks = 0 /\ CaChunks \in Nat
      BY StagingAssumption DEF NoFile
    <2> QED
      BY <1>1, <1>2, <1>3, <2>1 DEF Fits, Name
  <1>5. ~g.provisioned
    BY <1>1 DEF Held, CaStays, Spares, Obeyed
  <1>6. ~Comparing(g)
    <2>1. Comparing(g) => Bound(g, rec) /\ Rank(g.state) <= 4 /\ Rank(g.state) \in Nat
      BY DEF Comparing, Bound, Provisioning, Rank
    <2>2. Comparing(g) => Rank("CA_DELETE") <= Rank(g.state)
      BY <1>1, <2>1 DEF Held, Ranked, Obeyed
    <2> QED
      BY <2>1, <2>2 DEF Rank
  <1>7. Held(g, wire', files', pos', rec)
    BY <1>1, <1>2, <1>3, <1>5, <1>6, CaChanges DEF Obeyed
  <1>8. UNCHANGED <<rec, gate>> /\ Wire(wire') /\ g' \in Context /\ Like(g', g)
    BY <1>1, Itself DEF Obeyed
  <1> QED
    BY <1>2, <1>3, <1>4, <1>7, <1>8, FileKeeps

(* The slot is written, or begun anew, before anyone reads it.             *)
LEMMA SlotKeeps ==
    ASSUME StagingInv, Obeyed, g' \in Context, Like(g', g),
           wire[1].cmd \in {"FILE_DELETE", "FILE_OPEN", "FILE_WRITE"},
           files' \in FileType, files'["ca"] = files["ca"], files'["slot"].chunks <= Chunks,
           ~files'["slot"].there => files'["slot"].chunks = 0,
           pos' \in [Name -> Nat], pos'["ca"] = pos["ca"], pos'["slot"] <= files'["slot"].chunks
    PROVE  StagingInv' /\ Lawful
  <1>1. g \in Context /\ Fits(files, pos) /\ Held(g, wire, files, pos, rec)
    BY StagingFacts
  <1>2. Fits(files', pos')
    BY <1>1 DEF Fits, Name
  <1>3. ~rec.seeded
    BY <1>1 DEF Held, SlotStays, Spares, Obeyed
  <1>4. g.state \notin Reading
    BY <1>1 DEF Held, ReadAlone, Obeyed, Reading, Counting
  <1>5. Held(g, wire', files', pos', rec)
    BY <1>1, <1>3, <1>4, SlotChanges DEF Obeyed
  <1>6. UNCHANGED <<rec, gate>> /\ Wire(wire')
    BY DEF Obeyed
  <1> QED
    BY <1>2, <1>5, <1>6, FileKeeps

LEMMA SlotPuts ==
    ASSUME StagingInv, NEW x \in File, files' = [files EXCEPT !["slot"] = x],
           NEW n \in Nat, pos' = [pos EXCEPT !["slot"] = n]
    PROVE  /\ files' \in FileType /\ files'["slot"] = x /\ files'["ca"] = files["ca"]
           /\ pos' \in [Name -> Nat] /\ pos'["slot"] = n /\ pos'["ca"] = pos["ca"]
  <1> DEFINE d == [files EXCEPT !["slot"] = x]
  <1>1. files \in FileType /\ pos \in [Name -> Nat]
    BY StagingFacts
  <1>2. d \in FileType /\ d["slot"] = x /\ d["ca"] = files["ca"]
    BY <1>1, PutFile DEF Name
  <1>3. pos' \in [Name -> Nat] /\ pos'["slot"] = n /\ pos'["ca"] = pos["ca"]
    BY <1>1 DEF Name
  <1> QED
    BY <1>2, <1>3

LEMMA VerifyOpenKeeps ==
    ASSUME StagingInv, Obeyed, g' = Opened(g, "slot"), wire[1].cmd = "VERIFY_OPEN",
           files' = [files EXCEPT !["slot"].there = TRUE], pos' = [pos EXCEPT !["slot"] = 0]
    PROVE  StagingInv' /\ Lawful
  <1> DEFINE yes == TRUE
             x == [files["slot"] EXCEPT !.there = yes]
  <1>1. /\ g \in Context /\ files \in FileType /\ pos \in [Name -> Nat] /\ Fits(files, pos)
        /\ Held(g, wire, files, pos, rec) /\ Proper(g)
    BY StagingFacts
  <1>2. pos' \in [Name -> Nat] /\ pos'["slot"] = 0 /\ pos'["ca"] = pos["ca"]
    BY <1>1 DEF Name
  <1>3. /\ x \in File /\ x.chunks = files["slot"].chunks /\ x.sound = files["slot"].sound
        /\ x.there
    BY FilesAre DEF File
  <1>4. files' = [files EXCEPT !["slot"] = x]
    OBVIOUS
  <1> HIDE DEF x, yes
  <1>5. files' \in FileType /\ files'["slot"] = x /\ files'["ca"] = files["ca"]
    <2> DEFINE d == [files EXCEPT !["slot"] = x]
    <2>1. "slot" \in Name
      BY DEF Name
    <2>2. d \in FileType /\ d["slot"] = x /\ d["ca"] = files["ca"]
      BY <1>1, <1>3, <2>1, PutFile DEF Name
    <2> QED
      BY <1>4, <2>2
  <1>6. Fits(files', pos')
    <2>1. x.chunks \in Nat
      BY <1>3 DEF File
    <2> QED
      BY <1>1, <1>2, <1>3, <1>5, <2>1 DEF Fits, Name
  <1>7. g' \in Context /\ Like(g', g)
    <2>1. "slot" \in Handle
      BY DEF Handle, Name
    <2> QED
      BY <1>1, <2>1, ToldLike
  <1>8. ReadAlone(g, wire', files', pos')
    <2> SUFFICES ASSUME g.state \in Reading
                 PROVE  ReadAlone(g, wire', files', pos')
      BY DEF ReadAlone
    <2>1. g.state = "VERIFY_OPEN"
      BY <1>1 DEF Held, ReadAlone, Obeyed
    <2>2. g.read_size = 0
      BY <1>1, <2>1 DEF Proper, Counting, Context
    <2> QED
      BY <1>2, <2>2 DEF Obeyed, Held, ReadAlone
  <1>9. Compared(g, wire', files', pos') /\ CaStays(g, wire', files')
    BY <1>2, <1>5 DEF Obeyed, Held, Compared, CaStays
  <1>10. SlotStays(g, wire', files', rec)
    BY <1>3, <1>5 DEF Obeyed, Held, SlotStays
  <1>11. Held(g, wire', files', pos', rec) /\ UNCHANGED <<rec, gate>> /\ Wire(wire')
    BY <1>8, <1>9, <1>10 DEF Obeyed, Held
  <1> QED
    BY <1>2, <1>5, <1>6, <1>7, <1>11, FileKeeps

LEMMA PosKeeps ==
    ASSUME StagingInv, Obeyed, files' = files, pos' \in [Name -> Nat], Fits(files, pos'),
           g' \in Context, Proper(g'), g'.provisioned => g.provisioned,
           Held(g', wire', files, pos', rec)
    PROVE  StagingInv' /\ Lawful
  <1>1. /\ rec \in [seeded : BOOLEAN, pending : BOOLEAN] /\ gate \in BOOLEAN
        /\ files \in FileType
    BY StagingFacts
  <1>2. /\ rec' \in [seeded : BOOLEAN, pending : BOOLEAN] /\ gate' \in BOOLEAN
        /\ files' \in FileType /\ Wire(wire') /\ rec' = rec
    BY <1>1 DEF Obeyed
  <1>3. Fits(files', pos') /\ Held(g', wire', files', pos', rec')
    BY <1>2
  <1>4. Lawful
    BY <1>2 DEF Lawful
  <1> QED
    BY <1>2, <1>3, <1>4, InvKeeps

(* The next chunk of the CA file counts as right only if it is.            *)
LEMMA CaChunkKeeps ==
    ASSUME StagingInv, Obeyed, g.state = "CA_READ", wire[1].cmd \in {"CA_READ", "VERIFY_READ"},
           NEW good \in BOOLEAN,
           good => files["ca"].sound /\ files["ca"].there /\ pos'["ca"] = pos["ca"] + 1,
           g' = [g EXCEPT !.ca_read_size = @ + 1, !.ca_ok = @ /\ good],
           files' = files, pos' \in [Name -> Nat], Fits(files, pos'),
           Held(g, wire', files, pos', rec)
    PROVE  StagingInv' /\ Lawful
  <1> DEFINE n == g.ca_read_size + 1
             right == g.ca_ok /\ good
             x == [g EXCEPT !.ca_read_size = n]
             y == [x EXCEPT !.ca_ok = right]
  <1>1. /\ g \in Context /\ Proper(g) /\ wire \in Seq(Order) /\ Held(g, wire, files, pos, rec)
        /\ pos["ca"] \in Nat /\ pos'["ca"] \in Nat
    BY StagingFacts, FilesAre DEF Name
  <1>2. n \in Nat /\ right \in BOOLEAN /\ g.ca_read_size \in Nat /\ g' = y
    BY <1>1 DEF Context
  <1> HIDE DEF right
  <1>3. /\ x \in Context /\ x.ca_read_size = n
        /\ Posed(x, g) /\ Flagged(x, g) /\ SlotCounted(x, g) /\ x.probe_index = g.probe_index
    BY <1>1, <1>2, PutCaRead
  <1> HIDE DEF x
  <1>4. /\ y \in Context /\ y.ca_ok = right /\ y.ca_read_size = n /\ y.probe_index = g.probe_index
        /\ Posed(y, g) /\ Flagged(y, g) /\ SlotCounted(y, g)
    <2>1. /\ y \in Context /\ y.ca_ok = right /\ y.ca_read_size = x.ca_read_size
          /\ y.probe_index = x.probe_index
          /\ Posed(y, x) /\ Flagged(y, x) /\ SlotCounted(y, x)
      BY <1>2, <1>3, PutCaOk
    <2> QED
      BY <1>3, <2>1 DEF Posed, Flagged, SlotCounted
  <1> HIDE DEF y
  <1>5. Proper(g')
    BY <1>1, <1>2, <1>4 DEF Proper, Posed, Flagged, SlotCounted
  <1>6. wire[1].cmd = "CA_READ"
    <2>1. Bound(g, rec)
      BY DEF Bound, Provisioning
    <2>2. Rank(wire[1].cmd) <= Rank(g.state)
      BY <1>1, <2>1 DEF Held, Ranked, Obeyed
    <2> QED
      BY <2>2 DEF Rank
  <1>7. ASSUME NEW i \in 1..Len(wire'), wire'[i].cmd = "CA_OPEN", wire'[i].stage = "asked"
        PROVE  FALSE
    <2>1. i \in 1..Len(wire) /\ wire[i].cmd = "CA_OPEN" /\ wire[i].stage = "asked"
      BY <1>7 DEF Obeyed, Fades
    <2>2. \A j \in 1..(i - 1) : wire[j].cmd # "CA_READ"
      BY <1>1, <2>1 DEF Held, Compared, Comparing
    <2>3. i = 1 \/ 1 \in 1..(i - 1)
      BY <2>1
    <2> QED
      BY <1>6, <2>1, <2>2, <2>3
  <1>8. Compared(g', wire', files, pos')
    <2>1. right => n <= pos'["ca"] /\ files["ca"].there /\ files["ca"].sound
      <3> SUFFICES ASSUME g.ca_ok, good
                   PROVE  n <= pos'["ca"] /\ files["ca"].there /\ files["ca"].sound
        BY DEF right
      <3>1. g.ca_read_size <= pos["ca"]
        BY <1>1 DEF Held, Compared, Comparing
      <3> QED
        BY <1>1, <1>2, <3>1
    <2> HIDE DEF n
    <2> QED
      BY <1>2, <1>4, <1>7, <2>1 DEF Compared
  <1>9. Aged(g', wire') /\ Ranked(g', wire', rec) /\ Alone(g', wire')
    BY <1>2, <1>4 DEF Held, Aged, Posed, Ranked, Bound, Flagged, Sending, Alone
  <1>10. ReadAlone(g', wire', files, pos')
    BY <1>2, <1>4 DEF Posed, ReadAlone, Reading, Counting
  <1>11. CaStays(g', wire', files) /\ SlotStays(g', wire', files, rec)
    BY <1>2, <1>4 DEF Held, CaStays, SlotStays, Flagged
  <1>12. Held(g', wire', files, pos', rec)
    BY <1>8, <1>9, <1>10, <1>11 DEF Held
  <1>13. g' \in Context /\ (g'.provisioned => g.provisioned)
    BY <1>2, <1>4 DEF Flagged
  <1> QED
    BY <1>5, <1>12, <1>13, PosKeeps

(* And so does the next chunk of the slot.                                 *)
LEMMA SlotChunkKeeps ==
    ASSUME StagingInv, Obeyed, g.state = "VERIFY_READ",
           NEW good \in BOOLEAN,
           good => files["slot"].sound /\ files["slot"].there /\ pos'["slot"] = pos["slot"] + 1,
           g' = [g EXCEPT !.read_size = @ + 1, !.crc_ok = @ /\ good],
           files' = files, pos' \in [Name -> Nat], Fits(files, pos'),
           Held(g, wire', files, pos', rec)
    PROVE  StagingInv' /\ Lawful
  <1> DEFINE n == g.read_size + 1
             right == g.crc_ok /\ good
             x == [g EXCEPT !.read_size = n]
             y == [x EXCEPT !.crc_ok = right]
  <1>1. /\ g \in Context /\ Proper(g) /\ wire \in Seq(Order) /\ Held(g, wire, files, pos, rec)
        /\ pos["slot"] \in Nat /\ pos'["slot"] \in Nat
    BY StagingFacts, FilesAre DEF Name
  <1>2. n \in Nat /\ right \in BOOLEAN /\ g.read_size \in Nat /\ g' = y
    BY <1>1 DEF Context
  <1> HIDE DEF right
  <1>3. /\ x \in Context /\ x.read_size = n
        /\ Posed(x, g) /\ Flagged(x, g) /\ CaCounted(x, g)
    BY <1>1, <1>2, PutRead
  <1> HIDE DEF x
  <1>4. /\ y \in Context /\ y.crc_ok = right /\ y.read_size = n
        /\ Posed(y, g) /\ Flagged(y, g) /\ CaCounted(y, g)
    <2>1. /\ y \in Context /\ y.crc_ok = right /\ y.read_size = x.read_size
          /\ Posed(y, x) /\ Flagged(y, x) /\ CaCounted(y, x)
      BY <1>2, <1>3, PutCrc
    <2> QED
      BY <1>3, <2>1 DEF Posed, Flagged, CaCounted
  <1> HIDE DEF y
  <1>5. Proper(g')
    BY <1>1, <1>2, <1>4 DEF Proper, Posed, Flagged, CaCounted, Counting
  <1>6. right => n <= pos'["slot"] /\ files["slot"].there /\ files["slot"].sound
    <2> SUFFICES ASSUME g.crc_ok, good
                 PROVE  n <= pos'["slot"] /\ files["slot"].there /\ files["slot"].sound
      BY DEF right
    <2>1. g.read_size <= pos["slot"]
      BY <1>1 DEF Held, ReadAlone, Reading, Counting
    <2> QED
      BY <1>1, <1>2, <2>1
  <1> HIDE DEF n
  <1>7. ReadAlone(g', wire', files, pos')
    BY <1>2, <1>4, <1>6 DEF Held, ReadAlone, Posed, Sending
  <1>8. Aged(g', wire') /\ Ranked(g', wire', rec) /\ Alone(g', wire')
    BY <1>2, <1>4 DEF Held, Aged, Posed, Ranked, Bound, Flagged, Sending, Alone
  <1>9. Compared(g', wire', files, pos')
    BY <1>2, <1>4 DEF Posed, Compared, Comparing
  <1>10. CaStays(g', wire', files) /\ SlotStays(g', wire', files, rec)
    BY <1>2, <1>4 DEF Held, CaStays, SlotStays, Flagged
  <1>11. Held(g', wire', files, pos', rec)
    BY <1>7, <1>8, <1>9, <1>10 DEF Held
  <1>12. g' \in Context /\ (g'.provisioned => g.provisioned)
    BY <1>2, <1>4 DEF Flagged
  <1> QED
    BY <1>5, <1>11, <1>12, PosKeeps

LEMMA ReadKeeps ==
    ASSUME StagingInv, Obeyed, wire[1].cmd \in {"CA_READ", "VERIFY_READ"},
           NEW f \in Name, files[f].there, NEW some \in BOOLEAN, some => pos[f] < files[f].chunks,
           NEW good \in BOOLEAN, good => files[f].sound /\ f = Wanted(g), g' = Read(g, some, good),
           pos' = IF some THEN [pos EXCEPT ![f] = @ + 1] ELSE pos, files' = files
    PROVE  StagingInv' /\ Lawful
  <1>1. /\ g \in Context /\ Proper(g) /\ Fits(files, pos) /\ files \in FileType
        /\ pos \in [Name -> Nat] /\ Held(g, wire', files, pos, rec)
    BY StagingFacts DEF Obeyed
  <1>2. /\ pos["ca"] \in Nat /\ pos["slot"] \in Nat /\ pos[f] \in Nat
        /\ files[f] \in File /\ (f = "ca" \/ f = "slot")
    BY <1>1, FilesAre DEF Name
  <1>3. /\ pos' \in [Name -> Nat] /\ pos["ca"] <= pos'["ca"] /\ pos["slot"] <= pos'["slot"]
        /\ some => pos'[f] = pos[f] + 1
        /\ Fits(files, pos')
    <2>1. CASE some
      <3> DEFINE q == [pos EXCEPT ![f] = pos[f] + 1]
      <3>1. /\ q \in [Name -> Nat] /\ q[f] = pos[f] + 1
            /\ f = "ca" => q["slot"] = pos["slot"]
            /\ f = "slot" => q["ca"] = pos["ca"]
        BY <1>1, <1>2, PutPos
      <3>2. pos' = q
        BY <1>1, <2>1
      <3> HIDE DEF q
      <3>3. q[f] <= files[f].chunks
        <4>1. files[f].chunks \in Nat
          BY <1>2 DEF File
        <4> QED
          BY <1>2, <2>1, <3>1, <4>1
      <3>4. CASE f = "ca"
        BY <1>1, <1>2, <2>1, <3>1, <3>2, <3>3, <3>4 DEF Fits
      <3>5. CASE f = "slot"
        BY <1>1, <1>2, <2>1, <3>1, <3>2, <3>3, <3>5 DEF Fits
      <3> QED
        BY <1>2, <3>4, <3>5
    <2>2. CASE ~some
      BY <1>1, <1>2, <2>2
    <2> QED
      BY <2>1, <2>2
  <1>4. Held(g, wire', files, pos', rec)
    BY <1>1, <1>3, ReadFurther
  <1>5. CASE Rests(g', g)
    <2>1. Proper(g') /\ Held(g', wire', files, pos', rec)
      BY <1>4, <1>5, RestHeld
    <2>2. g' \in Context /\ (g'.provisioned => g.provisioned)
      BY <1>5 DEF Rests
    <2> QED
      BY <1>3, <2>1, <2>2, PosKeeps
  <1>6. CASE g.state = "CA_READ"
    <2>1. CASE some /\ g.ca_read_size < CaChunks
      <3>1. g' = [g EXCEPT !.ca_read_size = @ + 1, !.ca_ok = @ /\ good]
        BY <1>6, <2>1 DEF Read
      <3>2. good => files["ca"].sound /\ files["ca"].there /\ pos'["ca"] = pos["ca"] + 1
        BY <1>3, <1>6, <2>1 DEF Wanted
      <3> QED
        BY <1>3, <1>4, <1>6, <3>1, <3>2, CaChunkKeeps
    <2>2. CASE ~(some /\ g.ca_read_size < CaChunks)
      <3>1. g' = ProvisionFailed(g)
        BY <1>6, <2>2 DEF Read
      <3>2. ~g.busy /\ ~g.seeding
        BY <1>1, <1>6 DEF Proper, Provisioning
      <3>3. Rests(g', g)
        BY <1>1, <3>1, <3>2, ProvisionRests
      <3> QED
        BY <1>5, <3>3
    <2> QED
      BY <2>1, <2>2
  <1>7. CASE g.state = "VERIFY_READ"
    <2>1. CASE some /\ g.read_size < Chunks
      <3>1. g' = [g EXCEPT !.read_size = @ + 1, !.crc_ok = @ /\ good]
        BY <1>7, <2>1 DEF Read
      <3>2. good => files["slot"].sound /\ files["slot"].there /\ pos'["slot"] = pos["slot"] + 1
        BY <1>3, <1>7, <2>1 DEF Wanted
      <3> QED
        BY <1>3, <1>4, <1>7, <3>1, <3>2, SlotChunkKeeps
    <2>2. CASE ~(some /\ g.read_size < Chunks)
      <3>1. g' = DownloadFailed(g)
        BY <1>7, <2>2 DEF Read
      <3>2. Rests(g', g)
        BY <1>1, <3>1, DownloadRests
      <3> QED
        BY <1>5, <3>2
    <2> QED
      BY <2>1, <2>2
  <1>8. CASE g.state \notin {"CA_READ", "VERIFY_READ"}
    <2>1. g' = g
      BY <1>8 DEF Read
    <2> QED
      BY <1>1, <1>3, <1>4, <2>1, PosKeeps
  <1> QED
    BY <1>6, <1>7, <1>8

(* Of the downloader's commands none is answered while the App reads.      *)
LEMMA ForeignKeeps ==
    ASSUME StagingInv, Obeyed, wire[1].cmd = Foreign, UNCHANGED modem,
           g' \in {g, Opened(g, "other"), Read(g, TRUE, FALSE)} \cup {Wrote(g, n) : n \in 0..Chunks}
    PROVE  StagingInv' /\ Lawful
  <1>1. /\ g \in Context /\ Held(g, wire, files, pos, rec) /\ Chunks \in Nat
        /\ "other" \in Handle
    BY StagingFacts, StagingAssumption DEF Handle
  <1>2. g.state # "CA_READ"
    <2>1. g.state = "CA_READ" => Bound(g, rec)
      BY DEF Bound, Provisioning
    <2>2. g.state = "CA_READ" => Rank(wire[1].cmd) <= Rank(g.state)
      BY <1>1, <2>1 DEF Held, Ranked, Obeyed
    <2> QED
      BY <2>2 DEF Rank, Foreign
  <1>3. g.state # "VERIFY_READ"
    BY <1>1 DEF Held, ReadAlone, Reading, Counting, Obeyed, Foreign
  <1>4. Read(g, TRUE, FALSE) = g
    BY <1>2, <1>3 DEF Read
  <1>5. g' \in Context /\ Like(g', g)
    <2>1. CASE g' \in {g, Opened(g, "other"), Read(g, TRUE, FALSE)}
      BY <1>1, <1>4, <2>1, Itself, ToldLike
    <2>2. CASE g' \in {Wrote(g, n) : n \in 0..Chunks}
      <3>1. PICK n \in 0..Chunks : g' = Wrote(g, n)
        BY <2>2
      <3>2. n \in Nat
        BY <1>1
      <3>3. Wrote(g, n) \in Context /\ Like(Wrote(g, n), g)
        BY <1>1, <3>2, ToldLike
      <3> QED
        BY <3>1, <3>3
    <2> QED
      BY <2>1, <2>2
  <1> QED
    BY <1>5, TellsKeeps

LEMMA ObeysKeeps == StagingInv /\ Obeys => StagingInv' /\ Lawful
  <1> SUFFICES ASSUME StagingInv, Obeys PROVE StagingInv' /\ Lawful
    OBVIOUS
  <1>1. Obeyed /\ g \in Context /\ files \in FileType /\ pos \in [Name -> Nat]
    BY StagingFacts, ObeysHead
  <1>2. /\ files["slot"] \in File /\ pos["slot"] \in Nat /\ Chunks \in Nat
        /\ pos["slot"] <= files["slot"].chunks /\ "slot" \in Handle
    BY FilesAre DEF Handle, Name
  <1>3. /\ NoFile \in File /\ NoFile.chunks = 0
        /\ [NoFile EXCEPT !.there = TRUE] \in File /\ [NoFile EXCEPT !.there = TRUE].chunks = 0
    BY DEF NoFile, File
  <1>4. CASE /\ wire[1].cmd \in {"PROBE", "CA_CLOSE", "FILE_CLOSE", "VERIFY_CLOSE"}
             /\ UNCHANGED <<g, modem>>
    BY <1>1, <1>4, Itself, TellsKeeps
  <1>5. CASE /\ wire[1].cmd = "CA_OPEN" /\ g' = Opened(g, "ca")
             /\ pos' = [pos EXCEPT !["ca"] = 0] /\ UNCHANGED files
    <2>1. wire[1].stage = "asked"
      BY <1>5 DEF Obeys, Ready, Head1, PayloadCommand
    <2> QED
      BY <1>1, <1>5, <2>1, CaOpenKeeps
  <1>6. CASE wire[1].cmd = "CA_QUERY" /\ g' \in {g, Queried(g)} /\ UNCHANGED modem
    BY <1>1, <1>6, Itself, ToldLike, TellsKeeps
  <1>7. CASE /\ wire[1].cmd \in {"CA_READ", "VERIFY_READ"} /\ wire[1].handle \in Name
             /\ LET f == wire[1].handle
                    some == pos[f] < files[f].chunks IN
                /\ files[f].there
                /\ \E clean \in BOOLEAN :
                      g' = Read(g, some, clean /\ files[f].sound /\ f = Wanted(g))
                /\ pos' = IF some THEN [pos EXCEPT ![f] = @ + 1] ELSE pos
             /\ UNCHANGED files
    <2> DEFINE f == wire[1].handle
               some == pos[f] < files[f].chunks
    <2>1. PICK clean \in BOOLEAN : g' = Read(g, some, clean /\ files[f].sound /\ f = Wanted(g))
      BY <1>7
    <2> DEFINE good == clean /\ files[f].sound /\ f = Wanted(g)
    <2>2. /\ f \in Name /\ files[f].there /\ files' = files
          /\ pos' = IF some THEN [pos EXCEPT ![f] = @ + 1] ELSE pos
          /\ some => pos[f] < files[f].chunks
          /\ some \in BOOLEAN /\ good \in BOOLEAN
          /\ good => files[f].sound /\ f = Wanted(g)
          /\ wire[1].cmd \in {"CA_READ", "VERIFY_READ"}
      BY <1>7
    <2>3. g' = Read(g, some, good)
      BY <2>1
    <2> HIDE DEF f, some, good
    <2> QED
      BY <1>1, <2>2, <2>3, ReadKeeps
  <1>8. CASE /\ wire[1].cmd \in {"CA_DELETE", "FILE_DELETE"}
             /\ LET f == IF wire[1].cmd = "CA_DELETE" THEN "ca" ELSE "slot" IN
                files' = [files EXCEPT ![f] = NoFile] /\ pos' = [pos EXCEPT ![f] = 0]
             /\ UNCHANGED g
    <2>1. CASE wire[1].cmd = "CA_DELETE"
      BY <1>1, <1>8, <2>1, CaDeleteKeeps
    <2>2. CASE wire[1].cmd = "FILE_DELETE"
      <3>1. /\ wire[1].cmd \in {"FILE_DELETE", "FILE_OPEN", "FILE_WRITE"} /\ g' = g
            /\ files' = [files EXCEPT !["slot"] = NoFile] /\ pos' = [pos EXCEPT !["slot"] = 0]
        BY <1>8, <2>2
      <3>2. g' \in Context /\ Like(g', g)
        BY <1>1, <3>1, Itself
      <3>3. /\ files' \in FileType /\ files'["slot"] = NoFile /\ files'["ca"] = files["ca"]
            /\ pos' \in [Name -> Nat] /\ pos'["slot"] = 0 /\ pos'["ca"] = pos["ca"]
        BY <1>3, <3>1, SlotPuts
      <3> QED
        BY <1>1, <1>2, <1>3, <3>1, <3>2, <3>3, SlotKeeps
    <2> QED
      BY <1>8, <2>1, <2>2
  <1>9. CASE /\ wire[1].cmd = "CA_UPLOAD" /\ ~files["ca"].there
             /\ \E f \in Uploads : files' = [files EXCEPT !["ca"] = f]
             /\ UNCHANGED <<g, pos>>
    BY <1>1, <1>9, UploadKeeps DEF Obeyed
  <1>10. CASE /\ wire[1].cmd = "FILE_OPEN"
              /\ files' = [files EXCEPT !["slot"] = [NoFile EXCEPT !.there = TRUE]]
              /\ pos' = [pos EXCEPT !["slot"] = 0]
              /\ g' = Opened(g, "slot")
    <2>1. g' \in Context /\ Like(g', g)
      BY <1>1, <1>2, <1>10, ToldLike
    <2> DEFINE x == [NoFile EXCEPT !.there = TRUE]
               n == 0
    <2>2. /\ x \in File /\ x.chunks = 0 /\ files' = [files EXCEPT !["slot"] = x]
          /\ n \in Nat /\ n = 0 /\ pos' = [pos EXCEPT !["slot"] = n]
          /\ wire[1].cmd \in {"FILE_DELETE", "FILE_OPEN", "FILE_WRITE"}
      BY <1>3, <1>10
    <2> HIDE DEF x, n
    <2>3. /\ files' \in FileType /\ files'["slot"] = x /\ files'["ca"] = files["ca"]
          /\ pos' \in [Name -> Nat] /\ pos'["slot"] = n /\ pos'["ca"] = pos["ca"]
      BY <2>2, SlotPuts
    <2> QED
      BY <1>1, <1>2, <2>1, <2>2, <2>3, SlotKeeps
  <1>11. CASE /\ wire[1].cmd = "FILE_WRITE"
              /\ files["slot"].there /\ files["slot"].chunks < Chunks
              /\ \E f \in Appended(files["slot"]) : files' = [files EXCEPT !["slot"] = f]
              /\ g' = Wrote(g, files'["slot"].chunks)
              /\ UNCHANGED pos
    <2>1. PICK x \in Appended(files["slot"]) : files' = [files EXCEPT !["slot"] = x]
      BY <1>11
    <2>2. PICK good \in BOOLEAN : x = [files["slot"] EXCEPT !.chunks = @ + 1, !.sound = @ /\ good]
      BY <2>1 DEF Appended
    <2>3. /\ files["slot"].chunks \in Nat /\ files["slot"].sound \in BOOLEAN
          /\ files["slot"] = [chunks |-> files["slot"].chunks, sound |-> files["slot"].sound,
                              there |-> files["slot"].there]
      BY <1>2 DEF File
    <2>4. x \in File /\ x.chunks = files["slot"].chunks + 1 /\ x.there
      <3> DEFINE sound == files["slot"].sound /\ good
                 n == files["slot"].chunks + 1
      <3>1. sound \in BOOLEAN /\ n \in Nat
        BY <2>3
      <3>2. x = [chunks |-> n, sound |-> sound, there |-> files["slot"].there]
        BY <2>2, <2>3
      <3>3. files["slot"].there \in BOOLEAN
        BY <1>2 DEF File
      <3> HIDE DEF sound, n
      <3>4. x \in File /\ x.chunks = n /\ x.there = files["slot"].there
        BY <3>1, <3>2, <3>3 DEF File
      <3> QED
        BY <1>11, <3>4 DEF n
    <2>5. pos' = [pos EXCEPT !["slot"] = pos["slot"]]
      BY <1>1, <1>11 DEF Name
    <2>6. /\ files' \in FileType /\ files'["slot"] = x /\ files'["ca"] = files["ca"]
          /\ pos' \in [Name -> Nat] /\ pos'["slot"] = pos["slot"] /\ pos'["ca"] = pos["ca"]
      BY <1>2, <2>1, <2>4, <2>5, SlotPuts
    <2>7. x.chunks \in Nat /\ x.chunks <= Chunks /\ pos["slot"] <= x.chunks
      BY <1>2, <1>11, <2>3, <2>4
    <2>8. g' \in Context /\ Like(g', g)
      BY <1>1, <1>11, <2>6, <2>7, ToldLike
    <2>9. wire[1].cmd \in {"FILE_DELETE", "FILE_OPEN", "FILE_WRITE"}
      BY <1>11
    <2> QED
      BY <1>1, <1>2, <2>4, <2>6, <2>7, <2>8, <2>9, SlotKeeps
  <1>12. CASE /\ wire[1].cmd = "FILE_LIST"
              /\ g' = Listed(g, files["slot"].chunks) /\ UNCHANGED modem
    BY <1>1, <1>12, ToldLike, TellsKeeps
  <1>13. CASE /\ wire[1].cmd = "VERIFY_OPEN"
              /\ files' = [files EXCEPT !["slot"].there = TRUE]
              /\ pos' = [pos EXCEPT !["slot"] = 0]
              /\ g' = Opened(g, "slot")
    BY <1>1, <1>13, VerifyOpenKeeps
  <1>14. CASE /\ wire[1].cmd = Foreign /\ UNCHANGED modem
              /\ g' \in {g, Opened(g, "other"), Read(g, TRUE, FALSE)}
                        \cup {Wrote(g, n) : n \in 0..Chunks}
    BY <1>1, <1>14, ForeignKeeps
  <1>15. wire[1] = Head1
    BY DEF Head1
  <1> QED
    BY <1>4, <1>5, <1>6, <1>7, <1>8, <1>9, <1>10, <1>11, <1>12, <1>13, <1>14, <1>15 DEF Obeys

-----------------------------------------------------------------------------
LEMMA StagingBegins == StagingInit => StagingInv
  <1> SUFFICES ASSUME StagingInit PROVE StagingInv
    OBVIOUS
  <1>1. /\ g = Booted /\ gate = TRUE /\ wire = <<>>
        /\ rec = [seeded |-> FALSE, pending |-> FALSE]
        /\ files = [f \in Name |-> NoFile] /\ pos = [f \in Name |-> 0]
    BY DEF StagingInit
  <1>2. Proper(g) /\ Held(g, wire, files, pos, rec)
    BY <1>1, BootedHeld
  <1>3. wire \in Seq(Order) /\ Len(wire) = 0 /\ Unanswered \in Nat
    BY <1>1, StagingAssumption
  <1>4. NoFile \in File /\ NoFile.chunks = 0
    BY DEF NoFile, File
  <1>5. Fits(files, pos)
    BY <1>1, <1>4, StagingAssumption DEF Fits, Name
  <1>6. /\ g \in Context /\ rec \in [seeded : BOOLEAN, pending : BOOLEAN] /\ gate \in BOOLEAN
        /\ files \in FileType /\ pos \in [Name -> Nat] /\ Wire(wire)
    BY <1>1, <1>3, <1>4, BootedIs DEF FileType, File, Wire
  <1> QED
    BY <1>2, <1>3, <1>5, <1>6 DEF StagingInv, StagingTypeOK, FileType, Wire

LEMMA StagingStep ==
    ASSUME Unanswered <= Probes + 1, StagingInv, [StagingNext]_stagingvars
    PROVE  StagingInv' /\ Lawful
  <1>1. CASE UNCHANGED stagingvars
    <2>1. g' = g /\ rec' = rec /\ gate' = gate /\ wire' = wire /\ files' = files /\ pos' = pos
      BY <1>1 DEF stagingvars
    <2>2. /\ g \in Context /\ Wire(wire) /\ Held(g, wire, files, pos, rec)
      BY StagingFacts
    <2>3. UNCHANGED <<rec, gate, modem>> /\ g' \in Context /\ Like(g', g) /\ Wire(wire')
      BY <2>1, <2>2, Itself DEF modem
    <2> QED
      BY <2>1, <2>2, <2>3, LikeKeeps
  <1>2. CASE Task
    BY <1>2, RetryDueKeeps, QuiesceKeeps, DownloadedKeeps, StableCheckKeeps, SendPayloadKeeps,
       NextReadKeeps, VerifySeedKeeps DEF Task
  <1>3. CASE StartCommand \/ Timeout \/ DownloaderCommand
    BY <1>3, StartCommandKeeps, TimeoutKeeps, DownloaderCommandKeeps
  <1>4. CASE Prompts \/ Refuses \/ Obeys \/ ResultLine \/ Lost
    BY <1>4, PromptsKeeps, RefusesKeeps, ObeysKeeps, ResultLineKeeps, LostKeeps
  <1>5. CASE Quarantine \/ AppOnModemReset
    BY <1>5, QuarantineKeeps, AppOnModemResetKeeps
  <1>6. CASE BeginProvisioning \/ Start \/ TakeFailure \/ TakeInstallReady \/ Restart
    BY <1>6, BeginProvisioningKeeps, StartKeeps, TakeFailureKeeps, TakeInstallReadyKeeps, RebootKeeps
  <1> QED
    BY <1>1, <1>2, <1>3, <1>4, <1>5, <1>6 DEF StagingNext

(* Every step is one of the CA file's transfer, and of the stable slot's.  *)
LEMMA CaStep ==
    ASSUME StagingInv, StagingInv', Lawful
    PROVE  [Ca!Next]_(Ca!vars)
  <1>1. /\ g.provisioned => Whole("ca", CaChunks)
        /\ g.state \in Provisioning => ~g.provisioned
    BY StagingFacts DEF Held, CaStays, Proper, Whole
  <1>2. g'.provisioned => Whole("ca", CaChunks)'
    BY DEF StagingInv, Held, CaStays, Whole
  <1>3. Whole("ca", CaChunks) \in BOOLEAN /\ Whole("ca", CaChunks)' \in BOOLEAN
    BY DEF Whole
  <1>4. CASE files' = files
    <2>1. Whole("ca", CaChunks)' = Whole("ca", CaChunks)
      BY <1>4 DEF Whole
    <2>2. CASE g'.provisioned /\ ~g.provisioned
      <3>1. g.state \in Provisioning /\ Whole("ca", CaChunks)
        BY <1>2, <2>1, <2>2 DEF Lawful
      <3> QED
        BY <2>1, <2>2, <3>1 DEF Ca!Next, Ca!Accept
    <2>3. CASE g'.provisioned /\ g.provisioned
      BY <2>1, <2>3 DEF Ca!vars
    <2>4. CASE ~g'.provisioned
      BY <2>1, <2>4 DEF Ca!Next, Ca!Begin, Ca!GiveUp, Ca!vars
    <2> QED
      BY <2>2, <2>3, <2>4
  <1>5. CASE files' # files
    <2>1. g'.provisioned = g.provisioned /\ g'.state = g.state
      BY <1>5 DEF Lawful, Like, Posed, Flagged
    <2>2. CASE g.provisioned
      <3>1. Whole("ca", CaChunks)' = Whole("ca", CaChunks)
        BY <1>1, <1>2, <1>3, <2>1, <2>2
      <3> QED
        BY <2>1, <2>2, <3>1 DEF Ca!vars
    <2>3. CASE ~g.provisioned
      BY <1>3, <2>1, <2>3 DEF Ca!Next, Ca!Change
    <2> QED
      BY <2>2, <2>3
  <1> QED
    BY <1>4, <1>5

LEMMA SeedStep ==
    ASSUME StagingInv, StagingInv', Lawful
    PROVE  [Seed!Next]_(Seed!vars)
  <1>1. rec.seeded => Whole("slot", Chunks) /\ ~g.seeding
    BY StagingFacts DEF Held, SlotStays, Whole
  <1>2. rec'.seeded => Whole("slot", Chunks)' /\ ~g'.seeding
    BY DEF StagingInv, Held, SlotStays, Whole
  <1>3. Whole("slot", Chunks) \in BOOLEAN /\ Whole("slot", Chunks)' \in BOOLEAN
    BY DEF Whole
  <1>4. CASE files' = files
    <2>1. Whole("slot", Chunks)' = Whole("slot", Chunks)
      BY <1>4 DEF Whole
    <2>2. CASE rec'.seeded /\ ~rec.seeded
      <3>1. g.seeding /\ Whole("slot", Chunks)
        BY <1>2, <2>1, <2>2 DEF Lawful
      <3> QED
        BY <2>1, <2>2, <3>1 DEF Seed!Next, Seed!Accept
    <2>3. CASE rec'.seeded /\ rec.seeded
      BY <2>1, <2>3 DEF Seed!vars
    <2>4. CASE ~rec'.seeded
      BY <2>1, <2>4 DEF Seed!Next, Seed!Begin, Seed!GiveUp, Seed!vars
    <2> QED
      BY <2>2, <2>3, <2>4
  <1>5. CASE files' # files
    <2>1. rec' = rec /\ g'.seeding = g.seeding
      BY <1>5 DEF Lawful, Like, Flagged
    <2>2. CASE rec.seeded
      <3>1. Whole("slot", Chunks)' = Whole("slot", Chunks)
        BY <1>1, <1>2, <1>3, <2>1, <2>2
      <3> QED
        BY <2>1, <2>2, <3>1 DEF Seed!vars
    <2>3. CASE ~rec.seeded
      BY <1>3, <2>1, <2>3 DEF Seed!Next, Seed!Change
    <2> QED
      BY <2>2, <2>3
  <1> QED
    BY <1>4, <1>5

LEMMA StagingBeginsTransfers == StagingInit => Seed!Init /\ Ca!Init
  BY BootedIs DEF StagingInit, Seed!Init, Ca!Init, Whole, Booted, Provisioning

(* The platform counts as provisioned only while the modem holds the right *)
(* CA file, and the record names a stable image only while the slot holds  *)
(* it; nothing the modem still has to do changes either afterwards         *)
(* (ca_matches, commit_verified_candidate after ST_VERIFY), as long as it  *)
(* owes at most one answer more than a provisioning asks for capabilities. *)
THEOREM StagingImplementsTransfers ==
    ASSUME Unanswered <= Probes + 1
    PROVE  StagingSpec => ImplementsTransfers
  <1>1. StagingInit => StagingInv
    BY StagingBegins
  <1>2. StagingInv /\ [StagingNext]_stagingvars => StagingInv'
    BY StagingStep
  <1>3. StagingInit => Seed!Init /\ Ca!Init
    BY StagingBeginsTransfers
  <1>4. StagingInv /\ [StagingNext]_stagingvars => [Seed!Next]_(Seed!vars)
    BY StagingStep, SeedStep
  <1>5. StagingInv /\ [StagingNext]_stagingvars => [Ca!Next]_(Ca!vars)
    BY StagingStep, CaStep
  <1> QED
    BY <1>1, <1>2, <1>3, <1>4, <1>5, PTL DEF StagingSpec, ImplementsTransfers, Seed!Spec, Ca!Spec
=============================================================================
