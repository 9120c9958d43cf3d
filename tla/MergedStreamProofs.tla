------------------------- MODULE MergedStreamProofs -------------------------
(***************************************************************************)
(* What holds of the merged stream for any number of routes, queue size    *)
(* and batch: no message of a running stream is lost, repeated or          *)
(* reordered.                                                              *)
(***************************************************************************)
EXTENDS MergedStream, TLAPS

Number == 0..(Numbers - 1)

(* An item the worker of r has in hand.                                    *)
Held(r) == worker[r].pc \in {"offer", "put"}

(* The messages of r between the last one yielded and the next one read.   *)
Between(r) ==
  Len(queue[r]) + (IF Held(r) /\ worker[r].item.kind = "message" THEN 1 ELSE 0)
                - (IF worker[r].pc = "done" THEN 1 ELSE 0)

Types ==
  /\ worker \in [Route -> [pc : {"recv", "offer", "put", "done"}, item : Item]]
  /\ queue \in [Route -> Seq(Item)]
  /\ got \in [Route -> Number]
  /\ next \in [Route -> Number]

(* Queue, item in hand and next message are numbered from the last yield.  *)
InLine(r) ==
  /\ \A i \in 1..Len(queue[r]) : queue[r][i].number = (got[r] + i - 1) % Numbers
  /\ Held(r) => worker[r].item.number = (got[r] + Len(queue[r])) % Numbers
  /\ next[r] = (got[r] + Between(r)) % Numbers

IInv == Types /\ (~stop => \A r \in Route : InLine(r))

-----------------------------------------------------------------------------
(* Arithmetic                                                              *)

LEMMA Multiple ==
  ASSUME NEW n \in Nat, n > 0, NEW k \in Int, -n < n * k, n * k < n
  PROVE  k = 0
<1>1. CASE k >= 1
  <2>1. PICK j \in Nat : k = 1 + j
    <3>1. k - 1 \in Nat /\ k = 1 + (k - 1)
      BY <1>1
    <3> QED
      BY <3>1
  <2>2. n * k = n + n * j /\ n * j >= 0
    BY <2>1
  <2> QED
    BY <2>2
<1>2. CASE k <= -1
  <2>1. PICK j \in Nat : k = -1 - j
    <3>1. -1 - k \in Nat /\ k = -1 - (-1 - k)
      BY <1>2
    <3> QED
      BY <3>1
  <2>2. n * k = -n - n * j /\ n * j >= 0
    BY <2>1
  <2> QED
    BY <2>2
<1> QED
  BY <1>1, <1>2

LEMMA Congruent ==
  ASSUME NEW n \in Nat, n > 1, NEW x \in Int, NEW y \in Int, NEW k \in Int, x = y + n * k
  PROVE  x % n = y % n
<1>1. ASSUME NEW z \in Int
      PROVE  z % n \in 0..n - 1 /\ z \div n \in Int /\ z = n * (z \div n) + (z % n)
  OBVIOUS
<1> DEFINE q == x \div n
           r == x % n
           p == y \div n
           s == y % n
<1>2. r \in 0..n - 1 /\ q \in Int /\ x = n * q + r
  BY <1>1
<1>3. s \in 0..n - 1 /\ p \in Int /\ y = n * p + s
  BY <1>1
<1> HIDE DEF q, r, p, s
<1>4. n * (p + k - q) = r - s
  <2>1. n * p + n * k - n * q = r - s
    BY <1>2, <1>3
  <2>2. n * (p + k - q) = n * p + n * k - n * q
    BY <1>2, <1>3
  <2> QED
    BY <2>1, <2>2
<1>5. -n < r - s /\ r - s < n
  BY <1>2, <1>3
<1>6. p + k - q = 0
  <2>1. p + k - q \in Int /\ n > 0
    BY <1>2, <1>3
  <2> QED
    BY <2>1, <1>4, <1>5, Multiple
<1>7. r = s
  BY <1>2, <1>3, <1>4, <1>6
<1> QED
  BY <1>7 DEF r, s

(* A remainder may be taken before something is added.                     *)
LEMMA AddToRemainder ==
  ASSUME NEW n \in Nat, n > 1, NEW x \in Int, NEW b \in Int
  PROVE  /\ x % n \in 0..n - 1
         /\ ((x % n) + b) % n = (x + b) % n
<1> DEFINE q == x \div n
           r == x % n
<1>1. q \in Int /\ r \in 0..n - 1 /\ x = n * q + r
  OBVIOUS
<1> HIDE DEF q, r
<1>2. r + b = (x + b) + n * (-q)
  BY <1>1
<1>3. r + b \in Int /\ x + b \in Int /\ -q \in Int
  BY <1>1
<1>4. (r + b) % n = (x + b) % n
  BY <1>2, <1>3, Congruent
<1> QED
  BY <1>1, <1>4 DEF r

(* A number below the modulus is its remainder.                            *)
LEMMA SmallRemainder ==
  ASSUME NEW n \in Nat, n > 1, NEW x \in 0..n - 1
  PROVE  x % n = x
OBVIOUS

LEMMA SuccessorIsNumber ==
  ASSUME MergedStreamAssumption, NEW n \in Number
  PROVE  Successor(n) \in Number
<1>1. Numbers \in Nat /\ Numbers > 1 /\ n + 1 \in Int
  BY DEF MergedStreamAssumption, Number
<1> QED
  BY <1>1, AddToRemainder DEF Successor, Number

-----------------------------------------------------------------------------
(* The invariant                                                           *)

LEMMA InitHolds ==
  ASSUME MergedStreamAssumption, Init
  PROVE  IInv
<1>1. 0 \in Number /\ Numbers \in Nat /\ Numbers > 1
  BY DEF MergedStreamAssumption, Number
<1>2. Nothing \in Item
  BY <1>1 DEF Nothing, Item, Number
<1>3. Types
  BY <1>1, <1>2 DEF Init, Types
<1>4. ASSUME NEW r \in Route
      PROVE  InLine(r)
  <2>1. queue[r] = <<>> /\ worker[r].pc = "recv" /\ next[r] = 0 /\ got[r] = 0
    BY DEF Init
  <2>2. ~Held(r) /\ Between(r) = 0
    BY <2>1 DEF Held, Between
  <2>3. 0 % Numbers = 0
    BY <1>1
  <2> QED
    BY <2>1, <2>2, <2>3 DEF InLine
<1> QED
  BY <1>3, <1>4 DEF IInv

(* A step of one route's worker and queue leaves the other routes in line. *)
LEMMA OthersInLine ==
  ASSUME NEW r, InLine(r), worker'[r] = worker[r], queue'[r] = queue[r], next'[r] = next[r],
         got'[r] = got[r]
  PROVE  InLine(r)'
BY DEF InLine, Between, Held

LEMMA HoldTypes ==
  ASSUME Types, NEW r \in Route, NEW pc \in {"recv", "offer", "put", "done"}, NEW item \in Item,
         Hold(r, pc, item)
  PROVE  /\ worker' \in [Route -> [pc : {"recv", "offer", "put", "done"}, item : Item]]
         /\ worker'[r].pc = pc /\ worker'[r].item = item
         /\ \A o \in Route \ {r} : worker'[o] = worker[o]
BY DEF Hold, Types

LEMMA ReceiveHolds ==
  ASSUME MergedStreamAssumption, IInv, NEW r \in Route, Receive(r)
  PROVE  IInv'
<1> DEFINE item == [kind |-> "message", number |-> next[r]]
           N == Numbers
<1>1. /\ worker[r].pc = "recv" /\ Hold(r, IF stop THEN "done" ELSE "offer", item)
      /\ next' = [next EXCEPT ![r] = IF stop THEN @ ELSE Successor(@)]
      /\ UNCHANGED <<queue, stop, got>>
  BY DEF Receive
<1>2. Types /\ next[r] \in Number /\ N \in Nat /\ N > 1
  BY DEF IInv, Types, MergedStreamAssumption
<1>3. item \in Item /\ item.kind = "message" /\ item.number = next[r]
  BY <1>2 DEF Item, Number
<1> HIDE DEF item, N
<1>4. /\ worker' \in [Route -> [pc : {"recv", "offer", "put", "done"}, item : Item]]
      /\ worker'[r].pc = (IF stop THEN "done" ELSE "offer") /\ worker'[r].item = item
      /\ \A o \in Route \ {r} : worker'[o] = worker[o]
  BY <1>1, <1>2, <1>3, HoldTypes
<1>5. /\ next' \in [Route -> Number]
      /\ next'[r] = IF stop THEN next[r] ELSE Successor(next[r])
      /\ \A o \in Route \ {r} : next'[o] = next[o]
  <2>1. Successor(next[r]) \in Number
    BY <1>2, SuccessorIsNumber
  <2> QED
    BY <2>1, <1>1, <1>2 DEF Types
<1>6. Types'
  BY <1>1, <1>2, <1>4, <1>5 DEF Types
<1>7. ASSUME ~stop', NEW o \in Route
      PROVE  InLine(o)'
  <2>1. ~stop /\ InLine(o)
    BY <1>1, <1>7 DEF IInv
  <2>2. CASE o # r
    BY <2>1, <2>2, <1>1, <1>4, <1>5, OthersInLine
  <2>3. CASE o = r
    <3> DEFINE L == Len(queue[r])
               g == got[r]
    <3>1. L \in Nat /\ g \in Int /\ Len(queue'[r]) = L /\ got'[r] = g
      BY <1>1, <1>2 DEF Types, Number
    <3>2. Between(r) = L /\ next[r] = (g + L) % N
      <4>1. Between(r) = L
        BY <1>1, <3>1 DEF Between, Held
      <4> QED
        BY <2>1, <2>3, <4>1 DEF InLine, N
    <3>3. Held(r)' /\ Between(r)' = L + 1
      BY <1>3, <1>4, <2>1, <3>1 DEF Between, Held
    <3> HIDE DEF L, g
    <3>4. next'[r] = (g + (L + 1)) % N
      <4>1. next'[r] = (next[r] + 1) % N
        BY <1>5, <2>1 DEF Successor, N
      <4>2. (((g + L) % N) + 1) % N = ((g + L) + 1) % N
        <5>1. g + L \in Int /\ 1 \in Int
          BY <3>1
        <5>2. N \in Nat /\ N > 1
          BY <1>2
        <5> QED
          BY <5>1, <5>2, AddToRemainder, Zenon
      <4>3. (g + L) + 1 = g + (L + 1)
        BY <3>1
      <4> QED
        BY <3>2, <4>1, <4>2, <4>3
    <3>5. worker'[r].item.number = (g + L) % N
      BY <1>3, <1>4, <3>2
    <3>6. \A i \in 1..Len(queue'[r]) : queue'[r][i].number = (got'[r] + i - 1) % Numbers
      BY <1>1, <2>1, <2>3 DEF InLine
    <3>7. /\ (Held(r) => worker[r].item.number = (got[r] + Len(queue[r])) % Numbers)'
          /\ (next[r] = (got[r] + Between(r)) % Numbers)'
      BY <3>1, <3>3, <3>4, <3>5 DEF N, L, g
    <3> QED
      BY <2>3, <3>6, <3>7 DEF InLine
  <2> QED
    BY <2>2, <2>3
<1> QED
  BY <1>6, <1>7 DEF IInv

(* The worker of r moves on; its queue may take the item in hand.          *)
LEMMA WorkerMoves ==
  ASSUME Types, NEW r \in Route, NEW pc \in {"recv", "offer", "put", "done"}, NEW item \in Item,
         Hold(r, pc, item), queue' \in [Route -> Seq(Item)],
         \A o \in Route \ {r} : queue'[o] = queue[o], UNCHANGED <<stop, next, got>>,
         ~stop /\ (\A o \in Route : InLine(o)) => InLine(r)',
         ~stop => \A o \in Route : InLine(o)
  PROVE  IInv'
<1>1. /\ worker' \in [Route -> [pc : {"recv", "offer", "put", "done"}, item : Item]]
      /\ worker'[r].pc = pc /\ worker'[r].item = item
      /\ \A o \in Route \ {r} : worker'[o] = worker[o]
  BY HoldTypes
<1>2. Types'
  BY <1>1 DEF Types
<1>3. ASSUME ~stop', NEW o \in Route
      PROVE  InLine(o)'
  <2>1. CASE o # r
    BY <1>1, <1>3, <2>1, OthersInLine
  <2>2. CASE o = r
    BY <1>3, <2>2
  <2> QED
    BY <2>1, <2>2
<1> QED
  BY <1>2, <1>3 DEF IInv

LEMMA SourceEndsHolds ==
  ASSUME IInv, NEW r \in Route, SourceEnds(r)
  PROVE  IInv'
<1>1. PICK end \in Ends : Hold(r, "offer", [kind |-> end, number |-> next[r]])
  BY DEF SourceEnds
<1> DEFINE item == [kind |-> end, number |-> next[r]]
<1>2. worker[r].pc = "recv" /\ UNCHANGED <<queue, stop, next, got>>
  BY DEF SourceEnds
<1>3. item \in Item /\ item.kind # "message" /\ item.number = next[r] /\ Types
  BY DEF IInv, Types, Item, Ends, Number
<1> HIDE DEF item
<1>4. Hold(r, "offer", item)
  BY <1>1 DEF item
<1>5. worker'[r].pc = "offer" /\ worker'[r].item = item
  BY <1>3, <1>4, HoldTypes
<1>6. ASSUME InLine(r)
      PROVE  InLine(r)'
  <2>1. Len(queue[r]) \in Nat
    BY <1>3 DEF Types
  <2>2. Between(r) = Len(queue[r])
    BY <1>2, <2>1 DEF Between, Held
  <2>3. Held(r)' /\ Between(r)' = Len(queue[r])
    BY <1>2, <1>3, <1>5, <2>1 DEF Between, Held
  <2> QED
    BY <1>2, <1>3, <1>5, <1>6, <2>2, <2>3 DEF InLine
<1> QED
  BY <1>2, <1>3, <1>4, <1>6, WorkerMoves DEF IInv, Types

(* Between offering and putting nothing changes hands.                     *)
LEMMA HandsKeep ==
  ASSUME Types, NEW r \in Route, worker[r].pc \in {"offer", "put"},
         NEW pc \in {"offer", "put"}, Go(r, pc), UNCHANGED <<queue, stop, next, got>>,
         ~stop => \A o \in Route : InLine(o)
  PROVE  IInv'
<1>1. Hold(r, pc, worker[r].item) /\ worker[r].item \in Item
  BY DEF Go, Types
<1>2. worker'[r].pc = pc /\ worker'[r].item = worker[r].item
  BY <1>1, HoldTypes
<1>3. ASSUME InLine(r)
      PROVE  InLine(r)'
  <2>1. Held(r)' /\ Held(r) /\ Between(r)' = Between(r)
    BY <1>2 DEF Between, Held
  <2> QED
    BY <1>2, <1>3, <2>1 DEF InLine
<1> QED
  BY <1>1, <1>3, WorkerMoves DEF Types

LEMMA OfferHolds ==
  ASSUME IInv, NEW r \in Route, Offer(r)
  PROVE  IInv'
<1>1. /\ worker[r].pc = "offer" /\ Go(r, IF stop THEN AfterItem(r) ELSE "put")
      /\ UNCHANGED <<queue, stop, next, got>>
  BY DEF Offer
<1>2. CASE stop
  <2>1. Hold(r, AfterItem(r), worker[r].item)
    BY <1>1, <1>2 DEF Go
  <2>2. worker[r].item \in Item /\ AfterItem(r) \in {"recv", "done"}
    BY DEF IInv, Types, AfterItem
  <2> QED
    BY <1>1, <1>2, <2>1, <2>2, WorkerMoves DEF IInv, Types
<1>3. CASE ~stop
  BY <1>1, <1>3, HandsKeep DEF IInv
<1> QED
  BY <1>2, <1>3

LEMMA FullHolds ==
  ASSUME IInv, NEW r \in Route, Full(r)
  PROVE  IInv'
BY HandsKeep DEF IInv, Full

LEMMA PutHolds ==
  ASSUME IInv, NEW r \in Route, Put(r)
  PROVE  IInv'
<1> DEFINE item == worker[r].item
           L == Len(queue[r])
<1>1. /\ worker[r].pc = "put" /\ queue' = [queue EXCEPT ![r] = Append(@, item)]
      /\ Hold(r, AfterItem(r), item) /\ UNCHANGED <<stop, next, got>>
  BY DEF Put, Go
<1>2. Types /\ item \in Item /\ queue[r] \in Seq(Item) /\ AfterItem(r) \in {"recv", "done"}
  BY DEF IInv, Types, AfterItem
<1>3. L \in Nat
  BY <1>2
<1>4. AfterItem(r) = IF item.kind = "message" THEN "recv" ELSE "done"
  BY DEF AfterItem
<1> HIDE DEF item
<1>5. /\ queue' \in [Route -> Seq(Item)] /\ queue'[r] = Append(queue[r], item)
      /\ \A o \in Route \ {r} : queue'[o] = queue[o]
  BY <1>1, <1>2 DEF Types
<1>6. /\ Len(queue'[r]) = L + 1 /\ queue'[r][L + 1] = item
      /\ \A i \in 1..L : queue'[r][i] = queue[r][i]
  BY <1>2, <1>5
<1>7. worker'[r].pc = AfterItem(r)
  BY <1>1, <1>2, HoldTypes
<1> HIDE DEF L
<1>8. ASSUME InLine(r)
      PROVE  InLine(r)'
  <2>1. item.number = (got[r] + L) % Numbers /\ next[r] = (got[r] + Between(r)) % Numbers
        /\ \A i \in 1..L : queue[r][i].number = (got[r] + i - 1) % Numbers
    BY <1>1, <1>8 DEF InLine, Held, L, item
  <2>2. Between(r)' = Between(r) /\ ~Held(r)'
    <3>1. Between(r) = L + (IF item.kind = "message" THEN 1 ELSE 0)
      BY <1>1, <1>3 DEF Between, Held, L, item
    <3>2. Between(r)' = L + 1 - (IF item.kind = "message" THEN 0 ELSE 1)
      BY <1>3, <1>4, <1>6, <1>7 DEF Between, Held
    <3>3. ~Held(r)'
      BY <1>4, <1>7 DEF Held
    <3> QED
      BY <1>3, <3>1, <3>2, <3>3
  <2>3. ASSUME NEW i \in 1..L + 1
        PROVE  queue'[r][i].number = (got[r] + i - 1) % Numbers
    <3>1. CASE i = L + 1
      <4>1. got[r] \in Int
        BY <1>2 DEF Types, Number
      <4>2. got[r] + i - 1 = got[r] + L
        BY <3>1, <4>1, <1>3
      <4> QED
        BY <3>1, <4>2, <1>6, <2>1
    <3>2. CASE i # L + 1
      <4>1. i \in 1..L
        BY <3>2, <1>3
      <4> QED
        BY <4>1, <1>6, <2>1
    <3> QED
      BY <3>1, <3>2
  <2> QED
    BY <1>1, <1>6, <2>1, <2>2, <2>3 DEF InLine
<1> QED
  BY <1>1, <1>2, <1>5, <1>8, WorkerMoves DEF IInv

-----------------------------------------------------------------------------
(* The consumer                                                            *)

LEMMA YieldHolds ==
  ASSUME MergedStreamAssumption, IInv, NEW r \in Route, Yield(r)
  PROVE  IInv'
<1> DEFINE h == Head(queue[r]).number
           L == Len(queue[r])
           g == got[r]
           N == Numbers
<1>1. /\ queue[r] # <<>> /\ queue' = [queue EXCEPT ![r] = Tail(@)]
      /\ got' = [got EXCEPT ![r] = Successor(h)] /\ UNCHANGED <<worker, stop, next>>
  BY DEF Yield, MayTake
<1>2. Types /\ queue[r] \in Seq(Item) /\ N \in Nat /\ N > 1 /\ Number = 0..N - 1
  BY DEF IInv, Types, MergedStreamAssumption, Number
<1>3. /\ L \in Nat /\ L > 0 /\ Tail(queue[r]) \in Seq(Item) /\ Head(queue[r]) = queue[r][1]
      /\ Head(queue[r]) \in Item
      /\ Len(Tail(queue[r])) = L - 1 /\ \A i \in 1..L - 1 : Tail(queue[r])[i] = queue[r][i + 1]
  BY <1>1, <1>2
<1>4. h \in Number /\ g \in Number
  BY <1>2, <1>3 DEF Item, Types, Number
<1>5. Successor(h) \in Number /\ Successor(h) = (h + 1) % N
  BY <1>4, SuccessorIsNumber DEF Successor
<1>6. /\ queue' \in [Route -> Seq(Item)] /\ queue'[r] = Tail(queue[r])
      /\ \A o \in Route \ {r} : queue'[o] = queue[o]
  BY <1>1, <1>2, <1>3 DEF Types
<1>7. /\ got' \in [Route -> Number] /\ got'[r] = Successor(h)
      /\ \A o \in Route \ {r} : got'[o] = got[o]
  BY <1>1, <1>2, <1>5 DEF Types
<1>8. Types'
  BY <1>1, <1>2, <1>6, <1>7 DEF Types
<1> HIDE DEF h, L, N
<1>9. ASSUME InLine(r)
      PROVE  InLine(r)'
  <2> HIDE DEF g
  <2>1. h = g
    <3>1. h = (g + 1 - 1) % N
      BY <1>3, <1>9 DEF InLine, L, h, g, N
    <3>2. g + 1 - 1 = g /\ g % N = g
      BY <1>2, <1>4, SmallRemainder
    <3> QED
      BY <3>1, <3>2
  <2>2. ASSUME NEW b \in Int
        PROVE  (got'[r] + b) % N = (g + 1 + b) % N
    <3>1. got'[r] = (g + 1) % N /\ g + 1 \in Int
      BY <2>1, <1>2, <1>4, <1>5, <1>7
    <3>2. (((g + 1) % N) + b) % N = (g + 1 + b) % N
      BY <3>1, <1>2, AddToRemainder, Zenon
    <3> QED
      BY <3>1, <3>2
  <2>3. ASSUME NEW i \in 1..Len(queue'[r])
        PROVE  queue'[r][i].number = (got'[r] + i - 1) % N
    <3>1. i \in 1..L - 1 /\ i + 1 \in 1..L
      BY <1>3, <1>6 DEF L
    <3>2. queue'[r][i].number = (g + (i + 1) - 1) % N
      BY <3>1, <1>3, <1>6, <1>9 DEF InLine, L, g, N
    <3>3. (got'[r] + (i - 1)) % N = (g + 1 + (i - 1)) % N
      <4>1. i - 1 \in Int
        BY <3>1
      <4> QED
        BY <4>1, <2>2
    <3>4. got'[r] \in Int /\ g \in Int /\ i \in Int
      BY <1>2, <1>4, <1>7, <3>1
    <3>5. g + (i + 1) - 1 = g + 1 + (i - 1) /\ got'[r] + i - 1 = got'[r] + (i - 1)
      BY <3>4
    <3> QED
      BY <3>2, <3>3, <3>5
  <2>4. Between(r)' = Between(r) - 1 /\ Between(r) \in Int
    BY <1>1, <1>3, <1>6 DEF Between, Held, L
  <2>5. next'[r] = (got'[r] + Between(r)') % N
    <3>1. next'[r] = (g + Between(r)) % N
      BY <1>1, <1>9 DEF InLine, g, N
    <3>2. (got'[r] + (Between(r) - 1)) % N = (g + 1 + (Between(r) - 1)) % N
      <4>1. Between(r) - 1 \in Int
        BY <2>4
      <4> QED
        BY <4>1, <2>2
    <3>3. g + 1 + (Between(r) - 1) = g + Between(r)
      BY <1>2, <1>4, <2>4
    <3> QED
      BY <3>1, <3>2, <3>3, <2>4
  <2>6. ASSUME Held(r)'
        PROVE  worker'[r].item.number = (got'[r] + Len(queue'[r])) % N
    <3>1. worker'[r].item.number = (g + L) % N
      BY <1>1, <1>9, <2>6 DEF InLine, Held, L, g, N
    <3>2. (got'[r] + (L - 1)) % N = (g + 1 + (L - 1)) % N
      <4>1. L - 1 \in Int
        BY <1>3
      <4> QED
        BY <4>1, <2>2
    <3>3. g + 1 + (L - 1) = g + L /\ Len(queue'[r]) = L - 1
      BY <1>2, <1>3, <1>4, <1>6
    <3> QED
      BY <3>1, <3>2, <3>3
  <2> QED
    BY <2>3, <2>5, <2>6 DEF InLine, N
<1>10. ASSUME ~stop', NEW o \in Route
       PROVE  InLine(o)'
  <2>1. InLine(o)
    BY <1>1, <1>10 DEF IInv
  <2>2. CASE o # r
    BY <2>1, <2>2, <1>1, <1>6, <1>7, OthersInLine
  <2>3. CASE o = r
    BY <2>1, <2>3, <1>9
  <2> QED
    BY <2>2, <2>3
<1> QED
  BY <1>8, <1>10 DEF IInv

(* What ends the stream leaves nothing to be in line.                      *)
LEMMA EndHolds ==
  ASSUME IInv, stop' = TRUE, queue' \in [Route -> Seq(Item)], UNCHANGED <<worker, next, got>>
  PROVE  IInv'
BY DEF IInv, Types

LEMMA RouteEndedHolds ==
  ASSUME IInv, NEW r \in Route, RouteEnded(r)
  PROVE  IInv'
<1>1. /\ queue[r] # <<>> /\ queue' = [queue EXCEPT ![r] = Tail(@)] /\ stop' = TRUE
      /\ UNCHANGED <<worker, next, got>>
  BY DEF RouteEnded, MayTake, End
<1>2. queue \in [Route -> Seq(Item)] /\ queue[r] \in Seq(Item)
  BY DEF IInv, Types
<1>3. Tail(queue[r]) \in Seq(Item)
  BY <1>1, <1>2
<1> QED
  BY <1>1, <1>2, <1>3, EndHolds

LEMMA StutterHolds ==
  ASSUME IInv, UNCHANGED <<worker, queue, next, got>>, stop' = stop \/ stop' = TRUE
  PROVE  IInv'
<1>1. Types'
  BY DEF IInv, Types
<1>2. ASSUME ~stop', NEW r \in Route
      PROVE  InLine(r)'
  BY <1>2 DEF IInv, InLine, Between, Held
<1> QED
  BY <1>1, <1>2 DEF IInv

LEMMA StepHolds ==
  ASSUME MergedStreamAssumption, IInv, [Next]_vars
  PROVE  IInv'
<1>1. CASE \E r \in Route : WorkerStep(r)
  BY <1>1, ReceiveHolds, SourceEndsHolds, OfferHolds, PutHolds, FullHolds DEF WorkerStep
<1>2. CASE \E r \in Route : Yield(r)
  BY <1>2, YieldHolds
<1>3. CASE \E r \in Route : RouteEnded(r)
  BY <1>3, RouteEndedHolds
<1>4. CASE \E r \in Route : LeaveRoute(r)
  BY <1>4, StutterHolds DEF LeaveRoute
<1>5. CASE CheckSilence
  BY <1>5, StutterHolds DEF CheckSilence, End
<1>6. CASE Resume \/ Abandon \/ Tick \/ Finished \/ UNCHANGED vars
  BY <1>6, StutterHolds DEF Resume, Abandon, End, Tick, Finished, vars
<1> QED
  BY <1>1, <1>2, <1>3, <1>4, <1>5, <1>6 DEF Next, ConsumerStep

LEMMA Invariance == Spec => []IInv
<1>1. Init => IInv
  BY MergedStreamAssumption, InitHolds
<1>2. IInv /\ [Next]_vars => IInv'
  BY MergedStreamAssumption, StepHolds
<1> QED
  BY <1>1, <1>2, PTL DEF Spec

-----------------------------------------------------------------------------
(* While a stream runs, each route's messages reach the collector in the   *)
(* order they were read, none twice and none left out, for any number of   *)
(* routes, queue size and batch and however often a put timed out          *)
(* (put_route_item, _merged_websocket_json_message_source).                *)
THEOREM StreamsLoseNothing == Spec => []NothingLost
<1>1. ASSUME IInv, ~stop, NEW r \in Route
      PROVE  /\ \A i \in DOMAIN Pending(r) : Pending(r)[i].number = (got[r] + i - 1) % Numbers
             /\ \E n \in {Len(Pending(r)), Len(Pending(r)) - 1} :
                  next[r] = (got[r] + n) % Numbers
  <2> DEFINE q == queue[r]
             L == Len(queue[r])
             hand == IF worker[r].pc \in {"offer", "put"} THEN <<worker[r].item>> ELSE <<>>
  <2>1. InLine(r) /\ q \in Seq(Item) /\ worker[r].item \in Item /\ got[r] \in Int
    BY <1>1 DEF IInv, Types, Number
  <2>2. L \in Nat /\ L = Len(q) /\ Pending(r) = q \o hand
    BY <2>1 DEF Pending
  <2> HIDE DEF q, L, hand
  <2>3. CASE Held(r)
    <3>1. hand = <<worker[r].item>>
      BY <2>3 DEF Held, hand
    <3>2. /\ DOMAIN Pending(r) = 1..L + 1 /\ Len(Pending(r)) = L + 1
          /\ (\A i \in 1..L : Pending(r)[i] = q[i]) /\ Pending(r)[L + 1] = worker[r].item
      <4> DEFINE item == worker[r].item
      <4>1. item \in Item /\ q \in Seq(Item) /\ Pending(r) = q \o <<item>>
        BY <2>1, <2>2, <3>1
      <4> HIDE DEF item
      <4>2. /\ DOMAIN (q \o <<item>>) = 1..L + 1 /\ Len(q \o <<item>>) = L + 1
            /\ (\A i \in 1..L : (q \o <<item>>)[i] = q[i]) /\ (q \o <<item>>)[L + 1] = item
        BY <4>1, <2>2
      <4> QED
        BY <4>1, <4>2 DEF item
    <3>3. ASSUME NEW i \in 1..L + 1
          PROVE  Pending(r)[i].number = (got[r] + i - 1) % Numbers
      <4>1. CASE i = L + 1
        <5>1. got[r] + i - 1 = got[r] + L
          BY <4>1, <2>1, <2>2
        <5> QED
          BY <4>1, <5>1, <2>1, <2>3, <3>2 DEF InLine, L
      <4>2. CASE i # L + 1
        <5>1. i \in 1..L
          BY <4>2, <2>2
        <5> QED
          BY <5>1, <2>1, <3>2 DEF InLine, q, L
      <4> QED
        BY <4>1, <4>2
    <3>4. Between(r) \in {L, L + 1} /\ L = L + 1 - 1
      <4>1. worker[r].pc # "done"
        BY <2>3 DEF Held
      <4>2. Between(r) = L + (IF Held(r) /\ worker[r].item.kind = "message" THEN 1 ELSE 0) - 0
        BY <4>1 DEF Between, L
      <4> QED
        BY <4>2, <2>2
    <3>5. Between(r) \in {Len(Pending(r)), Len(Pending(r)) - 1}
      BY <3>2, <3>4, <2>2
    <3> QED
      BY <2>1, <3>2, <3>3, <3>5 DEF InLine
  <2>4. CASE ~Held(r)
    <3>1. hand = <<>>
      BY <2>4 DEF Held, hand
    <3>2. /\ DOMAIN Pending(r) = 1..L /\ Len(Pending(r)) = L
          /\ \A i \in 1..L : Pending(r)[i] = q[i]
      BY <2>1, <2>2, <3>1
    <3>3. Between(r) \in {L, L - 1}
      <4>1. Between(r) = L + 0 - (IF worker[r].pc = "done" THEN 1 ELSE 0)
        BY <2>4 DEF Between, L
      <4> QED
        BY <4>1, <2>2
    <3> QED
      BY <2>1, <3>2, <3>3 DEF InLine, q, L
  <2> QED
    BY <2>3, <2>4
<1>2. IInv => NothingLost
  BY <1>1 DEF NothingLost
<1> QED
  BY <1>2, Invariance, PTL

=============================================================================
