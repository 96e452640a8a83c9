----------------------------- MODULE RingProofs ----------------------------
(***************************************************************************)
(* A queue that is kept in a ring of "size" elements: n values from the    *)
(* index "head" on.  array.c and the queue of thread_test.c both are.      *)
(***************************************************************************)
EXTENDS Integers, Sequences, TLAPS

Ring(arr, head, n, size) == [i \in 1 .. n |-> arr[(head + i - 1) % size]]

LEMMA ModRange ==
    ASSUME NEW size \in Nat \ {0}, NEW a \in Nat
    PROVE  a % size \in 0 .. size - 1
  OBVIOUS

LEMMA ModDefinition ==
    ASSUME NEW size \in Nat \ {0}, NEW a \in Nat
    PROVE  /\ a \div size \in Nat
           /\ a = size * (a \div size) + (a % size)
  BY SMT

LEMMA TimesSuccessor ==
    ASSUME NEW p \in Nat, NEW a \in Nat, NEW b \in Nat, a < b
    PROVE  p * a + p <= p * b
  <1>1. p * (a + 1) <= p * b
    BY SMT
  <1>2. p * (a + 1) = p * a + p
    BY SMT
  <1> QED BY <1>1, <1>2

\* A number has one quotient and one rest.
LEMMA RestUnique ==
    ASSUME NEW size \in Nat \ {0}, NEW x \in Nat, NEW y \in Nat,
           NEW r \in 0 .. size - 1, NEW q \in 0 .. size - 1,
           size * x + r = size * y + q
    PROVE  x = y /\ r = q
  <1> DEFINE sx == size * x
             sy == size * y
  <1>1. /\ sx \in Nat /\ sy \in Nat /\ sx + r = sy + q
        /\ x < y => sx + size <= sy
        /\ y < x => sy + size <= sx
        /\ x = y => sx = sy
    BY TimesSuccessor, SMT
  <1> HIDE DEF sx, sy
  <1> QED BY <1>1

\* No two of "size" consecutive numbers share an index.
LEMMA ModDiffers ==
    ASSUME NEW size \in Nat \ {0}, NEW a \in Nat, NEW b \in Nat, a < b, b < a + size
    PROVE  a % size # b % size
  <1> SUFFICES ASSUME a % size = b % size PROVE FALSE
    OBVIOUS
  <1> DEFINE x  == a \div size
             y  == b \div size
             sx == size * x
             sy == size * y
  <1>1. /\ x \in Nat /\ y \in Nat /\ sx \in Nat /\ sy \in Nat
        /\ a = sx + (a % size) /\ b = sy + (b % size)
    BY ModDefinition, SMT
  <1>2. /\ x < y => sx + size <= sy
        /\ y < x => sy + size <= sx
        /\ x = y => sx = sy
    BY <1>1, TimesSuccessor
  <1>3. a % size \in 0 .. size - 1 /\ b % size \in 0 .. size - 1
    BY ModRange
  <1> HIDE DEF x, y, sx, sy
  <1> QED BY <1>1, <1>2, <1>3

LEMMA ModSmall ==
    ASSUME NEW size \in Nat \ {0}, NEW a \in 0 .. size - 1
    PROVE  a % size = a
  OBVIOUS

LEMMA ModShift ==
    ASSUME NEW size \in Nat \ {0}, NEW a \in Nat
    PROVE  (size + a) % size = a % size
  <1> DEFINE x == a \div size
             y == (size + a) \div size
             r == a % size
             q == (size + a) % size
  <1>1. /\ x \in Nat /\ y \in Nat
        /\ a = size * x + r /\ size + a = size * y + q
        /\ r \in 0 .. size - 1 /\ q \in 0 .. size - 1
    <2>1. size + a \in Nat
      OBVIOUS
    <2>2. x \in Nat /\ a = size * x + r /\ r \in 0 .. size - 1
      BY ModDefinition, ModRange
    <2>3. y \in Nat /\ size + a = size * y + q /\ q \in 0 .. size - 1
      BY <2>1, ModDefinition, ModRange
    <2> QED BY <2>2, <2>3
  <1> HIDE DEF x, y, r, q
  <1>2. size * (x + 1) = size * x + size /\ size * x \in Nat
    BY <1>1, SMT
  <1>3. size * (x + 1) + r = size * y + q
    BY <1>1, <1>2
  <1>4. r = q
    BY <1>1, <1>3, RestUnique
  <1> QED BY <1>4 DEF r, q

LEMMA ModTwice ==
    ASSUME NEW size \in Nat \ {0}, NEW a \in 0 .. size - 1, NEW b \in Nat
    PROVE  (((a + 1) % size) + b) % size = (a + 1 + b) % size
  <1>1. CASE a + 1 < size
    BY <1>1, ModSmall
  <1>2. CASE a + 1 = size
    <2>1. (a + 1) % size = 0
      BY <1>2, ModShift, ModSmall
    <2>2. (size + b) % size = b % size
      BY ModShift
    <2> QED BY <1>2, <2>1, <2>2
  <1> QED BY <1>1, <1>2

LEMMA ModSuccessor ==
    ASSUME NEW size \in Nat \ {0}, NEW a \in Nat
    PROVE  ((a % size) + 1) % size = (a + 1) % size
  <1> DEFINE x == a \div size
             y == (a + 1) \div size
             r == a % size
             q == (a + 1) % size
  <1>1. /\ x \in Nat /\ y \in Nat
        /\ a = size * x + r /\ a + 1 = size * y + q
        /\ r \in 0 .. size - 1 /\ q \in 0 .. size - 1
    <2>1. a + 1 \in Nat
      OBVIOUS
    <2>2. x \in Nat /\ a = size * x + r /\ r \in 0 .. size - 1
      BY ModDefinition, ModRange
    <2>3. y \in Nat /\ a + 1 = size * y + q /\ q \in 0 .. size - 1
      BY <2>1, ModDefinition, ModRange
    <2> QED BY <2>2, <2>3
  <1> HIDE DEF x, y, r, q
  <1>2. size * (x + 1) = size * x + size /\ size * x \in Nat /\ x + 1 \in Nat
    BY <1>1, SMT
  <1>3. CASE r + 1 < size
    <2>1. size * x + (r + 1) = size * y + q
      BY <1>1, <1>2
    <2>2. r + 1 \in 0 .. size - 1
      BY <1>1, <1>3
    <2>3. r + 1 = q
      BY <1>1, <2>1, <2>2, RestUnique
    <2> QED BY <2>2, <2>3, ModSmall DEF r, q
  <1>4. CASE r + 1 = size
    <2>1. size * (x + 1) + 0 = size * y + q
      BY <1>1, <1>2, <1>4
    <2>2. 0 = q
      BY <1>1, <1>2, <2>1, RestUnique
    <2>3. size % size = 0
      <3>1. (size + 0) % size = 0 % size
        BY ModShift
      <3>2. 0 % size = 0
        BY ModSmall
      <3> QED BY <3>1, <3>2
    <2> QED BY <1>4, <2>2, <2>3 DEF r, q
  <1> QED BY <1>1, <1>3, <1>4

\* A ring is as long as it says.
LEMMA RingLength ==
    ASSUME NEW size, NEW arr, NEW head, NEW n \in Nat
    PROVE  Len(Ring(arr, head, n, size)) = n
  BY DEF Ring

\* Writing behind the last value appends it.
LEMMA RingAppend ==
    \A size \in Nat \ {0} : \A arr, v : \A head, n \in 0 .. size - 1 :
       DOMAIN arr = 0 .. size - 1 =>
          Ring([arr EXCEPT ![(head + n) % size] = v], head, n + 1, size)
            = Append(Ring(arr, head, n, size), v)
  <1> SUFFICES ASSUME NEW size \in Nat \ {0}, NEW arr, NEW v,
                      NEW head \in 0 .. size - 1, NEW n \in 0 .. size - 1,
                      DOMAIN arr = 0 .. size - 1
               PROVE  Ring([arr EXCEPT ![(head + n) % size] = v], head, n + 1, size)
                        = Append(Ring(arr, head, n, size), v)
    OBVIOUS
  <1> DEFINE arr2 == [arr EXCEPT ![(head + n) % size] = v]
             old  == Ring(arr, head, n, size)
  <1>1. (head + n) % size \in 0 .. size - 1
    BY ModRange
  <1>2. \A i \in 1 .. n : arr2[(head + i - 1) % size] = arr[(head + i - 1) % size]
    <2> TAKE i \in 1 .. n
    <2>0. head + i - 1 \in Nat
      OBVIOUS
    <2>1. (head + i - 1) % size \in 0 .. size - 1
      BY <2>0, ModRange
    <2>2. (head + i - 1) % size # (head + n) % size
      <3>1. /\ head + i - 1 \in Nat /\ head + n \in Nat
            /\ head + i - 1 < head + n /\ head + n < head + i - 1 + size
        OBVIOUS
      <3> QED BY <3>1, ModDiffers
    <2> QED BY <2>1, <2>2
  <1>3. arr2[(head + (n + 1) - 1) % size] = v
    BY <1>1
  <1> HIDE DEF arr2
  <1>4. old = [i \in 1 .. n |-> arr[(head + i - 1) % size]] /\ Len(old) = n
    BY DEF Ring
  <1>5. Append(old, v) = [i \in 1 .. n + 1 |-> IF i = n + 1 THEN v ELSE old[i]]
    BY <1>4
  <1>6. \A i \in 1 .. n + 1 : arr2[(head + i - 1) % size] = IF i = n + 1 THEN v ELSE old[i]
    <2> TAKE i \in 1 .. n + 1
    <2>1. CASE i = n + 1 BY <2>1, <1>3
    <2>2. CASE i # n + 1
      <3>1. i \in 1 .. n BY <2>2
      <3> QED BY <2>2, <3>1, <1>2, <1>4
    <2> QED BY <2>1, <2>2
  <1> QED BY <1>5, <1>6 DEF Ring, arr2

\* Taking from the head leaves the rest.
LEMMA RingTail ==
    ASSUME NEW size \in Nat \ {0}, NEW arr,
           NEW head \in 0 .. size - 1, NEW n \in 0 .. size, n > 0
    PROVE  /\ Ring(arr, head, n, size) # << >>
           /\ Head(Ring(arr, head, n, size)) = arr[head]
           /\ Ring(arr, (head + 1) % size, n - 1, size) = Tail(Ring(arr, head, n, size))
  <1> DEFINE old == Ring(arr, head, n, size)
  <1>1. old = [i \in 1 .. n |-> arr[(head + i - 1) % size]]
    BY DEF Ring
  <1>2. Len(old) = n /\ old # << >>
    <2>1. Len(old) = n
      BY <1>1
    <2>2. Len(<< >>) = 0
      OBVIOUS
    <2> HIDE DEF old
    <2> QED BY <2>1, <2>2
  <1>3. Head(old) = arr[head]
    BY <1>1, ModSmall
  <1>4. Tail(old) = [i \in 1 .. n - 1 |-> old[i + 1]]
    BY <1>1, <1>2
  <1>5. \A i \in 1 .. n - 1 :
           arr[(((head + 1) % size) + i - 1) % size] = old[i + 1]
    <2> TAKE i \in 1 .. n - 1
    <2>1. (((head + 1) % size) + (i - 1)) % size = (head + 1 + (i - 1)) % size
      BY ModTwice
    <2>2. (head + 1) % size \in Nat
      BY ModRange
    <2>3. ((head + 1) % size) + i - 1 = ((head + 1) % size) + (i - 1)
      BY <2>2
    <2>4. head + 1 + (i - 1) = head + (i + 1) - 1
      OBVIOUS
    <2> QED BY <1>1, <2>1, <2>3, <2>4
  <1> QED BY <1>2, <1>3, <1>4, <1>5 DEF Ring
=============================================================================
