------------------------- MODULE SeenMessages_proofs -------------------------
(***************************************************************************)
(* Proofs about SeenMessages, for every capacity and every set of hashes.  *)
(* The inductive invariant says what the queue remembers: the last         *)
(* min(n, Capacity) of the n hashes forwarded.                             *)
(***************************************************************************)
EXTENDS SeenMessages, TLAPS

\* The queue is the end of the sequence of forwarded hashes, as long as the
\* capacity allows.
OrderIsWindow ==
    /\ Len(order) = IF Len(forwarded) <= Capacity THEN Len(forwarded) ELSE Capacity
    /\ \A i \in 1..Len(order) : order[i] = forwarded[(Len(forwarded) - Len(order)) + i]

IInv == TypeOK /\ HashesAreOrder /\ OrderIsWindow /\ ForwardWindow /\ NothingLost

\* What appending one element does to a sequence.
LEMMA AppendFacts ==
    ASSUME NEW S, NEW s \in Seq(S), NEW e \in S
    PROVE  /\ Append(s, e) \in Seq(S)
           /\ Len(Append(s, e)) = Len(s) + 1
           /\ \A i \in 1..Len(s) : Append(s, e)[i] = s[i]
           /\ Append(s, e)[Len(s) + 1] = e
           /\ Elements(Append(s, e)) = Elements(s) \cup {e}
<1> DEFINE t == Append(s, e)
<1>1. /\ t \in Seq(S) /\ Len(t) = Len(s) + 1
      /\ \A i \in 1..Len(s) : t[i] = s[i]
      /\ t[Len(s) + 1] = e
  OBVIOUS
<1>2. DOMAIN t = 1..(Len(s) + 1) /\ DOMAIN s = 1..Len(s) /\ Len(s) \in Nat
  BY <1>1
<1>3. Elements(t) = Elements(s) \cup {e}
  BY <1>1, <1>2 DEF Elements
<1> QED
  BY <1>1, <1>3

\* What dropping the head of a sequence does.
LEMMA TailFacts ==
    ASSUME NEW S, NEW s \in Seq(S), Len(s) > 0
    PROVE  /\ Tail(s) \in Seq(S)
           /\ Len(Tail(s)) = Len(s) - 1
           /\ \A i \in 1..(Len(s) - 1) : Tail(s)[i] = s[i + 1]
           /\ Head(s) = s[1]
  OBVIOUS

\* The queue after the eviction: what is left, and that the set of its elements
\* is the old one without the oldest.
LEMMA EvictFacts ==
    ASSUME NEW S, NEW s \in Seq(S), Len(s) > 0,
           \A i, j \in DOMAIN s : s[i] = s[j] => i = j
    PROVE  /\ Elements(Tail(s)) = Elements(s) \ {Head(s)}
           /\ \A i, j \in DOMAIN Tail(s) : Tail(s)[i] = Tail(s)[j] => i = j
<1> DEFINE t == Tail(s)
<1>1. /\ t \in Seq(S) /\ Len(t) = Len(s) - 1 /\ Len(s) \in Nat
      /\ \A i \in 1..(Len(s) - 1) : t[i] = s[i + 1]
      /\ Head(s) = s[1]
  BY TailFacts
<1>2. DOMAIN t = 1..(Len(s) - 1) /\ DOMAIN s = 1..Len(s)
  BY <1>1
<1>3. ASSUME NEW i \in DOMAIN t PROVE t[i] \in Elements(s) \ {Head(s)}
  BY <1>1, <1>2, <1>3 DEF Elements
<1>4. ASSUME NEW i \in DOMAIN s, s[i] # Head(s) PROVE s[i] \in Elements(t)
  <2>1. i # 1 /\ i - 1 \in DOMAIN t /\ t[i - 1] = s[i]
    BY <1>1, <1>2, <1>4
  <2> QED
    BY <2>1 DEF Elements
<1>5. Elements(t) = Elements(s) \ {Head(s)}
  BY <1>3, <1>4 DEF Elements
<1>6. \A i, j \in DOMAIN t : t[i] = t[j] => i = j
  BY <1>1, <1>2
<1> QED
  BY <1>5, <1>6

LEMMA InitEstablishes == Init => IInv
  BY CapacityAssumption DEF Init, IInv, TypeOK, HashesAreOrder, OrderIsWindow, ForwardWindow,
     NothingLost, Elements

\* A new message: the memory becomes the window of the longer sequence.
LEMMA RememberPreserves ==
    ASSUME IInv, NEW h \in ChatHashes, h \notin hashes, remember(h),
           forwarded' = Append(forwarded, h), arrived' = arrived \cup {h}
    PROVE  IInv'
<1> DEFINE n == Len(forwarded)
           k == Len(order)
           rest == IF full THEN Tail(order) ELSE order
<1>1. /\ order \in Seq(ChatHashes) /\ forwarded \in Seq(ChatHashes)
      /\ hashes = Elements(order) /\ k <= Capacity
      /\ \A i, j \in DOMAIN order : order[i] = order[j] => i = j
      /\ n \in Nat /\ k \in Nat /\ k <= n
      /\ k = IF n <= Capacity THEN n ELSE Capacity
      /\ \A i \in 1..k : order[i] = forwarded[(n - k) + i]
      /\ Capacity \in Nat \ {0}
  <2>1. order \in Seq(ChatHashes) /\ forwarded \in Seq(ChatHashes)
    BY DEF IInv, TypeOK
  <2>2. n \in Nat /\ k \in Nat
    BY <2>1
  <2>3. /\ hashes = Elements(order) /\ k <= Capacity
        /\ \A i, j \in DOMAIN order : order[i] = order[j] => i = j
    BY DEF IInv, HashesAreOrder
  <2>4. /\ k = IF n <= Capacity THEN n ELSE Capacity
        /\ \A i \in 1..k : order[i] = forwarded[(n - k) + i]
    BY DEF IInv, OrderIsWindow
  <2>5. k <= n
    BY <2>2, <2>4, CapacityAssumption
  <2> QED
    BY <2>1, <2>2, <2>3, <2>4, <2>5, CapacityAssumption
<1>2. /\ forwarded' \in Seq(ChatHashes) /\ Len(forwarded') = n + 1
      /\ \A i \in 1..n : forwarded'[i] = forwarded[i]
      /\ forwarded'[n + 1] = h
      /\ Elements(forwarded') = Elements(forwarded) \cup {h}
  BY <1>1, AppendFacts
<1>3. /\ rest \in Seq(ChatHashes)
      /\ kept = Elements(rest)
      /\ Len(rest) = IF k = Capacity THEN k - 1 ELSE k
      /\ \A i \in 1..Len(rest) : rest[i] = forwarded[(n - Len(rest)) + i]
      /\ \A i, j \in DOMAIN rest : rest[i] = rest[j] => i = j
  <2>1. CASE full
    <3>1. k = Capacity /\ k > 0
      BY <1>1, <2>1 DEF full
    <3>2. /\ Tail(order) \in Seq(ChatHashes) /\ Len(Tail(order)) = k - 1
          /\ \A i \in 1..(k - 1) : Tail(order)[i] = order[i + 1]
      BY <1>1, <3>1, TailFacts
    <3>3. /\ Elements(Tail(order)) = hashes \ {Head(order)}
          /\ \A i, j \in DOMAIN Tail(order) : Tail(order)[i] = Tail(order)[j] => i = j
      BY <1>1, <3>1, EvictFacts
    <3>4. ASSUME NEW i \in 1..(k - 1)
          PROVE  Tail(order)[i] = forwarded[(n - (k - 1)) + i]
      <4>1. i + 1 \in 1..k /\ (n - k) + (i + 1) = (n - (k - 1)) + i
        BY <1>1, <3>1
      <4>2. order[i + 1] = forwarded[(n - k) + (i + 1)]
        BY <1>1, <4>1
      <4> QED
        BY <3>2, <4>1, <4>2
    <3> QED
      BY <2>1, <3>1, <3>2, <3>3, <3>4 DEF kept
  <2>2. CASE ~full
    BY <1>1, <2>2 DEF full, kept
  <2> QED
    BY <2>1, <2>2
<1>4. order' = Append(rest, h) /\ hashes' = kept \cup {h}
  BY DEF remember
<1>5. Elements(rest) \subseteq hashes
  BY <1>1, <1>3 DEF kept
<1>n. n \in Nat /\ k \in Nat /\ k <= n /\ DOMAIN order = 1..k
  BY <1>1
<1>r. Len(rest) \in Nat /\ Len(rest) <= n
  BY <1>1, <1>3
<1> HIDE DEF n, k, rest
<1>6. /\ order' \in Seq(ChatHashes) /\ Len(order') = Len(rest) + 1
      /\ \A i \in 1..Len(rest) : order'[i] = rest[i]
      /\ order'[Len(rest) + 1] = h
      /\ Elements(order') = Elements(rest) \cup {h}
  BY <1>3, <1>4, AppendFacts
<1>7. TypeOK'
  BY <1>2, <1>3, <1>4, <1>5, <1>6 DEF IInv, TypeOK
<1>8. HashesAreOrder'
  <2>1. Len(rest) \in Nat /\ DOMAIN rest = 1..Len(rest) /\ DOMAIN order' = 1..(Len(rest) + 1)
    BY <1>3, <1>6
  <2>2. \A i \in 1..Len(rest) : rest[i] # h
    BY <1>1, <1>5, <2>1 DEF Elements
  <2>3. ASSUME NEW i \in DOMAIN order', NEW j \in DOMAIN order', order'[i] = order'[j]
        PROVE  i = j
    <3>1. \A l \in DOMAIN order' : l \in 1..Len(rest) \/ l = Len(rest) + 1
      BY <2>1
    <3>2. CASE i \in 1..Len(rest) /\ j \in 1..Len(rest)
      BY <1>3, <1>6, <2>1, <2>3, <3>2
    <3>3. CASE i = Len(rest) + 1 /\ j \in 1..Len(rest)
      BY <1>6, <2>2, <2>3, <3>3
    <3>4. CASE i \in 1..Len(rest) /\ j = Len(rest) + 1
      BY <1>6, <2>2, <2>3, <3>4
    <3> QED
      BY <3>1, <3>2, <3>3, <3>4
  <2>4. hashes' = Elements(order')
    BY <1>3, <1>4, <1>6
  <2>5. Len(order') <= Capacity
    BY <1>1, <1>3, <1>6
  <2>6. hashes' = Elements(order)'
    BY <2>4 DEF Elements
  <2> QED
    BY <2>3, <2>5, <2>6 DEF HashesAreOrder
<1>9. OrderIsWindow'
  <2>1. Len(order') = IF n + 1 <= Capacity THEN n + 1 ELSE Capacity
    BY <1>1, <1>3, <1>6
  <2>2. ASSUME NEW i \in 1..Len(order')
        PROVE  order'[i] = forwarded'[(Len(forwarded') - Len(order')) + i]
    <3>1. i \in 1..Len(rest) \/ i = Len(rest) + 1
      BY <1>6, <1>r
    <3>2. CASE i = Len(rest) + 1
      <4>1. ((n + 1) - (Len(rest) + 1)) + (Len(rest) + 1) = n + 1
        BY <1>n, <1>r
      <4> QED
        BY <1>2, <1>6, <3>2, <4>1
    <3>3. CASE i \in 1..Len(rest)
      <4>1. /\ ((n + 1) - (Len(rest) + 1)) + i = (n - Len(rest)) + i
            /\ (n - Len(rest)) + i \in 1..n
        BY <1>n, <1>r, <3>3
      <4>2. order'[i] = forwarded[(n - Len(rest)) + i]
        BY <1>3, <1>6, <3>3
      <4> QED
        BY <1>2, <1>6, <4>1, <4>2
    <3> QED
      BY <3>1, <3>2, <3>3
  <2> QED
    BY <1>2, <2>1, <2>2 DEF OrderIsWindow
<1>10. ForwardWindow'
  <2>1. ASSUME NEW i \in 1..n, forwarded[i] = h PROVE (n + 1) - i > Capacity
    <3>1. i <= n - k
      <4>1. SUFFICES ASSUME i > n - k PROVE FALSE
        BY <1>1
      <4>2. i - (n - k) \in 1..k /\ (n - k) + (i - (n - k)) = i
        BY <1>1, <4>1
      <4>3. order[i - (n - k)] = h
        BY <1>1, <2>1, <4>2
      <4>4. h \in Elements(order)
        BY <1>n, <4>2, <4>3 DEF Elements
      <4> QED
        BY <1>1, <4>4
    <3> QED
      BY <1>1, <3>1
  <2>2. DOMAIN forwarded' = 1..(n + 1) /\ DOMAIN forwarded = 1..n
    BY <1>1, <1>2
  <2>3. ASSUME NEW i \in 1..(n + 1), NEW j \in 1..(n + 1), i < j, forwarded'[i] = forwarded'[j]
        PROVE  j - i > Capacity
    <3>0. i \in 1..n
      BY <1>n, <2>3
    <3>1. i \in 1..n /\ forwarded'[i] = forwarded[i]
      BY <1>2, <3>0
    <3>2. CASE j = n + 1
      BY <1>2, <2>1, <2>3, <3>1, <3>2
    <3>3. CASE j \in 1..n
      <4>1. forwarded[i] = forwarded[j]
        BY <1>2, <2>3, <3>1, <3>3
      <4>2. \A a, b \in DOMAIN forwarded : a < b /\ forwarded[a] = forwarded[b] => b - a > Capacity
        BY DEF IInv, ForwardWindow
      <4> QED
        BY <2>2, <2>3, <3>1, <3>3, <4>1, <4>2
    <3> QED
      BY <1>1, <3>2, <3>3
  <2> QED
    BY <2>2, <2>3 DEF ForwardWindow
<1>11. NothingLost'
  <2>1. arrived = Elements(forwarded)
    BY DEF IInv, NothingLost
  <2>2. arrived' = Elements(forwarded')
    BY <1>2, <2>1
  <2> QED
    BY <2>2 DEF NothingLost, Elements
<1> QED
  BY <1>7, <1>8, <1>9, <1>10, <1>11 DEF IInv

\* A repeat leaves everything as it is: its hash has been forwarded.
LEMMA RepeatPreserves ==
    ASSUME IInv, NEW h \in ChatHashes, h \in hashes,
           UNCHANGED <<hashes, order, forwarded>>, arrived' = arrived \cup {h}
    PROVE  IInv'
<1>a. order \in Seq(ChatHashes) /\ forwarded \in Seq(ChatHashes)
  BY DEF IInv, TypeOK
<1>b. /\ Len(order) \in Nat /\ Len(forwarded) \in Nat
      /\ DOMAIN order = 1..Len(order) /\ DOMAIN forwarded = 1..Len(forwarded)
  BY <1>a
<1>1. PICK i \in 1..Len(order) : order[i] = h
  BY <1>b DEF IInv, HashesAreOrder, Elements
<1>c. /\ Len(order) = IF Len(forwarded) <= Capacity THEN Len(forwarded) ELSE Capacity
      /\ order[i] = forwarded[(Len(forwarded) - Len(order)) + i]
  BY <1>1 DEF IInv, OrderIsWindow
<1>2. /\ Len(order) <= Len(forwarded)
      /\ order[i] = forwarded[(Len(forwarded) - Len(order)) + i]
  BY <1>b, <1>c, CapacityAssumption
<1>3. (Len(forwarded) - Len(order)) + i \in DOMAIN forwarded
  BY <1>b, <1>1, <1>2
<1>4. h \in Elements(forwarded)
  BY <1>1, <1>2, <1>3 DEF Elements
<1>5. arrived' = arrived
  BY <1>4 DEF IInv, NothingLost
<1> QED
  BY <1>5 DEF IInv, TypeOK, HashesAreOrder, OrderIsWindow, ForwardWindow, NothingLost, Elements

LEMMA NextPreserves == IInv /\ [Next]_vars => IInv'
<1> SUFFICES ASSUME IInv, [Next]_vars PROVE IInv'
  OBVIOUS
<1>1. CASE Next
  <2>1. PICK h \in Hashes : forward_message(h)
    BY <1>1 DEF Next
  <2>2. h \in ChatHashes
    BY <2>1 DEF forward_message, is_chat_topic
  <2>3. CASE h \notin hashes
    BY <2>1, <2>2, <2>3, RememberPreserves DEF forward_message, first_sighting
  <2>4. CASE h \in hashes
    BY <2>1, <2>2, <2>4, RepeatPreserves DEF forward_message, first_sighting
  <2> QED
    BY <2>3, <2>4
<1>2. CASE UNCHANGED vars
  BY <1>2 DEF vars, IInv, TypeOK, HashesAreOrder, OrderIsWindow, ForwardWindow, NothingLost,
     Elements
<1> QED
  BY <1>1, <1>2

\* The memory is exactly the window of the last forwarded hashes.
THEOREM InductiveInvariant == Spec => []IInv
  BY InitEstablishes, NextPreserves, PTL DEF Spec

\* The memory and what it is compared with hold hashes of chat messages only.
THEOREM TypeCorrect == Spec => []TypeOK
<1>1. IInv => TypeOK
  BY DEF IInv
<1> QED
  BY InductiveInvariant, <1>1, PTL

\* SeenMessages' set and queue never drift apart, whatever arrives.
THEOREM SetAndQueueAgree == Spec => []HashesAreOrder
<1>1. IInv => HashesAreOrder
  BY DEF IInv
<1> QED
  BY InductiveInvariant, <1>1, PTL

\* Between two forwards of one message at least SEEN_CAPACITY others are forwarded.
THEOREM NoRepeatInWindow == Spec => []ForwardWindow
<1>1. IInv => ForwardWindow
  BY DEF IInv
<1> QED
  BY InductiveInvariant, <1>1, PTL

\* Deduplication never swallows a message: each one delivered was forwarded.
THEOREM NoMessageLost == Spec => []NothingLost
<1>1. IInv => NothingLost
  BY DEF IInv
<1> QED
  BY InductiveInvariant, <1>1, PTL
=============================================================================
