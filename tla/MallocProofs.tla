---------------------------- MODULE MallocProofs ----------------------------
(***************************************************************************)
(* The allocator of the C library is right for every heap, header and      *)
(* request size, while no block that fitted closely is in use and realloc  *)
(* does not grow a block, until a realloc finds no memory.                 *)
(***************************************************************************)
EXTENDS Malloc, FirstFitProofs


-----------------------------------------------------------------------------
(* One operation on a list                                                 *)

\* A list of markers that covers the heap.
Covers(m) ==
  /\ DOMAIN m \subseteq BEGIN .. END - 1
  /\ m \in [DOMAIN m -> Markers]
  /\ Chained(m)

\* List s is list m with block a cut to sz words and a free block n behind it.
IsSplit(m, a, sz, n, s) ==
  /\ n \notin DOMAIN m /\ n \in BEGIN .. END - 1
  /\ DOMAIN s = DOMAIN m \cup {n}
  /\ s \in [DOMAIN s -> Markers]
  /\ s[a].next = n /\ s[a].prev = m[a].prev
  /\ s[a].size = sz + HDR /\ ~s[a].free
  /\ s[n].next = m[a].next /\ s[n].prev = a
  /\ s[n].size = m[a].size - sz - HDR /\ s[n].free
  /\ \A b \in DOMAIN m \ {a} :
       /\ s[b].next = m[b].next /\ s[b].size = m[b].size
       /\ s[b].free = m[b].free
       /\ s[b].prev = IF b = m[a].next THEN n ELSE m[b].prev

\* What Split does to each marker.
LEMMA SplitFields ==
  ASSUME NEW m, Covers(m), NEW a \in DOMAIN m, NEW sz \in Nat,
         sz + HDR < m[a].size,
         NEW n, n = a + sz + HDR,
         NEW s, s = Split(m, a, sz)
  PROVE  IsSplit(m, a, sz, n, s)
<1> USE MallocAssumption
<1>1. \A b \in DOMAIN m : m[b] \in Markers /\ b \in Nat
  BY DEF Covers
<1>2. m[a].size \in Nat /\ a + m[a].size <= END
  <2>1. m[a].size \in Nat \ {0}
    BY <1>1 DEF Markers
  <2>2. m[a].next = 0 => a + m[a].size = END
    BY DEF Covers, Chained
  <2>3. m[a].next # 0 => a + m[a].size \in DOMAIN m
    BY DEF Covers, Chained
  <2>4. \A b \in DOMAIN m : b < END /\ b \in Nat
    BY DEF Covers
  <2> QED
    BY <2>1, <2>2, <2>3, <2>4, <1>1
<1>3. n \notin DOMAIN m /\ n \in BEGIN .. END - 1 /\ n \in Nat /\ n # a
  <2>1. \A b \in DOMAIN m : a < b => a + m[a].size <= b
    BY DEF Covers, Chained
  <2>2. a < n /\ n < a + m[a].size /\ n \in Nat /\ a \in Nat /\ BEGIN <= a
    BY <1>1, <1>2 DEF Covers
  <2> QED
    BY <2>1, <2>2, <1>2
<1>4. s = [b \in DOMAIN m \cup {n} |->
            IF b = a THEN [m[a] EXCEPT !.next = n, !.size = sz + HDR, !.free = FALSE]
            ELSE IF b = n THEN [next |-> m[a].next, prev |-> a,
                                size |-> m[a].size - sz - HDR, free |-> TRUE]
            ELSE IF b = m[a].next THEN [m[b] EXCEPT !.prev = n]
            ELSE m[b]]
  BY DEF Split
<1>5. DOMAIN s = DOMAIN m \cup {n}
  BY <1>4
<1>6. /\ s[a] = [m[a] EXCEPT !.next = n, !.size = sz + HDR, !.free = FALSE]
      /\ s[n] = [next |-> m[a].next, prev |-> a, size |-> m[a].size - sz - HDR, free |-> TRUE]
      /\ \A b \in DOMAIN m \ {a} :
           s[b] = IF b = m[a].next THEN [m[b] EXCEPT !.prev = n] ELSE m[b]
  BY <1>3, <1>4
<1>7. /\ s[a].next = n /\ s[a].prev = m[a].prev
      /\ s[a].size = sz + HDR /\ s[a].free = FALSE
      /\ s[a] \in Markers
  <2>1. m[a] \in Markers /\ sz + HDR \in Nat \ {0}
    BY <1>1
  <2> QED
    BY <2>1, <1>6, <1>3 DEF Markers
<1>8. s[n] \in Markers
  <2>1. m[a].next \in Nat /\ a \in Nat /\ m[a].size - sz - HDR \in Nat \ {0}
    BY <1>1, <1>2 DEF Markers
  <2> QED
    BY <2>1, <1>6 DEF Markers
<1>9. \A b \in DOMAIN m \ {a} :
        /\ s[b] \in Markers
        /\ s[b].next = m[b].next /\ s[b].size = m[b].size
        /\ s[b].free = m[b].free
        /\ s[b].prev = IF b = m[a].next THEN n ELSE m[b].prev
  <2> TAKE b \in DOMAIN m \ {a}
  <2>1. m[b] \in Markers
    BY <1>1
  <2>2. CASE b = m[a].next
    <3>1. s[b] = [m[b] EXCEPT !.prev = n]
      BY <2>2, <1>6
    <3>2. n \in Nat /\ m[b].next # b
      <4>1. m[b].next = 0 \/ m[b].next = b + m[b].size
        BY DEF Covers, Chained
      <4> QED
        BY <4>1, <2>1, <1>1, <1>3 DEF Markers, Covers
    <3> QED
      BY <2>1, <2>2, <3>1, <3>2 DEF Markers
  <2>3. CASE b # m[a].next
    BY <2>1, <2>3, <1>6
  <2> QED
    BY <2>2, <2>3
<1>10. s \in [DOMAIN s -> Markers]
  <2>1. \A b \in DOMAIN s : s[b] \in Markers
    BY <1>5, <1>7, <1>8, <1>9
  <2>2. s = [b \in DOMAIN s |-> s[b]]
    BY <1>4
  <2> QED
    BY <2>1, <2>2
<1> QED
  BY <1>3, <1>5, <1>6, <1>7, <1>9, <1>10 DEF IsSplit

\* Splitting a block leaves a list that covers the heap.
LEMMA SplitCovers ==
  ASSUME NEW m, Covers(m), NEW a \in DOMAIN m, NEW sz \in Nat,
         sz + HDR < m[a].size,
         NEW n, n = a + sz + HDR,
         NEW s, s = Split(m, a, sz)
  PROVE  Covers(s)
<1>0. \A b \in DOMAIN m : m[b] \in Markers /\ b \in Nat
  BY MallocAssumption DEF Covers
<1>a. IsSplit(m, a, sz, n, s)
  BY SplitFields
<1>1. /\ n \notin DOMAIN m /\ n \in BEGIN .. END - 1
      /\ DOMAIN s = DOMAIN m \cup {n}
      /\ s \in [DOMAIN s -> Markers]
      /\ s[a].next = n /\ s[a].prev = m[a].prev
      /\ s[a].size = sz + HDR /\ ~s[a].free
      /\ s[n].next = m[a].next /\ s[n].prev = a
      /\ s[n].size = m[a].size - sz - HDR /\ s[n].free
      /\ \A b \in DOMAIN m \ {a} :
           /\ s[b].next = m[b].next /\ s[b].size = m[b].size
           /\ s[b].free = m[b].free
           /\ s[b].prev = IF b = m[a].next THEN n ELSE m[b].prev
  BY <1>a DEF IsSplit
<1> USE MallocAssumption
<1>2. n = a + sz + HDR /\ a \in Nat /\ n \in Nat /\ a < n /\ BEGIN <= a
  BY <1>0 DEF Covers
<1>3. \A b \in DOMAIN m : m[b].next \in Nat /\ m[b].prev \in Nat /\ m[b].size \in Nat \ {0}
  BY <1>0 DEF Markers
<1>4. /\ BEGIN \in DOMAIN m /\ m[BEGIN].prev = 0 /\ DOMAIN m \subseteq BEGIN .. END - 1
      /\ \A b \in DOMAIN m :
           /\ IF m[b].next = 0 THEN b + m[b].size = END
              ELSE m[b].next = b + m[b].size /\ m[b].next \in DOMAIN m
           /\ b # BEGIN => m[b].prev \in DOMAIN m /\ m[m[b].prev].next = b
           /\ \A c \in DOMAIN m : b < c => b + m[b].size <= c
  BY DEF Covers, Chained
<1>5. BEGIN \in DOMAIN s /\ s[BEGIN].prev = 0
  <2>1. CASE BEGIN = a
    BY <2>1, <1>1, <1>4
  <2>2. CASE BEGIN # a
    <3>1. m[a].next # BEGIN
      BY <1>2, <1>3, <1>4
    <3> QED
      BY <2>2, <3>1, <1>1, <1>4
  <2> QED
    BY <2>1, <2>2
<1>6. ASSUME NEW b \in DOMAIN s
      PROVE  IF s[b].next = 0 THEN b + s[b].size = END
             ELSE s[b].next = b + s[b].size /\ s[b].next \in DOMAIN s
  <2>1. CASE b = a
    BY <2>1, <1>1, <1>2
  <2>2. CASE b = n
    BY <2>2, <1>1, <1>2, <1>3, <1>4
  <2>3. CASE b \in DOMAIN m \ {a}
    BY <2>3, <1>1, <1>4
  <2> QED
    BY <2>1, <2>2, <2>3, <1>1
<1>7. ASSUME NEW b \in DOMAIN s, b # BEGIN
      PROVE  s[b].prev \in DOMAIN s /\ s[s[b].prev].next = b
  <2>1. CASE b = a
    <3>1. m[a].prev \in DOMAIN m /\ m[m[a].prev].next = a
      BY <2>1, <1>7, <1>4
    <3>2. m[a].prev # a
      BY <3>1, <1>2, <1>3, <1>4
    <3> QED
      BY <2>1, <3>1, <3>2, <1>1
  <2>2. CASE b = n
    BY <2>2, <1>1
  <2>3. CASE b \in DOMAIN m \ {a} /\ b = m[a].next
    BY <2>3, <1>1
  <2>4. CASE b \in DOMAIN m \ {a} /\ b # m[a].next
    <3>1. m[b].prev \in DOMAIN m /\ m[m[b].prev].next = b
      BY <2>4, <1>7, <1>4
    <3> QED
      BY <2>4, <3>1, <1>1
  <2> QED
    BY <2>1, <2>2, <2>3, <2>4, <1>1
<1>8. ASSUME NEW b \in DOMAIN s, NEW c \in DOMAIN s, b < c
      PROVE  b + s[b].size <= c
  <2>1. CASE b = a
    <3>1. CASE c = n
      BY <2>1, <3>1, <1>1, <1>2
    <3>2. CASE c \in DOMAIN m
      BY <2>1, <3>2, <1>8, <1>0, <1>1, <1>2, <1>3, <1>4
    <3> QED
      BY <3>1, <3>2, <1>1
  <2>2. CASE b = n
    <3>1. c \in DOMAIN m /\ a < c
      BY <2>2, <1>0, <1>1, <1>2, <1>8
    <3>2. a + m[a].size <= c
      BY <3>1, <1>4
    <3> QED
      BY <2>2, <3>1, <3>2, <1>0, <1>1, <1>2, <1>3
  <2>3. CASE b \in DOMAIN m \ {a}
    <3>1. CASE c = n
      <4>1. b < a
        <5>1. a < b => a + m[a].size <= b
          BY <2>3, <1>4
        <5> QED
          BY <5>1, <2>3, <3>1, <1>0, <1>2, <1>3, <1>8
      <4>2. b + m[b].size <= a
        BY <4>1, <2>3, <1>4
      <4> QED
        BY <4>2, <2>3, <3>1, <1>0, <1>1, <1>2, <1>3
    <3>2. CASE c \in DOMAIN m
      BY <2>3, <3>2, <1>1, <1>4, <1>8
    <3> QED
      BY <3>1, <3>2, <1>1
  <2> QED
    BY <2>1, <2>2, <2>3, <1>1
<1>9. Chained(s)
  BY <1>5, <1>6, <1>7, <1>8 DEF Chained
<1>10. DOMAIN s \subseteq BEGIN .. END - 1
  BY <1>1, <1>4
<1> QED
  BY <1>1, <1>9, <1>10 DEF Covers


\* What the links of a list say of the block behind a.
LEMMA NextBlock ==
  ASSUME NEW m, Covers(m), NEW a \in DOMAIN m
  PROVE  /\ a \in Nat /\ BEGIN <= a /\ m[a] \in Markers /\ m[a].size \in Nat \ {0}
         /\ a + m[a].size <= END
         /\ m[a].next # 0 => /\ m[a].next \in DOMAIN m /\ m[a].next = a + m[a].size
                             /\ m[a].next \in Nat /\ a < m[a].next
                             /\ m[m[a].next].prev = a
         /\ m[a].prev # 0 => /\ a # BEGIN /\ m[a].prev \in DOMAIN m
                             /\ m[m[a].prev].next = a
<1> USE MallocAssumption
<1>1. \A b \in DOMAIN m : m[b] \in Markers /\ b \in Nat /\ BEGIN <= b /\ b < END
  BY DEF Covers
<1>2. \A b \in DOMAIN m : m[b].size \in Nat \ {0} /\ m[b].next \in Nat
  BY <1>1 DEF Markers
<1>3. /\ m[a].next = 0 => a + m[a].size = END
      /\ m[a].next # 0 => m[a].next = a + m[a].size /\ m[a].next \in DOMAIN m
      /\ a # BEGIN => m[a].prev \in DOMAIN m /\ m[m[a].prev].next = a
      /\ m[BEGIN].prev = 0
  BY DEF Covers, Chained
<1>4. ASSUME m[a].next # 0
      PROVE  a < m[a].next /\ m[m[a].next].prev = a
  <2> DEFINE n == m[a].next
  <2>1. n \in DOMAIN m /\ n = a + m[a].size /\ a < n /\ n \in Nat
    BY <1>1, <1>2, <1>3, <1>4
  <2>2. n # BEGIN
    BY <1>1, <2>1
  <2> DEFINE p == m[n].prev
  <2>3. p \in DOMAIN m /\ m[p].next = n
    BY <2>1, <2>2 DEF Covers, Chained
  <2>4. n # 0 /\ n = p + m[p].size /\ p < n
    <3>1. m[p].next # 0 => m[p].next = p + m[p].size
      BY <2>3 DEF Covers, Chained
    <3>2. n # 0
      BY <2>1, <1>1
    <3> QED
      BY <3>1, <3>2, <2>3, <1>1, <1>2
  <2>5. ~(p < a) /\ ~(a < p)
    <3>1. /\ p < a => p + m[p].size <= a
          /\ a < p => a + m[a].size <= p
      BY <2>3 DEF Covers, Chained
    <3> HIDE DEF n, p
    <3> QED
      BY <3>1, <2>1, <2>3, <2>4, <1>1, <1>2
  <2> HIDE DEF p
  <2>6. p = a
    BY <2>3, <2>5, <1>1
  <2> QED
    BY <2>1, <2>6 DEF p
<1> QED
  BY <1>1, <1>2, <1>3, <1>4

\* List s is list m with block a and block n behind it made one.
IsJoin(m, a, n, s) ==
  /\ n = m[a].next /\ n # 0
  /\ DOMAIN s = DOMAIN m \ {n}
  /\ s \in [DOMAIN s -> Markers]
  /\ s[a].next = m[n].next /\ s[a].prev = m[a].prev
  /\ s[a].size = m[a].size + m[n].size /\ s[a].free = m[a].free
  /\ \A b \in DOMAIN m \ {a, n} :
       /\ s[b].next = m[b].next /\ s[b].size = m[b].size
       /\ s[b].free = m[b].free
       /\ s[b].prev = IF b = m[n].next THEN a ELSE m[b].prev

\* What Join does to each marker.
LEMMA JoinFields ==
  ASSUME NEW m, Covers(m), NEW a \in DOMAIN m,
         NEW n, n = m[a].next, n # 0,
         NEW s, s = Join(m, a)
  PROVE  IsJoin(m, a, n, s)
<1> USE MallocAssumption
<1>1. /\ n \in DOMAIN m /\ a < n /\ a \in Nat /\ n \in Nat
      /\ m[a] \in Markers /\ m[n] \in Markers
      /\ m[n].next # a
  <2>1. n \in DOMAIN m /\ n \in Nat /\ a < n /\ a \in Nat /\ BEGIN <= a /\ m[a] \in Markers
    BY NextBlock
  <2>2. m[n] \in Markers /\ (m[n].next # 0 => n < m[n].next /\ m[n].next \in Nat)
    BY <2>1, NextBlock
  <2> QED
    BY <2>1, <2>2
<1>2. s = [b \in DOMAIN m \ {n} |->
             IF b = a THEN [m[a] EXCEPT !.size = m[a].size + m[n].size, !.next = m[n].next]
             ELSE IF b = m[n].next THEN [m[b] EXCEPT !.prev = a]
             ELSE m[b]]
  BY DEF Join
<1>3. DOMAIN s = DOMAIN m \ {n}
  BY <1>2
<1>4. s[a] = [m[a] EXCEPT !.size = m[a].size + m[n].size, !.next = m[n].next]
  BY <1>1, <1>2
<1>5. /\ s[a].next = m[n].next /\ s[a].prev = m[a].prev
      /\ s[a].size = m[a].size + m[n].size /\ s[a].free = m[a].free
      /\ s[a] \in Markers
  <2>1. m[a].size + m[n].size \in Nat \ {0} /\ m[n].next \in Nat
    BY <1>1 DEF Markers
  <2> QED
    BY <2>1, <1>1, <1>4 DEF Markers
<1>6. \A b \in DOMAIN m \ {a, n} :
        /\ s[b] \in Markers
        /\ s[b].next = m[b].next /\ s[b].size = m[b].size
        /\ s[b].free = m[b].free
        /\ s[b].prev = IF b = m[n].next THEN a ELSE m[b].prev
  <2> TAKE b \in DOMAIN m \ {a, n}
  <2>1. m[b] \in Markers
    BY NextBlock
  <2>2. CASE b = m[n].next
    <3>1. s[b] = [m[b] EXCEPT !.prev = a]
      BY <1>2, <2>2
    <3> QED
      BY <3>1, <2>1, <2>2, <1>1 DEF Markers
  <2>3. CASE b # m[n].next
    BY <2>1, <2>3, <1>2
  <2> QED
    BY <2>2, <2>3
<1>7. s \in [DOMAIN s -> Markers]
  <2>1. \A b \in DOMAIN s : s[b] \in Markers
    BY <1>3, <1>5, <1>6
  <2>2. s = [b \in DOMAIN s |-> s[b]]
    BY <1>2
  <2> QED
    BY <2>1, <2>2
<1> QED
  BY <1>3, <1>5, <1>6, <1>7 DEF IsJoin

\* Joining two blocks leaves a list that covers the heap.
LEMMA JoinCovers ==
  ASSUME NEW m, Covers(m), NEW a \in DOMAIN m,
         NEW n, NEW s, IsJoin(m, a, n, s)
  PROVE  Covers(s)
<1> USE MallocAssumption
<1>0. n = m[a].next /\ n # 0
  BY DEF IsJoin
<1>1. /\ n \in DOMAIN m /\ n = a + m[a].size /\ n \in Nat /\ a \in Nat /\ a < n
      /\ BEGIN <= a /\ m[a].size \in Nat \ {0} /\ m[n].prev = a
  BY <1>0, NextBlock
<1>2. \A b \in DOMAIN m : b \in Nat /\ m[b].size \in Nat \ {0} /\ m[b].next \in Nat
  <2> TAKE b \in DOMAIN m
  <2>1. b \in Nat /\ m[b] \in Markers
    BY NextBlock
  <2> QED
    BY <2>1 DEF Markers
<1>3. /\ BEGIN \in DOMAIN m /\ m[BEGIN].prev = 0 /\ DOMAIN m \subseteq BEGIN .. END - 1
      /\ \A b \in DOMAIN m :
           /\ IF m[b].next = 0 THEN b + m[b].size = END
              ELSE m[b].next = b + m[b].size /\ m[b].next \in DOMAIN m
           /\ b # BEGIN => m[b].prev \in DOMAIN m /\ m[m[b].prev].next = b
           /\ \A c \in DOMAIN m : b < c => b + m[b].size <= c
  BY DEF Covers, Chained
<1>4. m[n].next # 0 => n < m[n].next /\ m[n].next \in DOMAIN m
  BY <1>1, <1>2, <1>3
<1>5. BEGIN \in DOMAIN s /\ s[BEGIN].prev = 0
  <2>1. BEGIN # n /\ BEGIN # m[n].next
    BY <1>1, <1>2, <1>4
  <2> QED
    BY <2>1, <1>3 DEF IsJoin
<1>6. \A b \in DOMAIN m : b # a /\ m[b].next # 0 => m[b].next # n
  <2> SUFFICES ASSUME NEW b \in DOMAIN m, b # a, m[b].next = n PROVE FALSE
    BY <1>1
  <2>1. m[m[b].next].prev = b
    BY <1>1, NextBlock
  <2> QED
    BY <2>1, <1>1
<1>7. ASSUME NEW b \in DOMAIN s
      PROVE  IF s[b].next = 0 THEN b + s[b].size = END
             ELSE s[b].next = b + s[b].size /\ s[b].next \in DOMAIN s
  <2>1. CASE b = a
    <3>1. s[b].next = m[n].next /\ s[b].size = m[a].size + m[n].size
      BY <2>1 DEF IsJoin
    <3>2. DOMAIN s = DOMAIN m \ {n}
      BY DEF IsJoin
    <3> QED
      BY <2>1, <3>1, <3>2, <1>1, <1>2, <1>3, <1>4
  <2>2. CASE b # a
    <3>1. s[b].next = m[b].next /\ s[b].size = m[b].size /\ b \in DOMAIN m
          /\ DOMAIN s = DOMAIN m \ {n}
      BY <2>2 DEF IsJoin
    <3> QED
      BY <2>2, <3>1, <1>3, <1>6
  <2> QED
    BY <2>1, <2>2
<1>8. ASSUME NEW b \in DOMAIN s, b # BEGIN
      PROVE  s[b].prev \in DOMAIN s /\ s[s[b].prev].next = b
  <2>1. b \in DOMAIN m /\ b # n
    BY DEF IsJoin
  <2>2. m[b].prev \in DOMAIN m /\ m[m[b].prev].next = b
    BY <2>1, <1>3, <1>8
  <2>3. CASE b = a
    <3>1. m[b].prev # n /\ m[b].prev # a
      BY <2>1, <2>2, <2>3, <1>1, <1>2, <1>4, <1>3
    <3> QED
      BY <2>2, <2>3, <3>1 DEF IsJoin
  <2>4. CASE b # a /\ b = m[n].next
    BY <2>1, <2>4, <1>1 DEF IsJoin
  <2>5. CASE b # a /\ b # m[n].next
    <3>1. m[b].prev # n /\ m[b].prev # a
      BY <2>1, <2>2, <2>5, <1>0
    <3> QED
      BY <2>1, <2>2, <2>5, <3>1 DEF IsJoin
  <2> QED
    BY <2>3, <2>4, <2>5
<1>9. ASSUME NEW b \in DOMAIN s, NEW c \in DOMAIN s, b < c
      PROVE  b + s[b].size <= c
  <2>1. b \in DOMAIN m /\ c \in DOMAIN m /\ c # n /\ b # n
    BY DEF IsJoin
  <2>2. CASE b = a
    <3>1. s[b].size = m[a].size + m[n].size
      BY <2>2 DEF IsJoin
    <3>2. a + m[a].size <= c
      BY <2>1, <2>2, <1>3, <1>9
    <3>3. n < c
      BY <3>2, <2>1, <1>1, <1>2
    <3>4. n + m[n].size <= c
      BY <3>3, <2>1, <1>1, <1>3
    <3> QED
      BY <2>2, <3>1, <3>4, <2>1, <1>1, <1>2
  <2>3. CASE b # a
    <3>1. s[b].size = m[b].size
      BY <2>1, <2>3 DEF IsJoin
    <3> QED
      BY <3>1, <2>1, <1>3, <1>9
  <2> QED
    BY <2>2, <2>3
<1>10. Chained(s)
  BY <1>5, <1>7, <1>8, <1>9 DEF Chained
<1> QED
  BY <1>10, <1>3 DEF Covers, IsJoin

\* No two free blocks lie side by side.
Apart(m) == \A b \in DOMAIN m : m[b].free /\ m[b].next # 0 => ~m[m[b].next].free

\* The blocks of m that are not free, except a, are those of f.
SameUsed(m, a, f) ==
  /\ \A b \in DOMAIN m \ {a} :
       ~m[b].free => b \in DOMAIN f /\ f[b].size = m[b].size /\ ~f[b].free
  /\ \A b \in DOMAIN f : ~f[b].free => b \in DOMAIN m \ {a} /\ ~m[b].free

\* The list between the two joins of free: block a is free and the one behind
\* it is not.
HalfFreed(m, a, y) ==
  /\ Covers(y) /\ a \in DOMAIN y /\ y[a].free
  /\ y[a].next # 0 => ~y[y[a].next].free
  /\ \A b \in DOMAIN y :
       y[b].free /\ y[b].next # 0 /\ y[b].next # a => ~y[y[b].next].free
  /\ SameUsed(m, a, y)

\* List x is list m with block a marked free.
IsMarked(m, a, x) ==
  /\ DOMAIN x = DOMAIN m /\ x[a].free
  /\ \A b \in DOMAIN m : x[b].next = m[b].next /\ x[b].prev = m[b].prev
                         /\ x[b].size = m[b].size
  /\ \A b \in DOMAIN m \ {a} : x[b].free = m[b].free

\* Marking a block free leaves a list that covers the heap.
LEMMA MarkFree ==
  ASSUME NEW m, Covers(m), NEW a \in DOMAIN m,
         NEW x, x = [m EXCEPT ![a].free = TRUE]
  PROVE  Covers(x) /\ IsMarked(m, a, x)
<1>1. DOMAIN x = DOMAIN m
  OBVIOUS
<1>2. \A b \in DOMAIN m \ {a} : x[b] = m[b]
  OBVIOUS
<1>3. x[a] = [m[a] EXCEPT !.free = TRUE]
  OBVIOUS
<1>4. \A b \in DOMAIN m : m[b] \in Markers
  BY DEF Covers
<1>5. /\ x[a].next = m[a].next /\ x[a].prev = m[a].prev /\ x[a].size = m[a].size
      /\ x[a].free = TRUE /\ x[a] \in Markers
  BY <1>3, <1>4 DEF Markers
<1>6. x \in [DOMAIN x -> Markers]
  <2>1. \A b \in DOMAIN x : x[b] \in Markers
    BY <1>1, <1>2, <1>4, <1>5
  <2>2. x = [b \in DOMAIN x |-> x[b]]
    OBVIOUS
  <2> QED
    BY <2>1, <2>2
<1>7. \A b \in DOMAIN m : x[b].next = m[b].next /\ x[b].prev = m[b].prev
                          /\ x[b].size = m[b].size
  BY <1>2, <1>5
<1>8. Chained(x)
  <2>1. Chained(m)
    BY DEF Covers
  <2>2. BEGIN \in DOMAIN x /\ x[BEGIN].prev = 0
    BY <2>1, <1>1, <1>7 DEF Chained
  <2> QED
    BY <2>1, <2>2, <1>1, <1>7 DEF Chained
<1> QED
  BY <1>1, <1>2, <1>5, <1>6, <1>7, <1>8 DEF Covers, IsMarked

\* Joining the freed block with a free one behind it.
LEMMA JoinBehind ==
  ASSUME NEW m, Apart(m), NEW a \in DOMAIN m,
         NEW x, Covers(x), IsMarked(m, a, x),
         NEW n, x[n].free,
         NEW y, IsJoin(x, a, n, y)
  PROVE  HalfFreed(m, a, y)
<1>1. /\ Covers(x) /\ DOMAIN x = DOMAIN m /\ x[a].free
      /\ \A b \in DOMAIN m : x[b].next = m[b].next /\ x[b].prev = m[b].prev
                             /\ x[b].size = m[b].size
      /\ \A b \in DOMAIN m \ {a} : x[b].free = m[b].free
  BY DEF IsMarked
<1>2. \A b \in DOMAIN x : x[b].next # 0 => x[b].next \in DOMAIN x /\ x[b].next # b
                                          /\ x[x[b].next].prev = b
  <2> TAKE b \in DOMAIN x
  <2>1. x[b].next # 0 => x[b].next \in DOMAIN x /\ b < x[b].next /\ b \in Nat
                         /\ x[x[b].next].prev = b
    BY <1>1, NextBlock
  <2> QED
    BY <2>1
<1>3. \A b \in DOMAIN x \ {a} :
        x[b].free /\ x[b].next # 0 /\ x[b].next # a => ~x[x[b].next].free
  BY <1>1, <1>2 DEF Apart
<1>4. SameUsed(m, a, x)
  BY <1>1 DEF SameUsed
<1>5. n = x[a].next /\ n # 0 /\ n \in DOMAIN x /\ n # a
  BY <1>1, <1>2 DEF IsJoin
<1>6. Covers(y)
  BY <1>1, JoinCovers
<1>7. a \in DOMAIN y /\ y[a].free /\ DOMAIN y = DOMAIN x \ {n}
  BY <1>5, <1>1 DEF IsJoin
<1>8. y[a].next = x[n].next /\ (x[n].next # 0 => x[n].next \in DOMAIN x \ {a, n})
  <2>1. y[a].next = x[n].next
    BY DEF IsJoin
  <2>2. x[n].next # 0 => x[n].next \in DOMAIN x /\ n < x[n].next
    BY <1>1, <1>5, NextBlock
  <2>3. a < n /\ a \in Nat /\ n \in Nat
    BY <1>1, <1>5, NextBlock
  <2>4. x[n].next # 0 => x[n].next \in Nat
    BY <1>1, <1>5, NextBlock
  <2> QED
    BY <2>1, <2>2, <2>3, <2>4
<1>9. y[a].next # 0 => ~y[y[a].next].free
  <2>1. x[n].next # 0 => ~x[x[n].next].free
    BY <1>5, <1>8, <1>3
  <2> QED
    BY <2>1, <1>8 DEF IsJoin
<1>10. ASSUME NEW b \in DOMAIN y, y[b].free, y[b].next # 0, y[b].next # a
      PROVE  ~y[y[b].next].free
  <2>1. CASE b = a
    BY <1>9, <1>10, <2>1
  <2>2. CASE b # a
    <3>1. b \in DOMAIN x \ {a, n} /\ x[b].free /\ x[b].next = y[b].next
      BY <1>7, <1>10, <2>2 DEF IsJoin
    <3>2. x[b].next # n
      <4>1. a \in DOMAIN x /\ x[a].next = n /\ x[a].next # 0
        BY <1>1, <1>5
      <4>2. x[n].prev = a
        BY <4>1, <1>2
      <4>3. x[b].next # 0 => x[x[b].next].prev = b
        BY <3>1, <1>2
      <4> QED
        BY <3>1, <4>2, <4>3, <1>5
    <3>3. x[b].next \in DOMAIN x \ {a, n} /\ ~x[x[b].next].free
      BY <3>1, <3>2, <1>10, <1>2, <1>3
    <3> QED
      BY <3>1, <3>3 DEF IsJoin
  <2> QED
    BY <2>1, <2>2
<1>11. SameUsed(m, a, y)
  <2>1. \A b \in DOMAIN m \ {a} :
          ~m[b].free => b \in DOMAIN y /\ y[b].size = m[b].size /\ ~y[b].free
    <3> SUFFICES ASSUME NEW b \in DOMAIN m \ {a}, ~m[b].free
                 PROVE  b \in DOMAIN y /\ y[b].size = m[b].size /\ ~y[b].free
      OBVIOUS
    <3>1. b \in DOMAIN x \ {a, n} /\ ~x[b].free /\ x[b].size = m[b].size
      BY <1>1, <1>5
    <3> QED
      BY <3>1 DEF IsJoin
  <2>2. \A b \in DOMAIN y : ~y[b].free => b \in DOMAIN m \ {a} /\ ~m[b].free
    <3> SUFFICES ASSUME NEW b \in DOMAIN y, ~y[b].free
                 PROVE  b \in DOMAIN m \ {a} /\ ~m[b].free
      OBVIOUS
    <3>1. b \in DOMAIN x \ {a, n} /\ ~x[b].free
      BY <1>7 DEF IsJoin
    <3> QED
      BY <3>1, <1>1
  <2> QED
    BY <2>1, <2>2 DEF SameUsed
<1> QED
  BY <1>6, <1>7, <1>9, <1>10, <1>11 DEF HalfFreed

\* The freed block has no free one behind it.
LEMMA JoinNothing ==
  ASSUME NEW m, Apart(m), NEW a \in DOMAIN m,
         NEW x, Covers(x), IsMarked(m, a, x),
         ~(x[a].next # 0 /\ x[x[a].next].free)
  PROVE  HalfFreed(m, a, x)
<1>1. /\ Covers(x) /\ DOMAIN x = DOMAIN m /\ x[a].free
      /\ \A b \in DOMAIN m : x[b].next = m[b].next /\ x[b].prev = m[b].prev
                             /\ x[b].size = m[b].size
      /\ \A b \in DOMAIN m \ {a} : x[b].free = m[b].free
  BY DEF IsMarked
<1>2. \A b \in DOMAIN x : x[b].next # 0 => x[b].next \in DOMAIN x /\ x[b].next # b
                                          /\ x[x[b].next].prev = b
  <2> TAKE b \in DOMAIN x
  <2>1. x[b].next # 0 => x[b].next \in DOMAIN x /\ b < x[b].next /\ b \in Nat
                         /\ x[x[b].next].prev = b
    BY <1>1, NextBlock
  <2> QED
    BY <2>1
<1>3. \A b \in DOMAIN x \ {a} :
        x[b].free /\ x[b].next # 0 /\ x[b].next # a => ~x[x[b].next].free
  BY <1>1, <1>2 DEF Apart
<1>4. SameUsed(m, a, x)
  BY <1>1 DEF SameUsed
<1>5. \A b \in DOMAIN x :
        x[b].free /\ x[b].next # 0 /\ x[b].next # a => ~x[x[b].next].free
  BY <1>3
<1> QED
  BY <1>1, <1>4, <1>5 DEF HalfFreed

\* Freed is two joins at most, and this is the first.
LEMMA JoinForward ==
  ASSUME NEW m, Covers(m), Apart(m), NEW a \in DOMAIN m,
         NEW x, x = [m EXCEPT ![a].free = TRUE],
         NEW y, y = IF x[a].next # 0 /\ x[x[a].next].free THEN Join(x, a) ELSE x
  PROVE  HalfFreed(m, a, y)
<1>1. Covers(x) /\ IsMarked(m, a, x)
  BY MarkFree
<1>2. a \in DOMAIN x
  BY <1>1 DEF IsMarked
<1>3. CASE x[a].next # 0 /\ x[x[a].next].free
  <2>1. PICK n : n = x[a].next
    OBVIOUS
  <2>2. y = Join(x, a) /\ n # 0 /\ x[n].free
    BY <2>1, <1>3
  <2>3. IsJoin(x, a, n, y)
    BY <2>1, <2>2, <1>1, <1>2, JoinFields
  <2> QED
    BY <2>2, <2>3, <1>1, JoinBehind
<1>4. CASE ~(x[a].next # 0 /\ x[x[a].next].free)
  <2>1. y = x
    BY <1>4
  <2> QED
    BY <2>1, <1>1, <1>4, JoinNothing
<1> QED
  BY <1>3, <1>4

\* Freeing a block leaves a list that covers the heap and has no free blocks side
\* by side, and touches no other block that is in use.
LEMMA FreedList ==
  ASSUME NEW m, Covers(m), Apart(m), NEW a \in DOMAIN m,
         NEW f, f = Freed(m, a)
  PROVE  Covers(f) /\ Apart(f) /\ SameUsed(m, a, f)
<1>1. PICK x : x = [m EXCEPT ![a].free = TRUE]
  OBVIOUS
<1>2. PICK y : y = IF x[a].next # 0 /\ x[x[a].next].free THEN Join(x, a) ELSE x
  OBVIOUS
<1>3. f = IF y[a].prev # 0 /\ y[y[a].prev].free THEN Join(y, y[a].prev) ELSE y
  BY <1>1, <1>2 DEF Freed
<1>4. HalfFreed(m, a, y)
  BY <1>1, <1>2, JoinForward
<1>5. Covers(y) /\ a \in DOMAIN y /\ y[a].free /\ SameUsed(m, a, y)
  BY <1>4 DEF HalfFreed
<1>6. CASE y[a].prev # 0 /\ y[y[a].prev].free
  <2>1. PICK p \in DOMAIN y : p = y[a].prev /\ y[p].next = a /\ y[p].free
    BY <1>5, <1>6, NextBlock
  <2>2. p # a /\ a # 0
    BY <2>1, <1>5, NextBlock, MallocAssumption
  <2>3. f = Join(y, p)
    BY <1>3, <1>6, <2>1
  <2>4. IsJoin(y, p, a, f)
    BY <2>1, <2>2, <2>3, <1>5, JoinFields
  <2>5. Covers(f)
    BY <2>1, <2>2, <2>4, <1>5, JoinCovers
  <2>6. \A b \in DOMAIN y : y[b].next # 0 => y[b].next \in DOMAIN y /\ b < y[b].next
                                           /\ y[y[b].next].prev = b /\ b \in Nat /\ y[b].next \in Nat
    BY <1>5, NextBlock
  <2>7. ASSUME NEW b \in DOMAIN f, f[b].free, f[b].next # 0
        PROVE  ~f[f[b].next].free
    <3>1. CASE b = p
      <4>1. f[b].next = y[a].next
        BY <3>1, <2>4 DEF IsJoin
      <4>2. ~y[y[a].next].free
        BY <4>1, <2>7, <1>4 DEF HalfFreed
      <4>3. y[a].next \in DOMAIN y \ {a, p}
        BY <4>1, <2>7, <2>1, <2>2, <2>6, <1>5
      <4> QED
        BY <4>1, <4>2, <4>3, <2>4 DEF IsJoin
    <3>2. CASE b # p
      <4>1. b \in DOMAIN y \ {a, p} /\ y[b].free /\ y[b].next = f[b].next
        BY <3>2, <2>4, <2>7 DEF IsJoin
      <4>2. y[b].next # a
        BY <4>1, <2>1, <2>2, <2>6
      <4>3. ~y[y[b].next].free
        BY <4>1, <4>2, <2>7, <1>4 DEF HalfFreed
      <4>4. y[b].next \in DOMAIN y \ {a, p}
        BY <4>1, <4>2, <4>3, <2>1, <2>6, <2>7
      <4> QED
        BY <4>1, <4>3, <4>4, <2>4 DEF IsJoin
    <3> QED
      BY <3>1, <3>2
  <2>8. SameUsed(m, a, f)
    <3>1. \A b \in DOMAIN m \ {a} :
            ~m[b].free => b \in DOMAIN f /\ f[b].size = m[b].size /\ ~f[b].free
      <4> SUFFICES ASSUME NEW b \in DOMAIN m \ {a}, ~m[b].free
                   PROVE  b \in DOMAIN f /\ f[b].size = m[b].size /\ ~f[b].free
        OBVIOUS
      <4>1. b \in DOMAIN y /\ y[b].size = m[b].size /\ ~y[b].free
        BY <1>5 DEF SameUsed
      <4>2. b # p
        BY <4>1, <2>1
      <4> QED
        BY <4>1, <4>2, <2>4 DEF IsJoin
    <3>2. \A b \in DOMAIN f : ~f[b].free => b \in DOMAIN m \ {a} /\ ~m[b].free
      <4> SUFFICES ASSUME NEW b \in DOMAIN f, ~f[b].free
                   PROVE  b \in DOMAIN m \ {a} /\ ~m[b].free
        OBVIOUS
      <4>1. f[p].free
        BY <2>1, <2>4 DEF IsJoin
      <4>2. b \in DOMAIN y \ {a, p} /\ ~y[b].free
        BY <4>1, <2>4 DEF IsJoin
      <4> QED
        BY <4>2, <1>5 DEF SameUsed
    <3> QED
      BY <3>1, <3>2 DEF SameUsed
  <2> QED
    BY <2>5, <2>7, <2>8 DEF Apart
<1>7. CASE ~(y[a].prev # 0 /\ y[y[a].prev].free)
  <2>1. f = y
    BY <1>3, <1>7
  <2>2. \A b \in DOMAIN y : y[b].next = a => ~y[b].free
    <3> SUFFICES ASSUME NEW b \in DOMAIN y, y[b].next = a PROVE ~y[b].free
      OBVIOUS
    <3>1. a # 0 /\ y[a].prev = b /\ b # 0
      BY <1>5, NextBlock, MallocAssumption
    <3> QED
      BY <3>1, <1>7
  <2>3. Apart(f)
    BY <2>1, <2>2, <1>4 DEF Apart, HalfFreed
  <2> QED
    BY <2>1, <2>3, <1>5
<1> QED
  BY <1>6, <1>7

-----------------------------------------------------------------------------
(* The calls                                                               *)

\* What malloc finds: no memory, a block it hands out as it is, or one it splits.
LEMMA TakenList ==
  ASSUME NEW m, Covers(m), Apart(m), NEW sz \in Nat,
         NEW r, r = Taken(m, sz)
  PROVE  \/ r.at = 0 /\ r.m = m
         \/ \E a \in DOMAIN m : /\ r.at = a + HDR /\ r.m = m /\ m[a].free
                               /\ sz + HDR <= m[a].size
         \/ \E a \in DOMAIN m : /\ r.at = a + HDR /\ r.m = Split(m, a, sz) /\ m[a].free
                               /\ sz + 2 * HDR < m[a].size
<1> USE MallocAssumption
<1>1. CASE FreeBlocks(m) = {}
  BY <1>1 DEF Taken
<1>2. CASE FreeBlocks(m) # {}
  <2>1. FreeBlocks(m) \in SUBSET Nat
    BY DEF FreeBlocks, Covers
  <2>2. FirstFree(m) \in FreeBlocks(m)
    BY <1>2, <2>1, LowestIsLeast DEF FirstFree
  <2>3. PICK a \in DOMAIN m : a = FirstFree(m) /\ m[a].free
    BY <2>2 DEF FreeBlocks
  <2>4. Taken(m, sz) = IF m[a].size > sz + 2 * HDR THEN [m |-> Split(m, a, sz), at |-> a + HDR]
                       ELSE IF m[a].size >= sz + HDR THEN [m |-> m, at |-> a + HDR]
                       ELSE [m |-> m, at |-> 0]
    BY <1>2, <2>3 DEF Taken
  <2>5. m[a].size \in Nat
    BY NextBlock
  <2>6. r = IF m[a].size > sz + 2 * HDR THEN [m |-> Split(m, a, sz), at |-> a + HDR]
            ELSE IF m[a].size >= sz + HDR THEN [m |-> m, at |-> a + HDR]
            ELSE [m |-> m, at |-> 0]
    BY <2>4
  <2>7. CASE m[a].size > sz + 2 * HDR
    <3>1. r.at = a + HDR /\ r.m = Split(m, a, sz)
      BY <2>6, <2>7
    <3> QED
      BY <3>1, <2>3, <2>5, <2>7
  <2>8. CASE ~(m[a].size > sz + 2 * HDR) /\ m[a].size >= sz + HDR
    <3>1. r.at = a + HDR /\ r.m = m
      BY <2>6, <2>8
    <3> QED
      BY <3>1, <2>3, <2>5, <2>8
  <2>9. CASE ~(m[a].size > sz + 2 * HDR) /\ ~(m[a].size >= sz + HDR)
    BY <2>6, <2>9
  <2> QED
    BY <2>7, <2>8, <2>9
<1> QED
  BY <1>1, <1>2

\* A split leaves no free blocks side by side.
LEMMA SplitApart ==
  ASSUME NEW m, Covers(m), Apart(m), NEW a \in DOMAIN m, m[a].free,
         NEW sz, NEW n, NEW s, IsSplit(m, a, sz, n, s)
  PROVE  Apart(s)
<1> SUFFICES ASSUME NEW b \in DOMAIN s, s[b].free, s[b].next # 0
             PROVE  ~s[s[b].next].free
  BY DEF Apart
<1>1. b # a /\ b \in DOMAIN m \cup {n}
  BY DEF IsSplit
<1>2. \A c \in DOMAIN m : m[c].next # 0 => m[c].next \in DOMAIN m /\ c < m[c].next
                                         /\ c \in Nat
  BY NextBlock
<1>3. CASE b = n
  <2>1. s[b].next = m[a].next
    BY <1>3 DEF IsSplit
  <2>2. m[a].next \in DOMAIN m \ {a} /\ ~m[m[a].next].free
    BY <2>1, <1>2 DEF Apart
  <2> QED
    BY <2>1, <2>2 DEF IsSplit
<1>4. CASE b # n
  <2>1. b \in DOMAIN m \ {a} /\ s[b].next = m[b].next /\ m[b].free
    BY <1>1, <1>4 DEF IsSplit
  <2>2. m[b].next \in DOMAIN m \ {a} /\ ~m[m[b].next].free
    BY <2>1, <1>2 DEF Apart
  <2> QED
    BY <2>1, <2>2 DEF IsSplit
<1> QED
  BY <1>3, <1>4

\* Each pointer in use has a block of its own with room for what was asked.
Owned(m, pt) ==
  /\ pt \in [Pointers -> [at : Nat, len : Nat]]
  /\ \A p \in Pointers : pt[p] # Null =>
       /\ MarkerOf(pt[p]) \in DOMAIN m
       /\ pt[p].len \in Requests
       /\ pt[p].len + HDR <= m[MarkerOf(pt[p])].size
  /\ \A p, q \in Pointers : pt[p] # Null /\ pt[p].at = pt[q].at => p = q

\* Every block that is not free belongs to a pointer.
NoneLost(m, pt) ==
  \A a \in DOMAIN m : ~m[a].free =>
    \E p \in Pointers : pt[p] # Null /\ MarkerOf(pt[p]) = a

Sound(m, pt) == Covers(m) /\ Apart(m) /\ Owned(m, pt) /\ NoneLost(m, pt)

\* The inductive invariant: the three invariants of the runs.
MallocInv == ListCoversHeap /\ BlocksInUse /\ Coalesced

\* The invariant, said of the list and the pointers.
LEMMA InvIs == MallocInv <=> (ruined \/ Sound(marker, ptr))
<1>1. ListCoversHeap <=> (ruined \/ Covers(marker))
  BY DEF ListCoversHeap, Covers
<1>2. BlocksInUse <=> (ruined \/ Owned(marker, ptr))
  BY DEF BlocksInUse, Owned, InUse
<1>3. Coalesced <=> (ruined \/ (Apart(marker) /\ NoneLost(marker, ptr)))
  BY DEF Coalesced, Apart, NoneLost, FreeBlocks, InUse
<1> QED
  BY <1>1, <1>2, <1>3 DEF MallocInv, Sound

\* The blocks of the pointers other than p are not marked free.
OthersMarked(m, pt, p) ==
  \A q \in Pointers \ {p} : pt[q] # Null => ~m[MarkerOf(pt[q])].free

\* free(p) keeps the heap sound.
LEMMA FreeSound ==
  ASSUME NEW m, NEW pt, Sound(m, pt), NEW p \in Pointers, pt[p] # Null,
         OthersMarked(m, pt, p),
         NEW f, f = Freed(m, MarkerOf(pt[p])),
         NEW new, new = [pt EXCEPT ![p] = Null]
  PROVE  Sound(f, new)
<1>1. PICK a \in DOMAIN m : a = MarkerOf(pt[p])
  BY DEF Sound, Owned
<1>2. Covers(m) /\ Apart(m) /\ Owned(m, pt) /\ NoneLost(m, pt)
  BY DEF Sound
<1>3. f = Freed(m, a)
  BY <1>1
<1>4. Covers(f) /\ Apart(f) /\ SameUsed(m, a, f)
  BY <1>2, <1>3, FreedList
<1>5. /\ new \in [Pointers -> [at : Nat, len : Nat]] /\ new[p] = Null
      /\ \A q \in Pointers \ {p} : new[q] = pt[q]
  <2>1. pt \in [Pointers -> [at : Nat, len : Nat]] /\ Null \in [at : Nat, len : Nat]
    BY <1>2 DEF Owned, Null
  <2> QED
    BY <2>1
<1>6. \A q \in Pointers \ {p} : pt[q] # Null => MarkerOf(pt[q]) \in DOMAIN m \ {a}
  <2> SUFFICES ASSUME NEW q \in Pointers \ {p}, pt[q] # Null
               PROVE  MarkerOf(pt[q]) \in DOMAIN m \ {a}
    OBVIOUS
  <2>1. MarkerOf(pt[q]) \in DOMAIN m /\ pt[q].at # pt[p].at
    BY <1>2 DEF Owned
  <2>2. pt[q].at \in Nat /\ pt[p].at \in Nat
    BY <1>2 DEF Owned
  <2> QED
    BY <2>1, <2>2, <1>1, MallocAssumption DEF MarkerOf
<1>7. Owned(f, new)
  <2>1. ASSUME NEW q \in Pointers, new[q] # Null
        PROVE  /\ MarkerOf(new[q]) \in DOMAIN f
               /\ new[q].len \in Requests
               /\ new[q].len + HDR <= f[MarkerOf(new[q])].size
    <3>1. q # p /\ new[q] = pt[q]
      BY <2>1, <1>5
    <3>2. MarkerOf(pt[q]) \in DOMAIN m \ {a} /\ ~m[MarkerOf(pt[q])].free
      BY <2>1, <3>1, <1>6 DEF OthersMarked
    <3>3. MarkerOf(pt[q]) \in DOMAIN f /\ f[MarkerOf(pt[q])].size = m[MarkerOf(pt[q])].size
      BY <3>2, <1>4 DEF SameUsed
    <3>4. pt[q].len \in Requests /\ pt[q].len + HDR <= m[MarkerOf(pt[q])].size
      BY <2>1, <3>1, <1>2 DEF Owned
    <3> QED
      BY <3>1, <3>3, <3>4
  <2>2. ASSUME NEW q \in Pointers, NEW w \in Pointers, new[q] # Null, new[q].at = new[w].at
        PROVE  q = w
    <3>1. q # p /\ new[q] = pt[q]
      BY <2>2, <1>5
    <3>2. CASE w = p
      <4>1. pt[q].at = 0
        BY <2>2, <3>1, <3>2, <1>5 DEF Null
      <4>2. MarkerOf(pt[q]) \in Nat
        BY <2>2, <3>1, <1>2, <1>6, NextBlock
      <4> QED
        BY <4>1, <4>2, MallocAssumption DEF MarkerOf
    <3>3. CASE w # p
      BY <2>2, <3>1, <3>3, <1>2, <1>5 DEF Owned
    <3> QED
      BY <3>2, <3>3
  <2> QED
    BY <2>1, <2>2, <1>5 DEF Owned
<1>8. NoneLost(f, new)
  <2> SUFFICES ASSUME NEW b \in DOMAIN f, ~f[b].free
               PROVE  \E q \in Pointers : new[q] # Null /\ MarkerOf(new[q]) = b
    BY DEF NoneLost
  <2>1. b \in DOMAIN m \ {a} /\ ~m[b].free
    BY <1>4 DEF SameUsed
  <2>2. PICK q \in Pointers : pt[q] # Null /\ MarkerOf(pt[q]) = b
    BY <2>1, <1>2 DEF NoneLost
  <2>3. q # p
    BY <2>1, <2>2, <1>1
  <2> QED
    BY <2>2, <2>3, <1>5
<1> QED
  BY <1>4, <1>7, <1>8 DEF Sound

\* In list s block a, free in m, has room for sz words and is not free, and
\* nothing else that is in use changed.
Granted(m, a, sz, s) ==
  /\ Covers(s) /\ Apart(s)
  /\ a \in DOMAIN s /\ ~s[a].free /\ s[a].size = sz + HDR
  /\ \A b \in DOMAIN m :
       ~m[b].free => b \in DOMAIN s \ {a} /\ s[b].size = m[b].size /\ ~s[b].free
  /\ \A b \in DOMAIN s \ {a} : ~s[b].free => b \in DOMAIN m /\ ~m[b].free

\* Splitting grants the first part.
LEMMA SplitGrants ==
  ASSUME NEW m, Covers(m), Apart(m), NEW a \in DOMAIN m, m[a].free,
         NEW sz \in Nat, sz + 2 * HDR < m[a].size,
         NEW s, s = Split(m, a, sz)
  PROVE  Granted(m, a, sz, s)
<1>1. m[a].size \in Nat /\ a \in Nat
  BY NextBlock
<1>2. sz + HDR < m[a].size
  BY <1>1, MallocAssumption
<1>3. PICK n : n = a + sz + HDR
  OBVIOUS
<1>4. IsSplit(m, a, sz, n, s)
  BY <1>2, <1>3, SplitFields
<1>5. Covers(s)
  BY <1>2, <1>3, SplitCovers
<1>6. Apart(s)
  BY <1>4, SplitApart
<1>7. a \in DOMAIN s /\ ~s[a].free /\ s[a].size = sz + HDR
  BY <1>4 DEF IsSplit
<1>8. \A b \in DOMAIN m :
        ~m[b].free => b \in DOMAIN s \ {a} /\ s[b].size = m[b].size /\ ~s[b].free
  BY <1>4 DEF IsSplit
<1>9. \A b \in DOMAIN s \ {a} : ~s[b].free => b \in DOMAIN m /\ ~m[b].free
  BY <1>4 DEF IsSplit
<1> QED
  BY <1>5, <1>6, <1>7, <1>8, <1>9 DEF Granted

\* Pointer p gets block a, for a request of len words.
Given(pt, p, a, len, new) ==
  /\ new \in [Pointers -> [at : Nat, len : Nat]]
  /\ new[p].at = a + HDR /\ new[p].len = len
  /\ new[p] # Null /\ MarkerOf(new[p]) = a
  /\ \A q \in Pointers \ {p} : new[q] = pt[q]

\* What the assignment to a pointer leaves.
LEMMA PointerSet ==
  ASSUME NEW pt \in [Pointers -> [at : Nat, len : Nat]], NEW p \in Pointers,
         NEW a \in Nat, NEW len \in Requests,
         NEW new, new = [pt EXCEPT ![p] = [at |-> a + HDR, len |-> len]]
  PROVE  Given(pt, p, a, len, new)
<1> USE MallocAssumption
<1>1. new[p] = [at |-> a + HDR, len |-> len] /\ len \in Nat
  OBVIOUS
<1>2. new[p].at = a + HDR /\ new[p].len = len
  BY <1>1
<1>3. new[p] # Null
  <2>1. a + HDR # 0
    OBVIOUS
  <2> QED
    BY <2>1, <1>2 DEF Null
<1>4. new \in [Pointers -> [at : Nat, len : Nat]]
  <2>1. [at |-> a + HDR, len |-> len] \in [at : Nat, len : Nat]
    BY <1>1
  <2> QED
    BY <2>1
<1>5. MarkerOf(new[p]) = a
  BY <1>2 DEF MarkerOf
<1> QED
  BY <1>2, <1>3, <1>4, <1>5 DEF Given

\* The blocks of the other pointers are still in the list, and a is none of them.
OthersKept(m, pt, p, a, s) ==
  \A q \in Pointers \ {p} : pt[q] # Null =>
    /\ MarkerOf(pt[q]) \in DOMAIN s \ {a}
    /\ s[MarkerOf(pt[q])].size = m[MarkerOf(pt[q])].size

\* A block given to p leaves every pointer with a block of its own.
LEMMA OwnedAfter ==
  ASSUME NEW m, NEW pt, Owned(m, pt), NEW p \in Pointers,
         NEW s, NEW a \in DOMAIN s, a \in Nat,
         NEW len \in Requests, len + HDR <= s[a].size,
         NEW new, Given(pt, p, a, len, new), OthersKept(m, pt, p, a, s)
  PROVE  Owned(s, new)
<1>0. /\ new \in [Pointers -> [at : Nat, len : Nat]]
      /\ new[p].at = a + HDR /\ new[p].len = len /\ MarkerOf(new[p]) = a
      /\ \A q \in Pointers \ {p} : new[q] = pt[q]
  BY DEF Given
<1>1. ASSUME NEW q \in Pointers, new[q] # Null
      PROVE  /\ MarkerOf(new[q]) \in DOMAIN s
             /\ new[q].len \in Requests
             /\ new[q].len + HDR <= s[MarkerOf(new[q])].size
  <2>1. CASE q = p
    BY <2>1, <1>0
  <2>2. CASE q # p
    <3>1. /\ pt[q].len \in Requests
          /\ pt[q].len + HDR <= m[MarkerOf(pt[q])].size
      BY <1>0, <1>1, <2>2 DEF Owned
    <3> QED
      BY <3>1, <1>0, <1>1, <2>2 DEF OthersKept
  <2> QED
    BY <2>1, <2>2
<1>2. ASSUME NEW q \in Pointers \ {p}, pt[q] # Null
      PROVE  pt[q].at # new[p].at
  BY <1>0, <1>2 DEF MarkerOf, OthersKept
<1>3. ASSUME NEW q \in Pointers \ {p}, pt[q] = Null
      PROVE  pt[q].at # new[p].at
  <2>1. pt[q].at = 0 /\ a + HDR # 0
    BY <1>3, MallocAssumption DEF Null
  <2> QED
    BY <2>1, <1>0
<1>4. ASSUME NEW q \in Pointers, NEW w \in Pointers, new[q] # Null, new[q].at = new[w].at
      PROVE  q = w
  <2>1. CASE q # p /\ w # p
    BY <1>0, <1>4, <2>1 DEF Owned
  <2>2. CASE q = p \/ w = p
    BY <1>0, <1>2, <1>3, <1>4, <2>2
  <2> QED
    BY <2>1, <2>2
<1> QED
  BY <1>0, <1>1, <1>4 DEF Owned

\* malloc(p, sz) keeps the heap sound when it splits a block.
LEMMA MallocSplitSound ==
  ASSUME NEW m, NEW pt, Sound(m, pt), NEW p \in Pointers, pt[p] = Null,
         OthersMarked(m, pt, p),
         NEW a, NEW sz \in Requests, NEW s, Granted(m, a, sz, s),
         NEW new, new = [pt EXCEPT ![p] = [at |-> a + HDR, len |-> sz]]
  PROVE  Sound(s, new)
<1> USE MallocAssumption
<1>1. Covers(m) /\ Owned(m, pt) /\ NoneLost(m, pt)
  BY DEF Sound
<1>2. Covers(s) /\ Apart(s) /\ a \in DOMAIN s /\ a \in Nat
  <2>1. Covers(s) /\ Apart(s) /\ a \in DOMAIN s
    BY DEF Granted
  <2> QED
    BY <2>1, NextBlock
<1>3. pt \in [Pointers -> [at : Nat, len : Nat]]
  BY <1>1 DEF Owned
<1>4. Given(pt, p, a, sz, new)
  BY <1>2, <1>3, PointerSet
<1>5. OthersKept(m, pt, p, a, s)
  BY <1>1 DEF Owned, OthersMarked, Granted, OthersKept
<1>6. sz + HDR <= s[a].size
  BY DEF Granted
<1>7. Owned(s, new)
  BY <1>1, <1>2, <1>4, <1>5, <1>6, OwnedAfter
<1>8. NoneLost(s, new)
  <2> SUFFICES ASSUME NEW b \in DOMAIN s, ~s[b].free
               PROVE  \E q \in Pointers : new[q] # Null /\ MarkerOf(new[q]) = b
    BY DEF NoneLost
  <2>1. CASE b = a
    BY <2>1, <1>4 DEF Given
  <2>2. CASE b # a
    <3>1. b \in DOMAIN m /\ ~m[b].free
      BY <2>2 DEF Granted
    <3>2. PICK q \in Pointers : pt[q] # Null /\ MarkerOf(pt[q]) = b
      BY <3>1, <1>1 DEF NoneLost
    <3> QED
      BY <3>2, <1>4 DEF Given
  <2> QED
    BY <2>1, <2>2
<1> QED
  BY <1>2, <1>7, <1>8 DEF Sound

\* malloc(p, sz) keeps the heap sound when it hands out a block as it is.
LEMMA MallocTightSound ==
  ASSUME NEW m, NEW pt, Sound(m, pt), NEW p \in Pointers, pt[p] = Null,
         OthersMarked(m, pt, p),
         NEW a \in DOMAIN m, m[a].free,
         NEW sz \in Requests, sz + HDR <= m[a].size,
         NEW new, new = [pt EXCEPT ![p] = [at |-> a + HDR, len |-> sz]]
  PROVE  Sound(m, new)
<1> USE MallocAssumption
<1>1. Covers(m) /\ Apart(m) /\ Owned(m, pt) /\ NoneLost(m, pt)
  BY DEF Sound
<1>2. a \in Nat
  BY <1>1, NextBlock
<1>3. pt \in [Pointers -> [at : Nat, len : Nat]]
  BY <1>1 DEF Owned
<1>4. Given(pt, p, a, sz, new)
  BY <1>2, <1>3, PointerSet
<1>5. OthersKept(m, pt, p, a, m)
  BY <1>1 DEF Owned, OthersMarked, OthersKept
<1>6. Owned(m, new)
  BY <1>1, <1>2, <1>4, <1>5, OwnedAfter
<1>7. NoneLost(m, new)
  <2> SUFFICES ASSUME NEW b \in DOMAIN m, ~m[b].free
               PROVE  \E q \in Pointers : new[q] # Null /\ MarkerOf(new[q]) = b
    BY DEF NoneLost
  <2>1. PICK q \in Pointers : pt[q] # Null /\ MarkerOf(pt[q]) = b
    BY <1>1 DEF NoneLost
  <2> QED
    BY <2>1, <1>4 DEF Given
<1> QED
  BY <1>1, <1>6, <1>7 DEF Sound

\* realloc(p, len) keeps the heap sound when there is memory: the new block is
\* granted first, then the old one freed.
LEMMA ReallocSound ==
  ASSUME NEW m, NEW pt, Sound(m, pt), NEW p \in Pointers, pt[p] # Null,
         NEW old, old = MarkerOf(pt[p]), ~m[old].free,
         OthersMarked(m, pt, p),
         NEW a, NEW sz \in Nat, NEW s, Granted(m, a, sz, s),
         NEW len \in Requests, len <= sz,
         NEW f, f = Freed(s, old),
         NEW new, new = [pt EXCEPT ![p] = [at |-> a + HDR, len |-> len]]
  PROVE  Sound(f, new)
<1> USE MallocAssumption
<1>1. Covers(m) /\ Owned(m, pt) /\ NoneLost(m, pt)
  BY DEF Sound
<1>2. Covers(s) /\ Apart(s) /\ a \in DOMAIN s /\ a \in Nat
  <2>1. Covers(s) /\ Apart(s) /\ a \in DOMAIN s
    BY DEF Granted
  <2> QED
    BY <2>1, NextBlock
<1>3. old \in DOMAIN m /\ old \in DOMAIN s /\ old # a
  BY <1>1 DEF Owned, Granted
<1>4. Covers(f) /\ Apart(f) /\ SameUsed(s, old, f)
  BY <1>2, <1>3, FreedList
<1>5. pt \in [Pointers -> [at : Nat, len : Nat]]
  BY <1>1 DEF Owned
<1>6. Given(pt, p, a, len, new)
  BY <1>2, <1>5, PointerSet
<1>7. a \in DOMAIN f /\ len + HDR <= f[a].size
  <2>1. ~s[a].free /\ s[a].size = sz + HDR
    BY DEF Granted
  <2>2. a \in DOMAIN f /\ f[a].size = sz + HDR
    BY <2>1, <1>2, <1>3, <1>4 DEF SameUsed
  <2> QED
    BY <2>2
<1>8. ASSUME NEW q \in Pointers \ {p}, pt[q] # Null
      PROVE  /\ MarkerOf(pt[q]) \in DOMAIN f \ {a}
             /\ f[MarkerOf(pt[q])].size = m[MarkerOf(pt[q])].size
  <2>1. PICK b \in DOMAIN m : b = MarkerOf(pt[q]) /\ ~m[b].free
    BY <1>8, <1>1 DEF Owned, OthersMarked
  <2>2. b # old
    <3>1. pt[q].at # pt[p].at /\ pt[q].at \in Nat /\ pt[p].at \in Nat
      BY <1>8, <1>1 DEF Owned
    <3> QED
      BY <3>1, <2>1 DEF MarkerOf
  <2>3. b \in DOMAIN s \ {a, old} /\ s[b].size = m[b].size /\ ~s[b].free
    BY <2>1, <2>2 DEF Granted
  <2>4. b \in DOMAIN f /\ f[b].size = s[b].size
    BY <2>3, <1>4 DEF SameUsed
  <2> QED
    BY <2>1, <2>3, <2>4
<1>9. Owned(f, new)
  <2>1. OthersKept(m, pt, p, a, f)
    BY <1>8 DEF OthersKept
  <2> QED
    BY <2>1, <1>1, <1>2, <1>6, <1>7, OwnedAfter
<1>10. NoneLost(f, new)
  <2> SUFFICES ASSUME NEW b \in DOMAIN f, ~f[b].free
               PROVE  \E q \in Pointers : new[q] # Null /\ MarkerOf(new[q]) = b
    BY DEF NoneLost
  <2>1. CASE b = a
    BY <2>1, <1>6 DEF Given
  <2>2. CASE b # a
    <3>1. b \in DOMAIN s \ {old} /\ ~s[b].free
      BY <1>4 DEF SameUsed
    <3>2. b \in DOMAIN m /\ ~m[b].free
      BY <3>1, <2>2 DEF Granted
    <3>3. PICK q \in Pointers : pt[q] # Null /\ MarkerOf(pt[q]) = b
      BY <3>2, <1>1 DEF NoneLost
    <3> QED
      BY <3>1, <3>3, <1>6 DEF Given
  <2> QED
    BY <2>1, <2>2
<1> QED
  BY <1>4, <1>9, <1>10 DEF Sound

-----------------------------------------------------------------------------
(* The steps                                                               *)

\* malloc_init leaves a sound heap: one free block.
LEMMA InitSound == Init => Sound(marker, ptr)
<1> USE MallocAssumption
<1> SUFFICES ASSUME Init PROVE Sound(marker, ptr)
  OBVIOUS
<1>1. /\ DOMAIN marker = {BEGIN}
      /\ marker[BEGIN] = [next |-> 0, prev |-> 0, size |-> END - BEGIN, free |-> TRUE]
      /\ \A p \in Pointers : ptr[p] = Null
      /\ ptr = [p \in Pointers |-> Null]
  BY DEF Init, malloc_init
<1>2. /\ marker[BEGIN].next = 0 /\ marker[BEGIN].prev = 0
      /\ marker[BEGIN].size = END - BEGIN /\ marker[BEGIN].free
      /\ marker[BEGIN] \in Markers
  BY <1>1 DEF Markers
<1>3. marker \in [DOMAIN marker -> Markers]
  <2>1. marker = [b \in DOMAIN marker |-> marker[b]]
    BY DEF Init, malloc_init
  <2> QED
    BY <1>1, <1>2, <2>1
<1>4. Chained(marker)
  BY <1>1, <1>2 DEF Chained
<1>5. Covers(marker)
  BY <1>1, <1>3, <1>4 DEF Covers
<1>6. Apart(marker) /\ NoneLost(marker, ptr)
  BY <1>1, <1>2 DEF Apart, NoneLost
<1>7. Owned(marker, ptr)
  <2>1. Null \in [at : Nat, len : Nat]
    BY DEF Null
  <2> QED
    BY <1>1, <2>1 DEF Owned
<1> QED
  BY <1>5, <1>6, <1>7 DEF Sound

\* The run of the program: no call while another pointer's block fits closely,
\* and no growing realloc.
Restrained == "tight" \notin Abuses /\ "grow" \notin Abuses

\* The guard of the calls, said of the list.
LEMMA OthersAre ==
  ASSUME Restrained, NEW p \in Pointers, Usable(p)
  PROVE  OthersMarked(marker, ptr, p)
BY DEF Restrained, Usable, Tight, InUse, OthersMarked

\* free keeps the heap sound.
LEMMA FreeStep ==
  ASSUME Restrained, Sound(marker, ptr), NEW p \in Pointers, free(p)
  PROVE  Sound(marker', ptr')
<1>1. /\ ptr[p] # Null /\ marker' = Freed(marker, MarkerOf(ptr[p]))
      /\ ptr' = [ptr EXCEPT ![p] = Null]
  BY DEF free, InUse
<1>2. OthersMarked(marker, ptr, p)
  BY OthersAre DEF free
<1> QED
  BY <1>1, <1>2, FreeSound

\* malloc finds no memory, or hands out a block that fits closely, or splits one.
LEMMA MallocStep ==
  ASSUME Restrained, Sound(marker, ptr), NEW p \in Pointers, NEW sz \in Requests,
         malloc(p, sz)
  PROVE  /\ Sound(marker', ptr')
         /\ \/ ptr' = ptr
            \/ \E at \in Nat : ptr' = [ptr EXCEPT ![p] = [at |-> at, len |-> sz]]
<1> USE MallocAssumption
<1>1. PICK r : /\ r = Taken(marker, sz) /\ marker' = r.m
               /\ ptr' = IF r.at = 0 THEN ptr
                         ELSE [ptr EXCEPT ![p] = [at |-> r.at, len |-> sz]]
  BY DEF malloc
<1>2. ptr[p] = Null /\ OthersMarked(marker, ptr, p)
  BY OthersAre DEF malloc, InUse
<1>3. Covers(marker) /\ Apart(marker) /\ sz \in Nat
  BY DEF Sound
<1>4. \/ r.at = 0 /\ r.m = marker
      \/ \E a \in DOMAIN marker :
           /\ r.at = a + HDR /\ r.m = marker /\ marker[a].free
           /\ sz + HDR <= marker[a].size
      \/ \E a \in DOMAIN marker :
           /\ r.at = a + HDR /\ r.m = Split(marker, a, sz) /\ marker[a].free
           /\ sz + 2 * HDR < marker[a].size
  BY <1>1, <1>3, TakenList
<1>5. CASE r.at = 0 /\ r.m = marker
  BY <1>1, <1>5
<1>6. ASSUME NEW a \in DOMAIN marker, r.at = a + HDR, r.m = marker, marker[a].free,
             sz + HDR <= marker[a].size
      PROVE  Sound(marker', ptr') /\ \E at \in Nat :
               ptr' = [ptr EXCEPT ![p] = [at |-> at, len |-> sz]]
  <2>1. a \in Nat /\ r.at # 0 /\ r.at \in Nat
    BY <1>3, <1>6, NextBlock
  <2>2. ptr' = [ptr EXCEPT ![p] = [at |-> a + HDR, len |-> sz]] /\ marker' = marker
    BY <2>1, <1>1, <1>6
  <2>3. Sound(marker, ptr')
    BY <2>2, <1>2, <1>6, MallocTightSound
  <2>6. \E at \in Nat : ptr' = [ptr EXCEPT ![p] = [at |-> at, len |-> sz]]
    <3>1. r.at \in Nat /\ ptr' = [ptr EXCEPT ![p] = [at |-> r.at, len |-> sz]]
      BY <2>1, <2>2, <1>6
    <3> QED
      BY <3>1, Zenon
  <2> QED
    BY <2>2, <2>3, <2>6
<1>7. ASSUME NEW a \in DOMAIN marker, r.at = a + HDR, r.m = Split(marker, a, sz),
             marker[a].free, sz + 2 * HDR < marker[a].size
      PROVE  Sound(marker', ptr') /\ \E at \in Nat :
               ptr' = [ptr EXCEPT ![p] = [at |-> at, len |-> sz]]
  <2>1. a \in Nat /\ r.at # 0 /\ r.at \in Nat
    BY <1>3, <1>7, NextBlock
  <2>2. /\ ptr' = [ptr EXCEPT ![p] = [at |-> a + HDR, len |-> sz]]
        /\ marker' = Split(marker, a, sz)
    BY <2>1, <1>1, <1>7
  <2>3. Granted(marker, a, sz, marker')
    BY <2>2, <1>3, <1>7, SplitGrants
  <2>4. Sound(marker', ptr')
    BY <2>2, <2>3, <1>2, MallocSplitSound
  <2>6. \E at \in Nat : ptr' = [ptr EXCEPT ![p] = [at |-> at, len |-> sz]]
    <3>1. r.at \in Nat /\ ptr' = [ptr EXCEPT ![p] = [at |-> r.at, len |-> sz]]
      BY <2>1, <2>2, <1>7
    <3> QED
      BY <3>1, Zenon
  <2> QED
    BY <2>4, <2>6
<1> QED
  BY <1>4, <1>5, <1>6, <1>7

\* realloc moves the block when there is memory.
LEMMA ReallocStep ==
  ASSUME Restrained, Sound(marker, ptr), NEW p \in Pointers, NEW size \in Requests,
         realloc(p, size)
  PROVE  /\ Sound(marker', ptr')
         /\ \E at \in Nat : ptr' = [ptr EXCEPT ![p] = [at |-> at, len |-> size]]
<1> USE MallocAssumption
<1>1. Covers(marker) /\ Apart(marker) /\ Owned(marker, ptr)
  BY DEF Sound
<1>2. PICK old \in DOMAIN marker : old = MarkerOf(ptr[p])
  BY <1>1 DEF realloc, Reallocs, InUse, Owned
<1>3. PICK sz \in Nat : sz = marker[old].size
  BY <1>1, NextBlock
<1>4. PICK r :
        /\ r = Taken(marker, sz)
        /\ r.at # 0
        /\ r.m[r.at - HDR].free => "tight" \in Abuses
        /\ marker' = Freed(r.m, old)
        /\ ptr' = [ptr EXCEPT ![p] = [at |-> r.at, len |-> size]]
  BY <1>2, <1>3 DEF realloc, OldSize
<1>5. size <= sz /\ r.at # 0 /\ ~r.m[r.at - HDR].free
  BY <1>2, <1>3, <1>4 DEF Restrained, realloc, Reallocs, OldSize
<1>6. ptr[p] # Null /\ OthersMarked(marker, ptr, p) /\ ~marker[old].free
  BY <1>2, OthersAre DEF realloc, Reallocs, InUse, Tight
<1>7. \/ r.at = 0 /\ r.m = marker
      \/ \E a \in DOMAIN marker :
           /\ r.at = a + HDR /\ r.m = marker /\ marker[a].free
           /\ sz + HDR <= marker[a].size
      \/ \E a \in DOMAIN marker :
           /\ r.at = a + HDR /\ r.m = Split(marker, a, sz) /\ marker[a].free
           /\ sz + 2 * HDR < marker[a].size
  BY <1>1, <1>4, TakenList
<1>8. ASSUME NEW a \in DOMAIN marker, r.at = a + HDR, r.m = marker, marker[a].free
      PROVE  FALSE
  <2>1. a \in Nat /\ r.at # 0 /\ r.at - HDR = a
    BY <1>1, <1>8, NextBlock
  <2> QED
    BY <2>1, <1>5, <1>8
<1>9. ASSUME NEW a \in DOMAIN marker, r.at = a + HDR, r.m = Split(marker, a, sz),
              marker[a].free, sz + 2 * HDR < marker[a].size
       PROVE  Sound(marker', ptr') /\ \E at \in Nat :
                ptr' = [ptr EXCEPT ![p] = [at |-> at, len |-> size]]
  <2>1. a \in Nat /\ r.at # 0 /\ r.at \in Nat
    BY <1>1, <1>9, NextBlock
  <2>2. PICK s : s = Split(marker, a, sz)
    OBVIOUS
  <2>3. /\ ptr' = [ptr EXCEPT ![p] = [at |-> a + HDR, len |-> size]]
        /\ marker' = Freed(s, old)
    BY <2>1, <2>2, <1>4, <1>9
  <2>4. Granted(marker, a, sz, s)
    BY <2>2, <1>1, <1>9, SplitGrants
  <2>5. Sound(marker', ptr')
    BY <2>3, <2>4, <1>2, <1>5, <1>6, ReallocSound
  <2>6. \E at \in Nat : ptr' = [ptr EXCEPT ![p] = [at |-> at, len |-> size]]
    <3>1. r.at \in Nat /\ ptr' = [ptr EXCEPT ![p] = [at |-> r.at, len |-> size]]
      BY <2>1, <2>3, <1>9
    <3> QED
      BY <3>1, Zenon
  <2> QED
    BY <2>5, <2>6
<1> QED
  BY <1>5, <1>7, <1>8, <1>9

\* Every step keeps the heap sound; the one that ruins it touches neither list nor
\* pointers in the model, and is the last.
LEMMA NextSound ==
  ASSUME Restrained, Sound(marker, ptr), [Next]_vars
  PROVE  Sound(marker', ptr')
<1>1. CASE Next
  <2>1. CASE ruined /\ UNCHANGED vars
    BY <2>1 DEF vars
  <2>2. CASE Calls
    <3>1. PICK p \in Pointers :
            \/ free(p)
            \/ \E sz \in Requests : \/ malloc(p, sz) \/ realloc(p, sz)
                                     \/ reallocToNull(p, sz)
      BY <2>2 DEF Calls
    <3>2. CASE \E sz \in Requests : reallocToNull(p, sz)
      BY <3>2 DEF reallocToNull
    <3> QED
      BY <3>1, <3>2, FreeStep, MallocStep, ReallocStep
  <2> QED
    BY <1>1, <2>1, <2>2 DEF Next
<1>2. CASE UNCHANGED vars
  BY <1>2 DEF vars
<1> QED
  BY <1>1, <1>2

-----------------------------------------------------------------------------
(* The promise of malloc and free                                          *)

\* The words of a block in use lie in the heap, apart from those of any other.
LEMMA BlocksApart ==
  ASSUME NEW m, NEW pt, Sound(m, pt), NEW p \in Pointers, pt[p] # Null
  PROVE  /\ Heap!Words(pt[p]) \subseteq BEGIN .. END - 1
         /\ \A q \in Pointers \ {p} :
              pt[q] # Null => Heap!Words(pt[p]) \cap Heap!Words(pt[q]) = {}
<1> USE MallocAssumption
<1>1. Covers(m) /\ Owned(m, pt)
  BY DEF Sound
<1>2. ASSUME NEW q \in Pointers, pt[q] # Null
      PROVE  /\ pt[q].at \in Nat /\ pt[q].len \in Nat
             /\ pt[q].at - HDR \in DOMAIN m
             /\ m[pt[q].at - HDR].size \in Nat /\ BEGIN <= pt[q].at - HDR
             /\ pt[q].at + pt[q].len <= pt[q].at - HDR + m[pt[q].at - HDR].size
             /\ pt[q].at - HDR + m[pt[q].at - HDR].size <= END
  <2>1. pt[q].at \in Nat /\ pt[q].len \in Nat /\ MarkerOf(pt[q]) \in DOMAIN m
        /\ pt[q].len + HDR <= m[MarkerOf(pt[q])].size
    BY <1>1, <1>2 DEF Owned
  <2>2. PICK b \in DOMAIN m : b = pt[q].at - HDR
    BY <2>1 DEF MarkerOf
  <2>3. /\ b \in Nat /\ BEGIN <= b /\ m[b].size \in Nat /\ b + m[b].size <= END
    BY <1>1, NextBlock
  <2>4. pt[q].len + HDR <= m[b].size
    BY <2>1, <2>2 DEF MarkerOf
  <2> QED
    BY <2>1, <2>2, <2>3, <2>4
<1>3. PICK b \in DOMAIN m : b = pt[p].at - HDR
  BY <1>2
<1>4. /\ pt[p].at \in Nat /\ pt[p].len \in Nat /\ m[b].size \in Nat /\ BEGIN <= b
      /\ pt[p].at + pt[p].len <= b + m[b].size /\ b + m[b].size <= END /\ b \in Nat
  BY <1>2, <1>3
<1>5. Heap!Words(pt[p]) \subseteq BEGIN .. END - 1
  BY <1>3, <1>4 DEF Heap!Words
<1>6. ASSUME NEW q \in Pointers \ {p}, pt[q] # Null
      PROVE  Heap!Words(pt[p]) \cap Heap!Words(pt[q]) = {}
  <2>1. PICK c \in DOMAIN m : c = pt[q].at - HDR
    BY <1>2, <1>6
  <2>2. /\ pt[q].at \in Nat /\ pt[q].len \in Nat /\ m[c].size \in Nat
        /\ pt[q].at + pt[q].len <= c + m[c].size /\ c \in Nat
    BY <1>2, <1>6, <2>1
  <2>3. b # c
    <3>1. pt[q].at # pt[p].at
      BY <1>1, <1>6 DEF Owned
    <3> QED
      BY <3>1, <1>3, <1>4, <2>1, <2>2
  <2>4. (b < c => b + m[b].size <= c) /\ (c < b => c + m[c].size <= b)
    BY <1>1 DEF Covers, Chained
  <2> QED
    BY <1>3, <1>4, <2>1, <2>2, <2>3, <2>4 DEF Heap!Words
<1> QED
  BY <1>5, <1>6

\* A block handed out or moved to is one the promise allows.
LEMMA GrantAllowed ==
  ASSUME Sound(marker, ptr), Sound(marker', ptr'),
         NEW p \in Pointers, NEW at \in Nat, NEW len \in Requests,
         ptr' = [ptr EXCEPT ![p] = [at |-> at, len |-> len]]
  PROVE  at \in BEGIN .. END /\ Heap!Grantable(p, [at |-> at, len |-> len])
<1> USE MallocAssumption
<1>1. ptr \in [Pointers -> [at : Nat, len : Nat]]
  BY DEF Sound, Owned
<1>2. ptr'[p] = [at |-> at, len |-> len] /\ \A q \in Pointers \ {p} : ptr'[q] = ptr[q]
  BY <1>1
<1>3. len \in Nat \ {0}
  OBVIOUS
<1>4. ptr'[p] # Null
  <2>1. ptr'[p].len = len
    BY <1>2
  <2> QED
    BY <2>1, <1>3 DEF Null
<1>5. /\ Heap!Words(ptr'[p]) \subseteq BEGIN .. END - 1
      /\ \A q \in Pointers \ {p} :
           ptr'[q] # Null => Heap!Words(ptr'[p]) \cap Heap!Words(ptr'[q]) = {}
  BY <1>4, BlocksApart
<1>6. Heap!Words(ptr'[p]) = at .. at + len - 1
  BY <1>2 DEF Heap!Words
<1>7. at \in BEGIN .. END
  <2>1. at \in at .. at + len - 1
    BY <1>3
  <2>2. at \in BEGIN .. END - 1
    BY <2>1, <1>5, <1>6
  <2> QED
    BY <2>2
<1>8. Heap!Grantable(p, [at |-> at, len |-> len])
  <2>1. \A q \in Pointers \ {p} :
          ptr[q] # Null => Heap!Words([at |-> at, len |-> len]) \cap Heap!Words(ptr[q]) = {}
    BY <1>2, <1>5
  <2>2. Heap!Words([at |-> at, len |-> len]) \subseteq BEGIN .. END - 1
    BY <1>2, <1>5
  <2> QED
    BY <2>1, <2>2 DEF Heap!Grantable, Heap!InUse, Heap!Null, Null
<1> QED
  BY <1>7, <1>8

\* Every call is one the promise allows.
LEMMA NextAllowed ==
  ASSUME Restrained, Sound(marker, ptr), [Next]_vars
  PROVE  [Heap!Next]_(Heap!avars)
<1>1. ASSUME NEW p \in Pointers, free(p) PROVE Heap!Release(p)
  BY <1>1 DEF free, InUse, Heap!Release, Heap!InUse, Heap!Null, Null
<1>2. ASSUME NEW p \in Pointers, NEW sz \in Requests, malloc(p, sz)
      PROVE  Heap!Alloc(p) \/ ptr' = ptr
  <2>1. Sound(marker', ptr')
    BY <1>2, MallocStep
  <2>2. CASE ptr' = ptr
    BY <2>2
  <2>3. ASSUME NEW at \in Nat, ptr' = [ptr EXCEPT ![p] = [at |-> at, len |-> sz]]
        PROVE  Heap!Alloc(p)
    <3>1. at \in BEGIN .. END /\ Heap!Grantable(p, [at |-> at, len |-> sz])
      BY <2>1, <2>3, GrantAllowed
    <3>2. ~Heap!InUse(p)
      BY <1>2 DEF malloc, InUse, Heap!InUse, Heap!Null, Null
    <3> QED
      BY <2>3, <3>1, <3>2 DEF Heap!Alloc
  <2>4. ptr' = ptr \/ \E at \in Nat : ptr' = [ptr EXCEPT ![p] = [at |-> at, len |-> sz]]
    BY <1>2, MallocStep
  <2> QED
    BY <2>2, <2>3, <2>4
<1>3. ASSUME NEW p \in Pointers, NEW size \in Requests, realloc(p, size)
      PROVE  Heap!Move(p)
  <2>1. Sound(marker', ptr')
    BY <1>3, ReallocStep
  <2>2. Heap!InUse(p)
    BY <1>3 DEF realloc, Reallocs, InUse, Heap!InUse, Heap!Null, Null
  <2>4. ASSUME NEW at \in Nat, ptr' = [ptr EXCEPT ![p] = [at |-> at, len |-> size]]
        PROVE  Heap!Move(p)
    <3>1. at \in BEGIN .. END /\ Heap!Grantable(p, [at |-> at, len |-> size])
      BY <2>1, <2>4, GrantAllowed
    <3> QED
      BY <2>2, <2>4, <3>1 DEF Heap!Move
  <2>5. \E at \in Nat : ptr' = [ptr EXCEPT ![p] = [at |-> at, len |-> size]]
    BY <1>3, ReallocStep
  <2> QED
    BY <2>4, <2>5
<1>4. ASSUME NEW p \in Pointers, NEW size \in Requests, reallocToNull(p, size)
      PROVE  Heap!Break(p)
  BY <1>4 DEF reallocToNull, Reallocs, InUse, Heap!Break, Heap!InUse, Heap!Null, Null
<1>5. CASE ~ruined /\ Calls
  <2>1. PICK p \in Pointers :
          \/ free(p)
          \/ \E sz \in Requests : \/ malloc(p, sz) \/ realloc(p, sz)
                                   \/ reallocToNull(p, sz)
    BY <1>5 DEF Calls
  <2>2. CASE free(p)
    <3>1. Heap!Release(p) /\ UNCHANGED ruined
      BY <1>1, <2>2 DEF free
    <3> QED
      BY <1>5, <3>1 DEF Heap!Next
  <2>3. ASSUME NEW sz \in Requests, malloc(p, sz)
        PROVE  [Heap!Next]_(Heap!avars)
    <3>1. (Heap!Alloc(p) \/ ptr' = ptr) /\ UNCHANGED ruined
      BY <1>2, <2>3 DEF malloc
    <3> QED
      BY <1>5, <3>1 DEF Heap!Next, Heap!avars
  <2>4. ASSUME NEW sz \in Requests, realloc(p, sz)
        PROVE  Heap!Next
    <3>1. Heap!Move(p) /\ UNCHANGED ruined
      BY <1>3, <2>4 DEF realloc
    <3> QED
      BY <1>5, <3>1 DEF Heap!Next
  <2>5. ASSUME NEW sz \in Requests, reallocToNull(p, sz)
        PROVE  Heap!Next
    BY <1>4, <1>5, <2>5 DEF Heap!Next
  <2> QED
    BY <2>1, <2>2, <2>3, <2>4, <2>5
<1>6. CASE UNCHANGED vars
  BY <1>6 DEF vars, Heap!avars
<1> QED
  BY <1>5, <1>6 DEF Next

-----------------------------------------------------------------------------
(* Theorems                                                                *)

\* Through every order of malloc, free and realloc, splits and joins leave a list
\* that covers the heap, blocks that no two pointers share and no free blocks side
\* by side - until a realloc finds no memory, and while no block that fitted
\* closely is in use beside the call's own and realloc grows nothing (without that
\* they fail, as the hazards say).
THEOREM MallocInvariant ==
  ASSUME "tight" \notin Abuses, "grow" \notin Abuses
  PROVE  Spec => []MallocInv
<1>1. Restrained
  BY DEF Restrained
<1>2. Init => MallocInv
  BY InitSound, InvIs
<1>3. MallocInv /\ [Next]_vars => MallocInv'
  <2> SUFFICES ASSUME MallocInv, [Next]_vars PROVE MallocInv'
    OBVIOUS
  <2>1. (MallocInv <=> (ruined \/ Sound(marker, ptr)))'
    BY InvIs, PTL
  <2>2. CASE ruined
    BY <2>1, <2>2 DEF Next, vars
  <2>3. CASE ~ruined
    <3>1. Sound(marker, ptr)
      BY <2>3, InvIs
    <3> QED
      BY <1>1, <2>1, <3>1, NextSound
  <2> QED
    BY <2>2, <2>3
<1> QED
  BY <1>2, <1>3, PTL DEF Spec

\* Until a realloc finds no memory, the list covers the heap from end to end.
THEOREM ListCovers ==
  ASSUME "tight" \notin Abuses, "grow" \notin Abuses
  PROVE  Spec => []ListCoversHeap
<1>1. MallocInv => ListCoversHeap
  BY DEF MallocInv
<1> QED
  BY <1>1, MallocInvariant, PTL

\* Until then no two pointers share a block, and each has room for what was asked.
THEOREM NoBlockShared ==
  ASSUME "tight" \notin Abuses, "grow" \notin Abuses
  PROVE  Spec => []BlocksInUse
<1>1. MallocInv => BlocksInUse
  BY DEF MallocInv
<1> QED
  BY <1>1, MallocInvariant, PTL

\* Until then what was freed is in one piece, and nothing is lost.
THEOREM FreedIsWhole ==
  ASSUME "tight" \notin Abuses, "grow" \notin Abuses
  PROVE  Spec => []Coalesced
<1>1. MallocInv => Coalesced
  BY DEF MallocInv
<1> QED
  BY <1>1, MallocInvariant, PTL

\* The list of markers implements an allocator: what it hands out lies in the
\* heap, is as long as was asked and shares no word with another block in use,
\* until a realloc without memory ends the promise.
THEOREM MallocIsAllocator ==
  ASSUME "tight" \notin Abuses, "grow" \notin Abuses
  PROVE  Spec => IsAllocator
<1>1. Restrained
  BY DEF Restrained
<1>2. Init => Heap!Init
  BY DEF Init, Heap!Init, Heap!Null, Null
<1>3. MallocInv /\ [Next]_vars => [Heap!Next]_(Heap!avars)
  <2> SUFFICES ASSUME MallocInv, [Next]_vars PROVE [Heap!Next]_(Heap!avars)
    OBVIOUS
  <2>1. CASE ruined
    BY <2>1 DEF Next, vars, Heap!avars
  <2>2. CASE ~ruined
    BY <1>1, <2>2, NextAllowed, InvIs
  <2> QED
    BY <2>1, <2>2
<1> QED
  BY <1>2, <1>3, MallocInvariant, PTL DEF Spec, IsAllocator, Heap!Spec
=============================================================================
