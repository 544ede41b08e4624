-------------------------- MODULE BlockCacheProofs --------------------------
(***************************************************************************)
(* For every cache size and every set of blocks, the block cache behaves   *)
(* as the disk of CachedDisk.  A bread that finds no free buffer first     *)
(* syncs, so the argument is made for the flags and the disk such a sync   *)
(* leaves behind (Good, ContentOf, KeptOf) and used twice: with and        *)
(* without the sync.                                                       *)
(***************************************************************************)
EXTENDS BlockCache, FirstFitProofs, TLAPS

USE CacheAssumption

CachedIn(fl, b) == {i \in Buffers : fl[i] # "FREE" /\ blk[i] = b}
MarkedIn(fl, b) == {i \in Buffers : fl[i] = "MODIFIED" /\ blk[i] = b}

\* CacheInv with flags fl and disk d in the place of the cache's own.
Good(fl, d) ==
  /\ fl \in [Buffers -> {"FREE", "USED", "MODIFIED"}]
  /\ d \in [Blocks -> Data]
  /\ blk \in [Buffers -> Blocks] /\ cnt \in [Buffers -> Nat]
  /\ data \in [Buffers -> Data]
  /\ held \in [Buffers -> [Blocks -> 0 .. MaxHolds]] /\ hung \in BOOLEAN
  /\ \A i \in Buffers, b \in Blocks : held[i][b] > 0 => fl[i] # "FREE" /\ blk[i] = b
  /\ \A i, j \in Buffers : fl[i] # "FREE" /\ fl[j] # "FREE" /\ blk[i] = blk[j] => i = j
  /\ \A i \in Buffers : /\ fl[i] # "FREE" => cnt[i] = held[i][blk[i]]
                        /\ fl[i] = "FREE" => cnt[i] = 0

ContentOf(fl, d) ==
  [b \in Blocks |-> IF CachedIn(fl, b) = {} THEN d[b] ELSE data[Lowest(CachedIn(fl, b))]]

KeptOf(fl, d) ==
  [b \in Blocks |-> IF MarkedIn(fl, b) = {} THEN d[b] ELSE data[Lowest(MarkedIn(fl, b))]]

\* The two forms of the invariant and of the contents say the same.
LEMMA GoodIsInv ==
  /\ CacheInv <=> Good(flags, disk)
  /\ Content = ContentOf(flags, disk) /\ Kept = KeptOf(flags, disk)
<1>1. CacheInv <=> Good(flags, disk)
  BY DEF CacheInv, Good, CacheTypeOK, HeldStays, OneCopy, CountsHolders
<1> QED
  BY <1>1 DEF Content, ContentOf, Cached, CachedIn, Kept, KeptOf, Marked, MarkedIn

\* And so they do after a step.
LEMMA GoodIsInvPrime ==
  /\ CacheInv' <=> Good(flags, disk)'
  /\ (Content = ContentOf(flags, disk))' /\ (Kept = KeptOf(flags, disk))'
BY GoodIsInv, PTL

\* A cached block is in one buffer, and that is where it is read and, if it is
\* marked, what is kept of it.
LEMMA CachedOnce ==
  ASSUME NEW fl, NEW d, Good(fl, d), NEW i \in Buffers, fl[i] # "FREE"
  PROVE  /\ CachedIn(fl, blk[i]) = {i}
         /\ Lowest(CachedIn(fl, blk[i])) = i
         /\ ContentOf(fl, d)[blk[i]] = data[i]
         /\ KeptOf(fl, d)[blk[i]] = IF fl[i] = "MODIFIED" THEN data[i] ELSE d[blk[i]]
<1>1. CachedIn(fl, blk[i]) = {i}
  BY DEF Good, CachedIn
<1>2. Lowest({i}) = i
  <2>1. {i} \in SUBSET Nat
    BY DEF Buffers
  <2> QED
    BY <2>1, LowestIsLeast
<1>3. blk[i] \in Blocks
  BY DEF Good
<1>4. ContentOf(fl, d)[blk[i]] = data[i]
  BY <1>1, <1>2, <1>3 DEF ContentOf
<1>5. MarkedIn(fl, blk[i]) = IF fl[i] = "MODIFIED" THEN {i} ELSE {}
  BY DEF Good, MarkedIn
<1>6. KeptOf(fl, d)[blk[i]] = IF fl[i] = "MODIFIED" THEN data[i] ELSE d[blk[i]]
  BY <1>2, <1>3, <1>5 DEF KeptOf
<1> QED
  BY <1>1, <1>2, <1>4, <1>6

\* A block that is not cached is what the disk holds, and that is what is kept.
LEMMA NotCached ==
  ASSUME NEW fl, NEW d, NEW b \in Blocks, \A i \in Buffers : fl[i] # "FREE" => blk[i] # b
  PROVE  ContentOf(fl, d)[b] = d[b] /\ KeptOf(fl, d)[b] = d[b]
BY DEF ContentOf, CachedIn, KeptOf, MarkedIn

\* The blocks block_sync drops from the cache.
Forgets == {b \in Blocks : \E i \in Dropped : flags[i] # "FREE" /\ blk[i] = b}

\* block_sync changes neither the invariant nor what is kept of any block; the
\* blocks it drops go back to what was kept of them.
LEMMA SyncKeeps ==
  ASSUME Good(flags, disk)
  PROVE  /\ Good(FlagsSynced, Synced)
         /\ KeptOf(FlagsSynced, Synced) = Kept
         /\ ContentOf(FlagsSynced, Synced) = TheDisk!Forgotten(Forgets)
<1> DEFINE writers(b) == {i \in Dropped : flags[i] = "MODIFIED" /\ blk[i] = b}
<1>1. \A i \in Buffers : FlagsSynced[i] = IF cnt[i] = 0 THEN "FREE" ELSE flags[i]
  BY DEF FlagsSynced, Dropped
<1>2. FlagsSynced \in [Buffers -> {"FREE", "USED", "MODIFIED"}]
  BY DEF FlagsSynced, Good
<1>3. \A b \in Blocks : writers(b) = {} => Synced[b] = disk[b]
  BY DEF Synced
<1>4. \A i \in Buffers : cnt[i] = 0 /\ flags[i] = "MODIFIED" => Synced[blk[i]] = data[i]
  <2> SUFFICES ASSUME NEW i \in Buffers, cnt[i] = 0, flags[i] = "MODIFIED"
               PROVE  Synced[blk[i]] = data[i]
    OBVIOUS
  <2>1. writers(blk[i]) = {i} /\ blk[i] \in Blocks
    BY DEF Good, Dropped
  <2>2. i <= i
    BY DEF Buffers
  <2>3. (CHOOSE k \in writers(blk[i]) : \A j \in writers(blk[i]) : j <= k) = i
    BY <2>1, <2>2
  <2> QED
    BY <2>1, <2>3 DEF Synced
<1>5. Synced \in [Blocks -> Data]
  <2> SUFFICES ASSUME NEW b \in Blocks PROVE Synced[b] \in Data
    BY DEF Synced
  <2>1. CASE writers(b) = {}
    BY <2>1, <1>3 DEF Good
  <2>2. CASE writers(b) # {}
    <3>1. PICK i \in Buffers : cnt[i] = 0 /\ flags[i] = "MODIFIED" /\ blk[i] = b
      BY <2>2 DEF Dropped
    <3> QED
      BY <3>1, <1>4 DEF Good
  <2> QED
    BY <2>1, <2>2
<1> HIDE DEF writers
<1>7. \A i \in Buffers, b \in Blocks : held[i][b] > 0 => FlagsSynced[i] # "FREE" /\ blk[i] = b
  <2> SUFFICES ASSUME NEW i \in Buffers, NEW b \in Blocks, held[i][b] > 0
               PROVE  FlagsSynced[i] # "FREE" /\ blk[i] = b
    OBVIOUS
  <2>1. flags[i] # "FREE" /\ blk[i] = b /\ cnt[i] = held[i][b]
    BY DEF Good
  <2> QED
    BY <1>1, <2>1
<1>8. Good(FlagsSynced, Synced)
  BY <1>1, <1>2, <1>5, <1>7 DEF Good
<1>9. Content = ContentOf(flags, disk) /\ Kept = KeptOf(flags, disk)
  BY GoodIsInv
<1>10. ASSUME NEW b \in Blocks
       PROVE  /\ KeptOf(FlagsSynced, Synced)[b] = Kept[b]
              /\ ContentOf(FlagsSynced, Synced)[b]
                   = IF b \in Forgets THEN Kept[b] ELSE Content[b]
  <2>1. CASE \E i \in Buffers : flags[i] # "FREE" /\ blk[i] = b
    <3>1. PICK i \in Buffers : flags[i] # "FREE" /\ blk[i] = b
      BY <2>1
    <3>2. /\ Content[b] = data[i]
          /\ Kept[b] = IF flags[i] = "MODIFIED" THEN data[i] ELSE disk[b]
      BY <1>9, <3>1, CachedOnce
    <3>3. \A j \in Buffers : flags[j] # "FREE" /\ blk[j] = b => j = i
      BY <3>1 DEF Good
    <3>4. flags[i] # "MODIFIED" \/ cnt[i] # 0 => writers(b) = {}
      BY <3>3 DEF writers, Dropped
    <3>5. CASE cnt[i] # 0
      <4>1. b \notin Forgets
        BY <3>3, <3>5 DEF Forgets, Dropped
      <4>2. FlagsSynced[i] = flags[i]
        BY <1>1, <3>5
      <4>3. /\ ContentOf(FlagsSynced, Synced)[b] = data[i]
            /\ KeptOf(FlagsSynced, Synced)[b]
                 = IF flags[i] = "MODIFIED" THEN data[i] ELSE Synced[b]
        BY <1>8, <3>1, <4>2, CachedOnce
      <4>4. Synced[b] = disk[b]
        BY <1>3, <3>4, <3>5
      <4> QED
        BY <3>2, <4>1, <4>3, <4>4
    <3>6. CASE cnt[i] = 0
      <4>1. b \in Forgets
        BY <3>1, <3>6 DEF Forgets, Dropped
      <4>2. \A j \in Buffers : FlagsSynced[j] # "FREE" => blk[j] # b
        BY <1>1, <3>3, <3>6
      <4>3. /\ ContentOf(FlagsSynced, Synced)[b] = Synced[b]
            /\ KeptOf(FlagsSynced, Synced)[b] = Synced[b]
        BY <4>2, NotCached
      <4>4. Synced[b] = IF flags[i] = "MODIFIED" THEN data[i] ELSE disk[b]
        BY <1>3, <1>4, <3>1, <3>4, <3>6
      <4> QED
        BY <3>2, <4>1, <4>3, <4>4
    <3> QED
      BY <3>5, <3>6
  <2>2. CASE \A i \in Buffers : flags[i] # "FREE" => blk[i] # b
    <3>1. Content[b] = disk[b] /\ Kept[b] = disk[b]
      BY <1>9, <2>2, NotCached
    <3>2. /\ ContentOf(FlagsSynced, Synced)[b] = Synced[b]
          /\ KeptOf(FlagsSynced, Synced)[b] = Synced[b]
      <4>1. \A i \in Buffers : FlagsSynced[i] # "FREE" => blk[i] # b
        BY <1>1, <2>2
      <4> QED
        BY <4>1, NotCached
    <3>3. writers(b) = {} /\ b \notin Forgets
      BY <2>2 DEF writers, Dropped, Forgets
    <3> QED
      BY <1>3, <3>1, <3>2, <3>3
  <2> QED
    BY <2>1, <2>2
<1>11. KeptOf(FlagsSynced, Synced) = Kept
  BY <1>10 DEF KeptOf, Kept
<1>12. ContentOf(FlagsSynced, Synced) = TheDisk!Forgotten(Forgets)
  BY <1>10 DEF ContentOf, TheDisk!Forgotten
<1> QED
  BY <1>8, <1>11, <1>12

\* A block that is not cached, read into a buffer that is free.
LEMMA ReadIntoKeeps ==
  ASSUME NEW fl, NEW d, Good(fl, d), NEW b \in Blocks,
         \A i \in Buffers : fl[i] # "FREE" => blk[i] # b,
         \E i \in Buffers : fl[i] = "FREE",
         \A i \in Buffers : held[i][b] < MaxHolds,
         ReadInto(b, fl, d)
  PROVE  /\ CacheInv' /\ Content' = ContentOf(fl, d) /\ Kept' = KeptOf(fl, d)
         /\ seen' = <<b, ContentOf(fl, d)[b]>>
<1> DEFINE F == {j \in Buffers : fl[j] = "FREE"}
<1>0. PICK i : i = Lowest(F)
  OBVIOUS
<1>1. i \in Buffers /\ fl[i] = "FREE"
  <2>1. F \in SUBSET Nat /\ F # {}
    BY DEF Buffers
  <2> QED
    BY <1>0, <2>1, LowestIsLeast
<1>2. /\ flags' = [fl EXCEPT ![i] = "USED"] /\ blk' = [blk EXCEPT ![i] = b]
      /\ cnt' = [cnt EXCEPT ![i] = 1] /\ data' = [data EXCEPT ![i] = d[b]]
      /\ disk' = d /\ seen' = <<b, d[b]>> /\ hung' = hung
      /\ held' = [held EXCEPT ![i][b] = @ + 1]
  BY <1>0 DEF ReadInto, Hold
<1>3. /\ fl \in [Buffers -> {"FREE", "USED", "MODIFIED"}]
      /\ d \in [Blocks -> Data]
      /\ blk \in [Buffers -> Blocks] /\ cnt \in [Buffers -> Nat]
      /\ data \in [Buffers -> Data]
      /\ held \in [Buffers -> [Blocks -> 0 .. MaxHolds]] /\ hung \in BOOLEAN
  BY DEF Good
<1>4. \A j \in Buffers \ {i} : /\ flags'[j] = fl[j] /\ blk'[j] = blk[j] /\ cnt'[j] = cnt[j]
                               /\ data'[j] = data[j] /\ held'[j] = held[j]
  BY <1>2, <1>3
<1>5. /\ flags'[i] = "USED" /\ blk'[i] = b /\ cnt'[i] = 1 /\ data'[i] = d[b]
      /\ held'[i] = [held[i] EXCEPT ![b] = @ + 1]
  BY <1>1, <1>2, <1>3
<1>6. \A c \in Blocks : held[i][c] = 0
  BY <1>1, <1>3 DEF Good
<1>7. held'[i][b] = 1 /\ \A c \in Blocks \ {b} : held'[i][c] = 0
  BY <1>1, <1>3, <1>5, <1>6
<1>8. Good(flags, disk)'
  <2>1. /\ flags' \in [Buffers -> {"FREE", "USED", "MODIFIED"}]
        /\ disk' \in [Blocks -> Data]
        /\ blk' \in [Buffers -> Blocks] /\ cnt' \in [Buffers -> Nat]
        /\ data' \in [Buffers -> Data] /\ hung' \in BOOLEAN
    BY <1>1, <1>2, <1>3
  <2>2. held' \in [Buffers -> [Blocks -> 0 .. MaxHolds]]
    <3>1. held[i][b] + 1 \in 0 .. MaxHolds
      BY <1>1, <1>6
    <3> QED
      BY <1>1, <1>2, <1>3, <3>1
  <2>3. \A j \in Buffers, c \in Blocks : held'[j][c] > 0 => flags'[j] # "FREE" /\ blk'[j] = c
    <3>1. \A c \in Blocks : held'[i][c] > 0 => c = b
      BY <1>7
    <3> QED
      BY <1>4, <1>5, <3>1 DEF Good
  <2>4. \A j, k \in Buffers : flags'[j] # "FREE" /\ flags'[k] # "FREE" /\ blk'[j] = blk'[k] => j = k
    BY <1>4, <1>5 DEF Good
  <2>5. \A j \in Buffers : /\ flags'[j] # "FREE" => cnt'[j] = held'[j][blk'[j]]
                           /\ flags'[j] = "FREE" => cnt'[j] = 0
    BY <1>4, <1>5, <1>7 DEF Good
  <2> QED
    BY <2>1, <2>2, <2>3, <2>4, <2>5 DEF Good
<1>9. ASSUME NEW c \in Blocks
      PROVE  Content'[c] = ContentOf(fl, d)[c]
  <2>1. Content' = [a \in Blocks |-> IF Cached(a)' = {} THEN disk'[a]
                                     ELSE data'[Lowest(Cached(a)')]]
    BY DEF Content
  <2>2. CASE c = b
    <3>1. Cached(b)' = {i}
      BY <1>1, <1>4, <1>5 DEF Cached
    <3>2. Lowest({i}) = i
      <4>1. {i} \in SUBSET Nat
        BY <1>1 DEF Buffers
      <4> QED
        BY <4>1, LowestIsLeast
    <3>3. Content'[b] = d[b]
      BY <1>5, <2>1, <3>1, <3>2
    <3> QED
      BY <2>2, <3>3, NotCached
  <2>3. CASE c # b
    <3>1. Cached(c)' = CachedIn(fl, c)
      BY <1>1, <1>4, <1>5, <2>3 DEF Cached, CachedIn
    <3>2. CachedIn(fl, c) # {} => Lowest(CachedIn(fl, c)) \in Buffers \ {i}
      <4>1. CachedIn(fl, c) \in SUBSET Nat
        BY DEF CachedIn, Buffers
      <4>2. CachedIn(fl, c) \in SUBSET (Buffers \ {i})
        BY <1>1 DEF CachedIn
      <4> QED
        BY <4>1, <4>2, LowestIsLeast
    <3> QED
      BY <1>2, <1>4, <2>1, <3>1, <3>2 DEF ContentOf
  <2> QED
    BY <2>2, <2>3
<1>10. Content' = ContentOf(fl, d)
  <2>1. Content' = [c \in Blocks |-> Content'[c]]
    BY DEF Content
  <2> QED
    BY <1>9, <2>1 DEF ContentOf
<1>11. ContentOf(fl, d)[b] = d[b]
  BY NotCached
<1>12. ASSUME NEW c \in Blocks
       PROVE  Kept'[c] = KeptOf(fl, d)[c]
  <2>1. Kept' = [a \in Blocks |-> IF Marked(a)' = {} THEN disk'[a]
                                  ELSE data'[Lowest(Marked(a)')]]
    BY DEF Kept
  <2>2. Marked(c)' = MarkedIn(fl, c) /\ i \notin MarkedIn(fl, c)
    BY <1>1, <1>4, <1>5 DEF Marked, MarkedIn
  <2>3. MarkedIn(fl, c) # {} => Lowest(MarkedIn(fl, c)) \in Buffers \ {i}
    <3>1. MarkedIn(fl, c) \in SUBSET Nat /\ MarkedIn(fl, c) \in SUBSET (Buffers \ {i})
      BY <2>2 DEF MarkedIn, Buffers
    <3> QED
      BY <3>1, LowestIsLeast
  <2> QED
    BY <1>2, <1>4, <2>1, <2>2, <2>3 DEF KeptOf
<1>13. Kept' = KeptOf(fl, d)
  <2>1. Kept' = [c \in Blocks |-> Kept'[c]]
    BY DEF Kept
  <2> QED
    BY <1>12, <2>1 DEF KeptOf
<1> QED
  BY <1>2, <1>8, <1>10, <1>11, <1>13, GoodIsInvPrime

\* What one call does to the invariant and to the disk its callers see.
Allowed == CacheInv' /\ (TheDisk!DNext \/ UNCHANGED <<Content, Kept, seen>>)

\* A call that forgets the blocks S and then shows block b, or shows nothing.
LEMMA ForgetAllowed ==
  ASSUME CacheInv', NEW S \in SUBSET Blocks,
         Content' = TheDisk!Forgotten(S), Kept' = Kept,
         seen' = seen \/ \E b \in Blocks : seen' = <<b, TheDisk!Forgotten(S)[b]>>
  PROVE  Allowed
<1>1. TheDisk!Forget(S)
  BY DEF TheDisk!Forget
<1>2. CASE seen' = seen
  BY <1>1, <1>2 DEF Allowed, TheDisk!DNext
<1>3. ASSUME NEW b \in Blocks, seen' = <<b, TheDisk!Forgotten(S)[b]>>
      PROVE  Allowed
  <2>1. TheDisk!Get(b, S)
    BY <1>1, <1>3 DEF TheDisk!Get
  <2> QED
    BY <2>1 DEF Allowed, TheDisk!DNext
<1> QED
  BY <1>2, <1>3

\* A call that forgets nothing.
LEMMA NothingForgotten == TheDisk!Forgotten({}) = Content
BY DEF TheDisk!Forgotten, Content

\* bread shows the content of the block, whichever way it gets it.
LEMMA ReadAllowed ==
  ASSUME CacheInv, NEW b \in Blocks, bread(b)
  PROVE  Allowed
<1>0. /\ Good(flags, disk)
      /\ Content = ContentOf(flags, disk) /\ Kept = KeptOf(flags, disk)
  BY GoodIsInv
<1>1. \A i \in Buffers : held[i][b] < MaxHolds
  BY DEF bread
<1>2. ASSUME CacheInv', Content' = Content, Kept' = Kept, seen' = <<b, Content[b]>>
      PROVE  Allowed
  <2>1. PICK S \in SUBSET Blocks : S = {}
    OBVIOUS
  <2> QED
    BY <1>2, <2>1, NothingForgotten, ForgetAllowed
<1>3. CASE ReadCached(b)
  <2>1. PICK i : i = Lowest(Cached(b))
    OBVIOUS
  <2>2. i \in Buffers /\ flags[i] # "FREE" /\ blk[i] = b
    <3>1. Cached(b) \in SUBSET Nat /\ Cached(b) # {}
      BY <1>3 DEF Cached, Buffers, ReadCached
    <3> QED
      BY <2>1, <3>1, LowestIsLeast DEF Cached
  <2>3. /\ cnt' = [cnt EXCEPT ![i] = @ + 1] /\ seen' = <<b, data[i]>>
        /\ held' = [held EXCEPT ![i][b] = @ + 1]
        /\ UNCHANGED <<flags, blk, data, disk, hung>>
    BY <1>3, <2>1 DEF ReadCached, Hold
  <2>4. Content[b] = data[i]
    BY <1>0, <2>2, CachedOnce
  <2>5. Content' = Content /\ Kept' = Kept
    BY <2>3 DEF Content, Cached, Kept, Marked
  <2>6. Good(flags, disk)'
    <3>1. held[i][b] \in Nat /\ held[i][b] + 1 \in 0 .. MaxHolds /\ cnt[i] = held[i][b]
      BY <1>0, <1>1, <2>2 DEF Good
    <3>2. /\ cnt' \in [Buffers -> Nat] /\ held' \in [Buffers -> [Blocks -> 0 .. MaxHolds]]
          /\ cnt'[i] = held'[i][b]
          /\ \A j \in Buffers \ {i} : cnt'[j] = cnt[j] /\ held'[j] = held[j]
          /\ \A c \in Blocks \ {b} : held'[i][c] = held[i][c]
      BY <1>0, <2>2, <2>3, <3>1 DEF Good
    <3> QED
      BY <1>0, <2>2, <2>3, <3>2 DEF Good
  <2> QED
    BY <1>2, <2>3, <2>4, <2>5, <2>6, GoodIsInvPrime
<1>4. CASE /\ Cached(b) = {} /\ \E i \in Buffers : flags[i] = "FREE"
           /\ ReadInto(b, flags, disk)
  <2>1. \A i \in Buffers : flags[i] # "FREE" => blk[i] # b
    BY <1>4 DEF Cached
  <2> QED
    BY <1>0, <1>1, <1>2, <1>4, <2>1, ReadIntoKeeps
<1>5. CASE /\ Cached(b) = {} /\ Dropped # {} /\ ReadInto(b, FlagsSynced, Synced)
  <2>1. \A i \in Buffers : FlagsSynced[i] # "FREE" => blk[i] # b
    BY <1>5 DEF Cached, FlagsSynced
  <2>2. \E i \in Buffers : FlagsSynced[i] = "FREE"
    BY <1>5 DEF Dropped, FlagsSynced
  <2>3. /\ Good(FlagsSynced, Synced)
        /\ ContentOf(FlagsSynced, Synced) = TheDisk!Forgotten(Forgets)
        /\ KeptOf(FlagsSynced, Synced) = Kept
    BY <1>0, SyncKeeps
  <2>4. /\ CacheInv' /\ Content' = TheDisk!Forgotten(Forgets) /\ Kept' = Kept
        /\ seen' = <<b, TheDisk!Forgotten(Forgets)[b]>>
    BY <1>1, <1>5, <2>1, <2>2, <2>3, ReadIntoKeeps
  <2>5. Forgets \in SUBSET Blocks
    BY DEF Forgets
  <2> QED
    BY <2>4, <2>5, ForgetAllowed
<1>6. CASE hung' = TRUE /\ UNCHANGED <<flags, blk, cnt, data, disk, held, seen>>
  <2>1. CacheInv'
    BY <1>6 DEF CacheInv, CacheTypeOK, HeldStays, OneCopy, CountsHolders
  <2>2. Content' = Content /\ Kept' = Kept
    BY <1>6 DEF Content, Cached, Kept, Marked
  <2> QED
    BY <1>6, <2>1, <2>2 DEF Allowed
<1> QED
  BY <1>3, <1>4, <1>5, <1>6 DEF bread

\* bfree and the loop of a hung bread do not show, and block_sync only forgets.
LEMMA QuietAllowed ==
  ASSUME CacheInv,
         \/ block_sync
         \/ \E i \in Buffers, b \in Blocks : bfree(i, b)
         \/ UNCHANGED vars
  PROVE  Allowed
<1>0. /\ Good(flags, disk)
      /\ Content = ContentOf(flags, disk) /\ Kept = KeptOf(flags, disk)
  BY GoodIsInv
<1>1. CASE block_sync
  <2>1. /\ flags' = FlagsSynced /\ disk' = Synced
        /\ UNCHANGED <<blk, cnt, data, held, seen, hung>>
    BY <1>1 DEF block_sync
  <2>2. /\ Good(FlagsSynced, Synced)
        /\ ContentOf(FlagsSynced, Synced) = TheDisk!Forgotten(Forgets)
        /\ KeptOf(FlagsSynced, Synced) = Kept
    BY <1>0, SyncKeeps
  <2>3. PICK fl, d : fl = FlagsSynced /\ d = Synced
    OBVIOUS
  <2>4. Good(flags, disk)'
    BY <2>1, <2>2, <2>3 DEF Good
  <2>5. Content' = TheDisk!Forgotten(Forgets)
    BY <2>1, <2>2, <2>3 DEF Content, ContentOf, Cached, CachedIn
  <2>6. Kept' = Kept
    <3>1. Kept' = KeptOf(fl, d)
      BY <2>1, <2>3 DEF Kept, KeptOf, Marked, MarkedIn
    <3> QED
      BY <2>2, <2>3, <3>1
  <2>7. Forgets \in SUBSET Blocks
    BY DEF Forgets
  <2> QED
    BY <2>1, <2>4, <2>5, <2>6, <2>7, GoodIsInvPrime, ForgetAllowed
<1>2. ASSUME NEW i \in Buffers, NEW b \in Blocks, bfree(i, b) PROVE Allowed
  <2>1. /\ held[i][b] > 0 /\ cnt' = [cnt EXCEPT ![i] = @ - 1]
        /\ held' = [held EXCEPT ![i][b] = @ - 1]
        /\ UNCHANGED <<flags, blk, data, disk, seen, hung>>
    BY <1>2 DEF bfree
  <2>2. /\ flags[i] # "FREE" /\ blk[i] = b /\ cnt[i] = held[i][b]
        /\ held[i][b] - 1 \in 0 .. MaxHolds
    BY <1>0, <2>1 DEF Good
  <2>3. /\ cnt' \in [Buffers -> Nat] /\ held' \in [Buffers -> [Blocks -> 0 .. MaxHolds]]
        /\ cnt'[i] = held'[i][b]
        /\ \A j \in Buffers \ {i} : cnt'[j] = cnt[j] /\ held'[j] = held[j]
        /\ \A c \in Blocks \ {b} : held'[i][c] = held[i][c]
    BY <1>0, <2>1, <2>2 DEF Good
  <2>4. Good(flags, disk)'
    BY <1>0, <2>1, <2>2, <2>3 DEF Good
  <2>5. Content' = Content /\ Kept' = Kept
    BY <2>1 DEF Content, Cached, Kept, Marked
  <2> QED
    BY <2>1, <2>4, <2>5, GoodIsInvPrime DEF Allowed
<1>3. CASE UNCHANGED vars
  <2>1. CacheInv'
    BY <1>3 DEF vars, CacheInv, CacheTypeOK, HeldStays, OneCopy, CountsHolders
  <2>2. Content' = Content /\ Kept' = Kept /\ seen' = seen
    BY <1>3 DEF vars, Content, Cached, Kept, Marked
  <2> QED
    BY <2>1, <2>2 DEF Allowed
<1> QED
  BY <1>1, <1>2, <1>3

\* A write through a held pointer changes the block it was got for, and only it.
\* A marked write is kept; an unmarked one is kept if the buffer was marked.
LEMMA ModifyAllowed ==
  ASSUME CacheInv, NEW i \in Buffers, NEW b \in Blocks, NEW v \in Data,
         modify(i, b, v) \/ scribble(i, b, v)
  PROVE  Allowed
<1>0. /\ Good(flags, disk)
      /\ Content = ContentOf(flags, disk) /\ Kept = KeptOf(flags, disk)
  BY GoodIsInv
<1>1. /\ held[i][b] > 0 /\ data' = [data EXCEPT ![i] = v]
      /\ flags' = flags \/ flags' = [flags EXCEPT ![i] = "MODIFIED"]
      /\ UNCHANGED <<blk, cnt, disk, held, seen, hung>>
  BY DEF modify, scribble
<1>2. flags[i] # "FREE" /\ blk[i] = b
  BY <1>0, <1>1 DEF Good
<1>3. /\ flags' \in [Buffers -> {"FREE", "USED", "MODIFIED"}] /\ data' \in [Buffers -> Data]
      /\ flags'[i] # "FREE" /\ data'[i] = v
      /\ flags'[i] # "MODIFIED" => flags[i] # "MODIFIED"
      /\ \A j \in Buffers \ {i} : flags'[j] = flags[j] /\ data'[j] = data[j]
  <2>1. /\ flags \in [Buffers -> {"FREE", "USED", "MODIFIED"}] /\ data \in [Buffers -> Data]
    BY <1>0 DEF Good
  <2>2. /\ data' \in [Buffers -> Data] /\ data'[i] = v
        /\ \A j \in Buffers \ {i} : data'[j] = data[j]
    BY <1>1, <2>1
  <2>3. CASE flags' = flags
    BY <1>2, <2>1, <2>2, <2>3
  <2>4. CASE flags' = [flags EXCEPT ![i] = "MODIFIED"]
    BY <1>2, <2>1, <2>2, <2>4
  <2> QED
    BY <1>1, <2>3, <2>4
<1>4. Good(flags, disk)'
  BY <1>0, <1>1, <1>2, <1>3 DEF Good
<1>5. /\ (Content = ContentOf(flags, disk))' /\ (Kept = KeptOf(flags, disk))' /\ CacheInv'
  BY <1>4, GoodIsInvPrime
<1>6. ASSUME NEW c \in Blocks \ {b}
      PROVE  Content'[c] = Content[c] /\ Kept'[c] = Kept[c]
  <2>1. /\ Cached(c)' = Cached(c) /\ Marked(c)' = Marked(c)
        /\ Cached(c) \in SUBSET (Buffers \ {i}) /\ Marked(c) \in SUBSET (Buffers \ {i})
    BY <1>1, <1>2, <1>3 DEF Cached, Marked
  <2>2. \A S \in SUBSET (Buffers \ {i}) : S # {} => Lowest(S) \in Buffers \ {i}
    <3>1. Buffers \ {i} \in SUBSET Nat
      BY DEF Buffers
    <3> QED
      BY <3>1, LowestIsLeast
  <2>3. /\ Content'[c] = IF Cached(c)' = {} THEN disk'[c] ELSE data'[Lowest(Cached(c)')]
        /\ Kept'[c] = IF Marked(c)' = {} THEN disk'[c] ELSE data'[Lowest(Marked(c)')]
    BY DEF Content, Kept
  <2>4. /\ Content[c] = IF Cached(c) = {} THEN disk[c] ELSE data[Lowest(Cached(c))]
        /\ Kept[c] = IF Marked(c) = {} THEN disk[c] ELSE data[Lowest(Marked(c))]
    BY DEF Content, Kept
  <2> QED
    BY <1>1, <1>3, <2>1, <2>2, <2>3, <2>4
<1>7. /\ Content[b] = data[i]
      /\ Kept[b] = IF flags[i] = "MODIFIED" THEN data[i] ELSE disk[b]
  BY <1>0, <1>2, CachedOnce
<1>8. Cached(b)' = {i} /\ Marked(b)' = (IF flags'[i] = "MODIFIED" THEN {i} ELSE {})
  BY <1>0, <1>1, <1>2, <1>3 DEF Cached, Marked, Good
<1>9. Lowest({i}) = i
  <2>1. {i} \in SUBSET Nat
    BY DEF Buffers
  <2> QED
    BY <2>1, LowestIsLeast
<1>10. /\ Content'[b] = v
       /\ Kept'[b] = IF flags'[i] = "MODIFIED" THEN v ELSE disk[b]
  <2>1. /\ Content'[b] = IF Cached(b)' = {} THEN disk'[b] ELSE data'[Lowest(Cached(b)')]
        /\ Kept'[b] = IF Marked(b)' = {} THEN disk'[b] ELSE data'[Lowest(Marked(b)')]
    BY DEF Content, Kept
  <2> QED
    BY <1>1, <1>3, <1>8, <1>9, <2>1
<1>11. /\ Content = [c \in Blocks |-> Content[c]] /\ Content' = [c \in Blocks |-> Content'[c]]
       /\ Kept = [c \in Blocks |-> Kept[c]] /\ Kept' = [c \in Blocks |-> Kept'[c]]
  BY DEF Content, Kept
<1> HIDE DEF Content, Kept
<1>12. Content' = [Content EXCEPT ![b] = v]
  BY <1>6, <1>10, <1>11
<1>13. Kept' = IF flags'[i] = "MODIFIED" THEN [Kept EXCEPT ![b] = v] ELSE Kept
  BY <1>3, <1>6, <1>7, <1>10, <1>11
<1>14. CASE modify(i, b, v)
  <2>1. flags'[i] = "MODIFIED" /\ UNCHANGED seen
    BY <1>0, <1>14 DEF modify, Good
  <2>2. TheDisk!Put(b, v)
    BY <2>1, <1>12, <1>13 DEF TheDisk!Put
  <2> QED
    BY <1>5, <2>2 DEF Allowed, TheDisk!DNext
<1>15. CASE scribble(i, b, v)
  <2>1. flags' = flags /\ UNCHANGED seen
    BY <1>15 DEF scribble
  <2>2. TheDisk!Poke(b, v)
    BY <2>1, <1>7, <1>12, <1>13 DEF TheDisk!Poke
  <2> QED
    BY <1>5, <2>2 DEF Allowed, TheDisk!DNext
<1> QED
  BY <1>14, <1>15

\* Every step of the cache keeps the invariant and is a step of the disk.
LEMMA NextAllowed == CacheInv /\ [Next]_vars => Allowed
<1> SUFFICES ASSUME CacheInv, [Next]_vars PROVE Allowed
  OBVIOUS
<1> QED
  BY ReadAllowed, QuietAllowed, ModifyAllowed DEF Next, spin

\* A fresh cache over a fresh disk.
LEMMA InitAllowed == Init => CacheInv /\ TheDisk!DInit
<1> SUFFICES ASSUME Init PROVE CacheInv /\ TheDisk!DInit
  OBVIOUS
<1>1. CacheInv
  <2>1. /\ \A i \in Buffers : flags[i] = "FREE" /\ cnt[i] = 0
        /\ \A i \in Buffers, b \in Blocks : held[i][b] = 0
    BY DEF Init, block_init
  <2>2. HeldStays /\ OneCopy /\ CountsHolders
    BY <2>1 DEF HeldStays, OneCopy, CountsHolders
  <2>3. /\ flags \in [Buffers -> {"FREE", "USED", "MODIFIED"}]
        /\ blk \in [Buffers -> Blocks]
        /\ cnt \in [Buffers -> Nat]
    BY DEF Init, block_init
  <2>4. data \in [Buffers -> Data] /\ disk \in [Blocks -> Data]
    BY CacheAssumption DEF Init, block_init
  <2>5. held \in [Buffers -> [Blocks -> 0 .. MaxHolds]]
    <3>1. 0 \in 0 .. MaxHolds
      BY CacheAssumption
    <3>2. [b \in Blocks |-> 0] \in [Blocks -> 0 .. MaxHolds]
      BY <3>1
    <3> QED
      BY <3>2, Zenon DEF Init
  <2>6. CacheTypeOK
    BY <2>3, <2>4, <2>5 DEF Init, CacheTypeOK
  <2> QED
    BY <2>2, <2>6 DEF CacheInv
<1>2. \A b \in Blocks : Cached(b) = {}
  BY DEF Init, block_init, Cached
<1>3. Content = [b \in Blocks |-> Blank] /\ Kept = [b \in Blocks |-> Blank]
  <2>1. \A b \in Blocks : Marked(b) = {}
    BY DEF Init, block_init, Marked
  <2> QED
    BY <1>2, <2>1 DEF Init, Content, Kept
<1> QED
  BY <1>1, <1>3 DEF Init, TheDisk!DInit

\* For every cache size: held buffers stay, no block is cached twice and counts
\* match the holders.
THEOREM CacheInvariant == Spec => []CacheInv
<1>1. CacheInv /\ [Next]_vars => CacheInv'
  BY NextAllowed DEF Allowed
<1> QED
  BY <1>1, InitAllowed, PTL DEF Spec

\* A pointer bread returned is never left dangling.
THEOREM HeldBlocksStay == Spec => []HeldStays
<1>1. CacheInv => HeldStays
  BY DEF CacheInv
<1> QED
  BY <1>1, CacheInvariant, PTL

\* The block cache of every size implements the disk of CachedDisk: reads show
\* the last write, and no marked write is lost.
THEOREM CacheIsDisk == Spec => IsDisk
<1>1. CacheInv /\ [Next]_vars => [TheDisk!DNext]_TheDisk!dvars
  BY NextAllowed DEF Allowed, TheDisk!dvars
<1> QED
  BY <1>1, InitAllowed, CacheInvariant, PTL DEF Spec, IsDisk, TheDisk!DSpec

=============================================================================
