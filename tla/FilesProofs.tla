---------------------------- MODULE FilesProofs ----------------------------
(***************************************************************************)
(* For every number of processes, descriptors and FILEs: the counts of the *)
(* FILEs are exact and a descriptor means one file until it is closed, for *)
(* programs that make any of the calls of module Files but dup2 over an    *)
(* open descriptor.                                                        *)
(***************************************************************************)
EXTENDS Files, FirstFitProofs, FiniteSetTheorems, TLAPS

\* Holders and Threads of any processes k with descriptors o.
Named(k, o, x) == {u \in Procs \X Fds : k[u[1]] # "none" /\ o[u[1]][u[2]] = x}
Descs(o, p, x) == {fd \in Fds : o[p][fd] = x}
ThreadsOf(k) == {p \in Procs : k[p] = "thread"}

\* Descriptors o with fd of process p made x.
Point(o, p, fd, x) == [o EXCEPT ![p][fd] = x]

\* The counts r when a child has the descriptors of p in o, and that they stay
\* within MaxRefs.
Copied(r, o, p) == [x \in Places |-> (r[x] + Cardinality(Descs(o, p, x))) % UINT_RANGE]
Few(r, o, p) == \A x \in Places : r[x] + Cardinality(Descs(o, p, x)) <= MaxRefs

\* A count after one reference is gone.
Left(r, x) == (r[x] - 1) % UINT_RANGE

Kinds == {"none", "proc", "thread"}
Tables == [Procs -> [Fds -> Places \cup {NULL}]]
Most == MAXPROC * MAX_FILES_PER_PROC

-----------------------------------------------------------------------------
(* Sizes                                                                   *)

\* The tables are finite, and no more descriptors than there are can hold a FILE.
LEMMA Finite ==
  /\ Most \in Nat
  /\ IsFiniteSet(Procs) /\ IsFiniteSet(Fds) /\ IsFiniteSet(Places)
  /\ Cardinality(Procs) = MAXPROC /\ Cardinality(Fds) = MAX_FILES_PER_PROC
  /\ Cardinality(Places) = MAX_FILES
<1>1. 0 \in Int /\ MAXPROC - 1 \in Int /\ MAX_FILES_PER_PROC - 1 \in Int /\ MAX_FILES - 1 \in Int
  BY FilesAssumption
<1>2. /\ IsFiniteSet(Procs) /\ IsFiniteSet(Fds) /\ IsFiniteSet(Places)
  BY <1>1, FS_Interval DEF Procs, Fds, Places
<1>3. Cardinality(Procs) = MAXPROC
  BY <1>1, FS_Interval, FilesAssumption DEF Procs
<1>4. Cardinality(Fds) = MAX_FILES_PER_PROC
  BY <1>1, FS_Interval, FilesAssumption DEF Fds
<1>5. Cardinality(Places) = MAX_FILES
  BY <1>1, FS_Interval, FilesAssumption DEF Places
<1> QED
  BY <1>2, <1>3, <1>4, <1>5, FilesAssumption DEF Most

LEMMA NamedFinite ==
  ASSUME NEW k, NEW o, NEW x
  PROVE  /\ IsFiniteSet(Named(k, o, x))
         /\ Cardinality(Named(k, o, x)) \in Nat
         /\ Cardinality(Named(k, o, x)) <= Most
<1>1. IsFiniteSet(Procs \X Fds) /\ Cardinality(Procs \X Fds) = Most
  BY Finite, FS_Product DEF Most
<1>2. Named(k, o, x) \in SUBSET (Procs \X Fds)
  BY DEF Named
<1> QED
  BY <1>1, <1>2, FS_Subset, FS_CardinalityType

LEMMA DescsFinite ==
  ASSUME NEW o, NEW p, NEW x
  PROVE  /\ IsFiniteSet(Descs(o, p, x))
         /\ Cardinality(Descs(o, p, x)) \in Nat
         /\ Cardinality(Descs(o, p, x)) <= MAX_FILES_PER_PROC
<1>1. Descs(o, p, x) \in SUBSET Fds
  BY DEF Descs
<1> QED
  BY <1>1, Finite, FS_Subset, FS_CardinalityType

LEMMA ThreadsFinite ==
  ASSUME NEW k
  PROVE  /\ IsFiniteSet(ThreadsOf(k))
         /\ Cardinality(ThreadsOf(k)) \in Nat
         /\ Cardinality(ThreadsOf(k)) <= MAXPROC
         /\ MAX_FILES_PER_PROC * Cardinality(ThreadsOf(k)) \in Nat
         /\ MAX_FILES_PER_PROC * Cardinality(ThreadsOf(k)) <= Most
<1>1. ThreadsOf(k) \in SUBSET Procs
  BY DEF ThreadsOf
<1>2. /\ IsFiniteSet(ThreadsOf(k)) /\ Cardinality(ThreadsOf(k)) \in Nat
      /\ Cardinality(ThreadsOf(k)) <= MAXPROC
  BY <1>1, Finite, FS_Subset, FS_CardinalityType
<1>3. \A m \in Nat, a \in Nat, b \in Nat : a <= b => m * a \in Nat /\ m * a <= b * m
  <2> SUFFICES ASSUME NEW m \in Nat, NEW a \in Nat, NEW b \in Nat, a <= b
               PROVE  m * a \in Nat /\ m * a <= b * m
    OBVIOUS
  <2> QED
    OBVIOUS
<1> QED
  BY <1>2, <1>3, FilesAssumption DEF Most

\* A count that fits an unsigned int is not wrapped.
LEMMA Fits == \A a \in 0 .. UINT_RANGE - 1 : a % UINT_RANGE = a
BY FilesAssumption

-----------------------------------------------------------------------------
(* What the calls do to the holders of a FILE                              *)

\* A descriptor gets a FILE.
LEMMA OneMore ==
  ASSUME NEW k, NEW o \in Tables, NEW p \in Procs, NEW fd \in Fds, NEW x \in Places,
         k[p] # "none", o[p][fd] = NULL
  PROVE  /\ Point(o, p, fd, x) \in Tables
         /\ Cardinality(Named(k, Point(o, p, fd, x), x)) = Cardinality(Named(k, o, x)) + 1
         /\ \A y \in Places \ {x} : Named(k, Point(o, p, fd, x), y) = Named(k, o, y)
<1> DEFINE q == Point(o, p, fd, x)
<1>1. q \in Tables /\ q[p][fd] = x
      /\ \A u \in Procs \X Fds : u # <<p, fd>> => q[u[1]][u[2]] = o[u[1]][u[2]]
  BY DEF Tables, Point
<1>2. NULL \notin Places
  BY DEF NULL, Places
<1> HIDE DEF q
<1>3. Named(k, q, x) = Named(k, o, x) \cup {<<p, fd>>} /\ <<p, fd>> \notin Named(k, o, x)
  BY <1>1, <1>2 DEF Named
<1>4. \A y \in Places \ {x} : Named(k, q, y) = Named(k, o, y)
  BY <1>1, <1>2 DEF Named
<1>5. Cardinality(Named(k, q, x)) = Cardinality(Named(k, o, x)) + 1
  BY <1>3, NamedFinite, FS_AddElement
<1> QED
  BY <1>1, <1>4, <1>5 DEF q

\* A descriptor loses its FILE.
LEMMA OneLess ==
  ASSUME NEW k, NEW o \in Tables, NEW p \in Procs, NEW fd \in Fds, NEW x \in Places,
         k[p] # "none", o[p][fd] = x
  PROVE  /\ Point(o, p, fd, NULL) \in Tables
         /\ Cardinality(Named(k, Point(o, p, fd, NULL), x)) = Cardinality(Named(k, o, x)) - 1
         /\ \A y \in Places \ {x} : Named(k, Point(o, p, fd, NULL), y) = Named(k, o, y)
<1> DEFINE q == Point(o, p, fd, NULL)
<1>1. q \in Tables /\ q[p][fd] = NULL
      /\ \A u \in Procs \X Fds : u # <<p, fd>> => q[u[1]][u[2]] = o[u[1]][u[2]]
  BY DEF Tables, Point
<1>2. NULL \notin Places
  BY DEF NULL, Places
<1> HIDE DEF q
<1>3. Named(k, q, x) = Named(k, o, x) \ {<<p, fd>>} /\ <<p, fd>> \in Named(k, o, x)
  BY <1>1, <1>2 DEF Named
<1>4. \A y \in Places \ {x} : Named(k, q, y) = Named(k, o, y)
  BY <1>1, <1>2 DEF Named
<1>5. Cardinality(Named(k, q, x)) = Cardinality(Named(k, o, x)) - 1
  <2>1. IsFiniteSet(Named(k, o, x))
    BY NamedFinite
  <2>2. Cardinality(Named(k, o, x) \ {<<p, fd>>}) = Cardinality(Named(k, o, x)) - 1
    BY <2>1, <1>3, FS_RemoveElement
  <2> QED
    BY <2>2, <1>3, Zenon
<1> QED
  BY <1>1, <1>4, <1>5 DEF q

\* Process n holds what its descriptors say, and the others hold the rest.
LEMMA Split ==
  ASSUME NEW k, NEW o, NEW j, NEW q, NEW n \in Procs, NEW x,
         j[n] = "none", k[n] # "none",
         \A m \in Procs \ {n} : k[m] = j[m] /\ o[m] = q[m]
  PROVE  Cardinality(Named(k, o, x)) = Cardinality(Named(j, q, x)) + Cardinality(Descs(o, n, x))
<1> DEFINE own == {n} \X Descs(o, n, x)
<1>1. /\ IsFiniteSet(own) /\ Cardinality(own) = Cardinality(Descs(o, n, x))
  <2>1. IsFiniteSet({n}) /\ Cardinality({n}) = 1
    BY FS_Singleton
  <2>2. /\ IsFiniteSet(own)
        /\ Cardinality(own) = Cardinality({n}) * Cardinality(Descs(o, n, x))
    BY <2>1, DescsFinite, FS_Product
  <2> QED
    BY <2>1, <2>2, DescsFinite
<1>2. Named(k, o, x) = Named(j, q, x) \cup own
  BY DEF Named, Descs
<1>3. Named(j, q, x) \cap own = {}
  BY DEF Named, Descs
<1> HIDE DEF own
<1>4. Cardinality(Named(j, q, x) \cup own) = Cardinality(Named(j, q, x)) + Cardinality(own)
  <2>1. Cardinality(Named(j, q, x) \cap own) = 0
    BY <1>3, FS_EmptySet
  <2>2. IsFiniteSet(Named(j, q, x)) /\ Cardinality(Named(j, q, x)) \in Nat
    BY NamedFinite
  <2>3. Cardinality(own) \in Nat
    BY <1>1, FS_CardinalityType
  <2>4. Cardinality(Named(j, q, x) \cup own) =
          Cardinality(Named(j, q, x)) + Cardinality(own) - Cardinality(Named(j, q, x) \cap own)
    BY <1>1, <2>2, FS_Union
  <2> QED
    BY <2>1, <2>2, <2>3, <2>4
<1> QED
  BY <1>1, <1>2, <1>4

-----------------------------------------------------------------------------
(* What the calls do to the whole                                          *)

\* Processes k with descriptors o, the set with marks u and size s, and counts r
\* with l of them lost, are in step.
Sound(k, o, u, s, r, l) ==
  /\ k \in [Procs -> Kinds] /\ o \in Tables /\ u \in SUBSET Places
  /\ r \in [Places -> 0 .. UINT_RANGE - 1] /\ l \in [Places -> Nat]
  /\ s = Cardinality(u)
  /\ \A x \in Places : r[x] = Cardinality(Named(k, o, x)) + l[x]
  /\ \A x \in Places : x \in u <=> r[x] # 0
  /\ \A x \in Places : l[x] + MAX_FILES_PER_PROC * Cardinality(ThreadsOf(k)) <= MaxRefs + Most

\* The counts leave room: what is held and lost never wraps.
LEMMA Room ==
  ASSUME NEW k, NEW o, NEW a \in Nat, NEW x,
         a + MAX_FILES_PER_PROC * Cardinality(ThreadsOf(k)) <= MaxRefs + Most
  PROVE  Cardinality(Named(k, o, x)) + a \in 0 .. UINT_RANGE - 1
<1> DEFINE c == Cardinality(Named(k, o, x))
           t == MAX_FILES_PER_PROC * Cardinality(ThreadsOf(k))
<1>1. c \in Nat /\ c <= Most
  BY NamedFinite
<1>2. t \in Nat /\ a + t <= MaxRefs + Most
  BY ThreadsFinite
<1>3. Most \in Nat /\ MaxRefs + 2 * Most < UINT_RANGE /\ MaxRefs \in Nat /\ UINT_RANGE \in Nat
  BY Finite, FilesAssumption DEF Most
<1> HIDE DEF c, t
<1>4. c + a \in 0 .. UINT_RANGE - 1
  BY <1>1, <1>2, <1>3
<1> QED
  BY <1>4 DEF c

\* A FILE is inserted and a descriptor points to it.
LEMMA OpenSound ==
  ASSUME NEW k, NEW o, NEW u, NEW s, NEW r, NEW l, Sound(k, o, u, s, r, l),
         NEW p \in Procs, NEW fd \in Fds, NEW x \in Places \ u, k[p] # "none", o[p][fd] = NULL
  PROVE  Sound(k, Point(o, p, fd, x), u \cup {x}, s + 1, [r EXCEPT ![x] = 1], l)
<1> DEFINE q == Point(o, p, fd, x)
           v == [r EXCEPT ![x] = 1]
<1>1. /\ q \in Tables /\ Cardinality(Named(k, q, x)) = Cardinality(Named(k, o, x)) + 1
      /\ \A y \in Places \ {x} : Named(k, q, y) = Named(k, o, y)
  BY OneMore DEF Sound
<1> HIDE DEF q
<1>2. Cardinality(Named(k, o, x)) = 0 /\ l[x] = 0
  BY NamedFinite DEF Sound
<1>3. u \cup {x} \in SUBSET Places /\ Cardinality(u \cup {x}) = s + 1
  BY Finite, FS_Subset, FS_AddElement DEF Sound
<1>4. Cardinality(Named(k, q, x)) + l[x] = 1
  BY <1>1, <1>2
<1>5. 1 \in 0 .. UINT_RANGE - 1
  BY <1>4, Room DEF Sound
<1>6. v \in [Places -> 0 .. UINT_RANGE - 1] /\ v[x] = 1 /\ \A y \in Places \ {x} : v[y] = r[y]
  BY <1>5 DEF Sound
<1> HIDE DEF v
<1>7. \A y \in Places : v[y] = Cardinality(Named(k, q, y)) + l[y]
  BY <1>1, <1>4, <1>6 DEF Sound
<1>8. \A y \in Places : y \in u \cup {x} <=> v[y] # 0
  BY <1>6 DEF Sound
<1>9. Sound(k, q, u \cup {x}, s + 1, v, l)
  BY <1>1, <1>3, <1>6, <1>7, <1>8 DEF Sound
<1> QED
  BY <1>9 DEF q, v

\* One more descriptor points to a FILE, and is counted.
LEMMA DupSound ==
  ASSUME NEW k, NEW o, NEW u, NEW s, NEW r, NEW l, Sound(k, o, u, s, r, l),
         NEW p \in Procs, NEW fd \in Fds, NEW old \in Fds,
         k[p] # "none", o[p][fd] = NULL, o[p][old] # NULL
  PROVE  LET x == o[p][old]
         IN Sound(k, Point(o, p, fd, x), u, s, [r EXCEPT ![x] = (@ + 1) % UINT_RANGE], l)
<1>0. PICK x \in Places : x = o[p][old]
  BY DEF Sound, Tables
<1> DEFINE q == Point(o, p, fd, x)
           w == (r[x] + 1) % UINT_RANGE
           v == [r EXCEPT ![x] = w]
<1>1. /\ q \in Tables /\ Cardinality(Named(k, q, x)) = Cardinality(Named(k, o, x)) + 1
      /\ \A y \in Places \ {x} : Named(k, q, y) = Named(k, o, y)
  BY OneMore DEF Sound
<1> HIDE DEF q
<1>2. Cardinality(Named(k, q, x)) + l[x] = r[x] + 1 /\ r[x] + 1 # 0
  BY <1>1, NamedFinite, FilesAssumption DEF Sound
<1>3. r[x] + 1 \in 0 .. UINT_RANGE - 1
  BY <1>2, Room DEF Sound
<1>4. w = r[x] + 1 /\ w \in 0 .. UINT_RANGE - 1
  BY <1>3, Fits
<1> HIDE DEF w
<1>6. v \in [Places -> 0 .. UINT_RANGE - 1] /\ v[x] = w /\ \A y \in Places \ {x} : v[y] = r[y]
  BY <1>4 DEF Sound
<1> HIDE DEF v
<1>7. \A y \in Places : v[y] = Cardinality(Named(k, q, y)) + l[y]
  BY <1>1, <1>2, <1>4, <1>6 DEF Sound
<1>8. x \in u
  <2>1. <<p, old>> \in Named(k, o, x)
    BY <1>0 DEF Named
  <2>2. Cardinality(Named(k, o, x)) # 0
    BY <2>1, NamedFinite, FS_EmptySet
  <2> QED
    BY <2>2, NamedFinite DEF Sound
<1>9. \A y \in Places : y \in u <=> v[y] # 0
  BY <1>2, <1>4, <1>6, <1>8 DEF Sound
<1>10. Sound(k, q, u, s, v, l)
  BY <1>1, <1>6, <1>7, <1>9 DEF Sound
<1> QED
  BY <1>0, <1>10 DEF q, v, w

\* A descriptor is closed; the FILE goes with its last reference.
LEMMA CloseSound ==
  ASSUME NEW k, NEW o, NEW u, NEW s, NEW r, NEW l, Sound(k, o, u, s, r, l),
         NEW p \in Procs, NEW fd \in Fds, NEW x \in Places, k[p] # "none", o[p][fd] = x
  PROVE  Sound(k, Point(o, p, fd, NULL), IF Left(r, x) # 0 THEN u ELSE u \ {x},
               IF Left(r, x) # 0 THEN s ELSE (s - 1) % UINT_RANGE, [r EXCEPT ![x] = Left(r, x)], l)
<1> DEFINE q == Point(o, p, fd, NULL)
           left == Left(r, x)
           v == [r EXCEPT ![x] = left]
           m == IF left # 0 THEN u ELSE u \ {x}
           n == IF left # 0 THEN s ELSE (s - 1) % UINT_RANGE
<1>1. /\ q \in Tables /\ Cardinality(Named(k, q, x)) = Cardinality(Named(k, o, x)) - 1
      /\ \A y \in Places \ {x} : Named(k, q, y) = Named(k, o, y)
  BY OneLess DEF Sound
<1> HIDE DEF q
<1>2. Cardinality(Named(k, q, x)) + l[x] = r[x] - 1 /\ r[x] # 0
  BY <1>1, NamedFinite DEF Sound
<1>3. r[x] - 1 \in 0 .. UINT_RANGE - 1
  BY <1>2, Room DEF Sound
<1>4. left = r[x] - 1 /\ left \in 0 .. UINT_RANGE - 1
  BY <1>3, Fits DEF Left
<1> HIDE DEF left
<1>5. v \in [Places -> 0 .. UINT_RANGE - 1] /\ v[x] = left /\ \A y \in Places \ {x} : v[y] = r[y]
  BY <1>4 DEF Sound
<1> HIDE DEF v
<1>6. \A y \in Places : v[y] = Cardinality(Named(k, q, y)) + l[y]
  BY <1>1, <1>2, <1>4, <1>5 DEF Sound
<1>7. x \in u
  BY <1>2 DEF Sound
<1>8. \A y \in Places : y \in m <=> v[y] # 0
  BY <1>5, <1>7 DEF Sound
<1>9. m \in SUBSET Places /\ n = Cardinality(m)
  <2>1. IsFiniteSet(u) /\ s = Cardinality(u) /\ s \in Nat /\ s <= MAX_FILES /\ s # 0
    BY <1>7, Finite, FS_Subset, FS_CardinalityType, FS_EmptySet DEF Sound
  <2>2. Cardinality(u \ {x}) = s - 1
    BY <1>7, <2>1, FS_RemoveElement
  <2>3. (s - 1) % UINT_RANGE = s - 1
    <3>1. s - 1 \in 0 .. UINT_RANGE - 1
      BY <2>1, FilesAssumption
    <3> QED
      BY <3>1, Fits
  <2> QED
    BY <2>1, <2>2, <2>3 DEF Sound
<1> HIDE DEF m, n
<1>10. Sound(k, q, m, n, v, l)
  BY <1>1, <1>5, <1>6, <1>8, <1>9 DEF Sound
<1> QED
  BY <1>10 DEF q, v, m, n, left

\* dup2 counts a reference that nobody has.
LEMMA LoseSound ==
  ASSUME NEW k, NEW o, NEW u, NEW s, NEW r, NEW l, Sound(k, o, u, s, r, l),
         NEW p \in Procs, NEW fd \in Fds, NEW x \in Places, k[p] # "none", o[p][fd] = x,
         r[x] < MaxRefs
  PROVE  Sound(k, o, u, s, [r EXCEPT ![x] = (@ + 1) % UINT_RANGE], [l EXCEPT ![x] = @ + 1])
<1> DEFINE w == (r[x] + 1) % UINT_RANGE
           v == [r EXCEPT ![x] = w]
           g == [l EXCEPT ![x] = @ + 1]
<1>1. /\ g \in [Places -> Nat] /\ g[x] = l[x] + 1 /\ \A y \in Places \ {x} : g[y] = l[y]
  BY DEF Sound
<1> HIDE DEF g
<1>2. /\ r[x] = Cardinality(Named(k, o, x)) + l[x]
      /\ Cardinality(Named(k, o, x)) \in Nat /\ l[x] \in Nat
  BY NamedFinite DEF Sound
<1>3. \A y \in Places :
        g[y] + MAX_FILES_PER_PROC * Cardinality(ThreadsOf(k)) <= MaxRefs + Most
  <2> DEFINE t == MAX_FILES_PER_PROC * Cardinality(ThreadsOf(k))
  <2>1. t \in Nat /\ t <= Most
    BY ThreadsFinite
  <2>2. \A y \in Places : l[y] + t <= MaxRefs + Most
    BY DEF Sound
  <2> HIDE DEF t
  <2>3. g[x] + t <= MaxRefs + Most
    BY <1>1, <1>2, <2>1, Finite, FilesAssumption
  <2>4. \A y \in Places : g[y] + t <= MaxRefs + Most
    BY <1>1, <2>2, <2>3
  <2> QED
    BY <2>4 DEF t
<1>4. r[x] + 1 = Cardinality(Named(k, o, x)) + g[x]
  BY <1>1, <1>2
<1>5. r[x] + 1 \in 0 .. UINT_RANGE - 1
  BY <1>1, <1>3, <1>4, Room
<1>6. w = r[x] + 1 /\ w \in 0 .. UINT_RANGE - 1
  BY <1>5, Fits
<1> HIDE DEF w
<1>7. v \in [Places -> 0 .. UINT_RANGE - 1] /\ v[x] = w /\ \A y \in Places \ {x} : v[y] = r[y]
  BY <1>6 DEF Sound
<1> HIDE DEF v
<1>8. \A y \in Places : v[y] = Cardinality(Named(k, o, y)) + g[y]
  BY <1>1, <1>4, <1>6, <1>7 DEF Sound
<1>9. r[x] # 0
  <2>1. <<p, fd>> \in Named(k, o, x)
    BY DEF Named
  <2> QED
    BY <1>2, <2>1, NamedFinite, FS_EmptySet
<1>10. \A y \in Places : y \in u <=> v[y] # 0
  BY <1>2, <1>6, <1>7, <1>9 DEF Sound
<1>11. Sound(k, o, u, s, v, g)
  BY <1>1, <1>3, <1>7, <1>8, <1>10 DEF Sound
<1> QED
  BY <1>11 DEF v, g, w

\* A child with the parent's descriptors, all counted.
LEMMA ForkSound ==
  ASSUME NEW k, NEW o, NEW u, NEW s, NEW r, NEW l, Sound(k, o, u, s, r, l),
         NEW p \in Procs, NEW n \in Procs, k[p] # "none", k[n] = "none",
         NEW child \in {"proc", "thread"},
         child = "thread" => Few(r, o, p)
  PROVE  Sound([k EXCEPT ![n] = child], [o EXCEPT ![n] = o[p]], u, s, Copied(r, o, p), l)
<1> DEFINE j == [k EXCEPT ![n] = child]
           q == [o EXCEPT ![n] = o[p]]
           v == Copied(r, o, p)
<1>1. /\ j \in [Procs -> Kinds] /\ j[n] = child /\ child # "none"
      /\ q \in Tables /\ q[n] = o[p] /\ p # n
      /\ \A m \in Procs \ {n} : j[m] = k[m] /\ q[m] = o[m]
  BY DEF Sound, Tables, Kinds
<1> HIDE DEF j, q
<1>2. \A x \in Places :
        Cardinality(Named(j, q, x)) = Cardinality(Named(k, o, x)) + Cardinality(Descs(o, p, x))
  <2> SUFFICES ASSUME NEW x \in Places
               PROVE  Cardinality(Named(j, q, x)) =
                        Cardinality(Named(k, o, x)) + Cardinality(Descs(o, p, x))
    OBVIOUS
  <2>1. Descs(q, n, x) = Descs(o, p, x)
    BY <1>1 DEF Descs
  <2>2. k[n] = "none" /\ j[n] # "none" /\ \A m \in Procs \ {n} : j[m] = k[m] /\ q[m] = o[m]
    BY <1>1
  <2>3. Cardinality(Named(j, q, x)) =
          Cardinality(Named(k, o, x)) + Cardinality(Descs(q, n, x))
    <3>1. \A a, b : a[n] # "none" /\ (\A m \in Procs \ {n} : a[m] = k[m] /\ b[m] = o[m])
            => Cardinality(Named(a, b, x)) =
                 Cardinality(Named(k, o, x)) + Cardinality(Descs(b, n, x))
      BY <2>2, Split
    <3> QED
      BY <2>2, <3>1
  <2> QED
    BY <2>1, <2>3
<1>3. \A x \in Places : l[x] + MAX_FILES_PER_PROC * Cardinality(ThreadsOf(j)) <= MaxRefs + Most
  <2>1. CASE child = "proc"
    <3>1. ThreadsOf(j) = ThreadsOf(k)
      BY <1>1, <2>1 DEF ThreadsOf
    <3> QED
      BY <3>1 DEF Sound
  <2>2. CASE child = "thread"
    <3> DEFINE t == MAX_FILES_PER_PROC * Cardinality(ThreadsOf(j))
    <3>1. t \in Nat /\ t <= Most
      BY ThreadsFinite
    <3>2. \A x \in Places : l[x] \in Nat /\ l[x] <= MaxRefs
      <4> SUFFICES ASSUME NEW x \in Places PROVE l[x] \in Nat /\ l[x] <= MaxRefs
        OBVIOUS
      <4>1. r[x] + Cardinality(Descs(o, p, x)) <= MaxRefs
        BY <2>2 DEF Few
      <4>2. r[x] = Cardinality(Named(k, o, x)) + l[x] /\ l[x] \in Nat
        BY DEF Sound
      <4> QED
        BY <4>1, <4>2, NamedFinite, DescsFinite, FilesAssumption
    <3> HIDE DEF t
    <3>3. \A x \in Places : l[x] + t <= MaxRefs + Most
      BY <3>1, <3>2, Finite, FilesAssumption
    <3> QED
      BY <3>3 DEF t
  <2> QED
    BY <2>1, <2>2
<1>4. \A x \in Places : /\ v[x] = Cardinality(Named(j, q, x)) + l[x]
                        /\ v[x] \in 0 .. UINT_RANGE - 1
  <2> SUFFICES ASSUME NEW x \in Places
               PROVE  /\ v[x] = Cardinality(Named(j, q, x)) + l[x]
                      /\ v[x] \in 0 .. UINT_RANGE - 1
    OBVIOUS
  <2>1. r[x] + Cardinality(Descs(o, p, x)) = Cardinality(Named(j, q, x)) + l[x]
    BY <1>2, NamedFinite, DescsFinite DEF Sound
  <2>2. l[x] \in Nat
    BY DEF Sound
  <2>3. Cardinality(Named(j, q, x)) + l[x] \in 0 .. UINT_RANGE - 1
    BY <1>3, <2>2, Room
  <2> QED
    BY <2>1, <2>3, Fits DEF Copied
<1>5. v \in [Places -> 0 .. UINT_RANGE - 1]
  BY <1>4 DEF Copied
<1> HIDE DEF v
<1>6. \A x \in Places : x \in u <=> v[x] # 0
  <2> SUFFICES ASSUME NEW x \in Places PROVE x \in u <=> v[x] # 0
    OBVIOUS
  <2>1. v[x] = r[x] + Cardinality(Descs(o, p, x))
    BY <1>2, <1>4, NamedFinite, DescsFinite DEF Sound
  <2>2. Cardinality(Descs(o, p, x)) # 0 => r[x] # 0
    <3> SUFFICES ASSUME Cardinality(Descs(o, p, x)) # 0 PROVE r[x] # 0
      OBVIOUS
    <3>1. PICK fd \in Fds : o[p][fd] = x
      BY DescsFinite, FS_EmptySet DEF Descs
    <3>2. <<p, fd>> \in Named(k, o, x)
      BY <3>1 DEF Named
    <3>3. Cardinality(Named(k, o, x)) # 0
      BY <3>2, NamedFinite, FS_EmptySet
    <3> QED
      BY <3>3, NamedFinite DEF Sound
  <2>3. r[x] \in Nat /\ Cardinality(Descs(o, p, x)) \in Nat
    BY DescsFinite DEF Sound
  <2> QED
    BY <2>1, <2>2, <2>3 DEF Sound
<1>7. Sound(j, q, u, s, v, l)
  BY <1>1, <1>3, <1>4, <1>5, <1>6 DEF Sound
<1> QED
  BY <1>7 DEF j, q, v

\* What a process that goes away held.
LEMMA Gone ==
  ASSUME NEW k \in [Procs -> Kinds], NEW o \in Tables, NEW q \in Tables,
         NEW p \in Procs, k[p] # "none", \A m \in Procs \ {p} : q[m] = o[m]
  PROVE  \A x \in Places :
           Cardinality(Named(k, o, x)) =
             Cardinality(Named([k EXCEPT ![p] = "none"], q, x)) + Cardinality(Descs(o, p, x))
<1> DEFINE j == [k EXCEPT ![p] = "none"]
<1>1. j[p] = "none" /\ \A m \in Procs \ {p} : k[m] = j[m] /\ o[m] = q[m]
  OBVIOUS
<1> HIDE DEF j
<1>2. \A x \in Places :
        Cardinality(Named(k, o, x)) = Cardinality(Named(j, q, x)) + Cardinality(Descs(o, p, x))
  <2> SUFFICES ASSUME NEW x \in Places
               PROVE  Cardinality(Named(k, o, x)) =
                        Cardinality(Named(j, q, x)) + Cardinality(Descs(o, p, x))
    OBVIOUS
  <2>1. ASSUME NEW a, NEW b, a[p] = "none", \A m \in Procs \ {p} : k[m] = a[m] /\ o[m] = b[m]
        PROVE  Cardinality(Named(k, o, x)) =
                 Cardinality(Named(a, b, x)) + Cardinality(Descs(o, p, x))
    <3>1. k[p] # "none" /\ a[p] = "none" /\ \A m \in Procs \ {p} : k[m] = a[m] /\ o[m] = b[m]
      BY <2>1
    <3> QED
      BY <3>1, Split
  <2> QED
    BY <1>1, <2>1
<1> QED
  BY <1>2 DEF j

\* A thread exits: what its descriptors counted is lost.
LEMMA ThreadExitSound ==
  ASSUME NEW k, NEW o, NEW u, NEW s, NEW r, NEW l, Sound(k, o, u, s, r, l),
         NEW p \in Procs, k[p] = "thread"
  PROVE  Sound([k EXCEPT ![p] = "none"], o, u, s, r,
               [x \in Places |-> l[x] + Cardinality(Descs(o, p, x))])
<1> DEFINE j == [k EXCEPT ![p] = "none"]
           g == [x \in Places |-> l[x] + Cardinality(Descs(o, p, x))]
<1>1. j \in [Procs -> Kinds] /\ j[p] = "none" /\ \A m \in Procs \ {p} : j[m] = k[m]
  BY DEF Sound, Kinds
<1>2. \A x \in Places :
        Cardinality(Named(k, o, x)) = Cardinality(Named(j, o, x)) + Cardinality(Descs(o, p, x))
  BY Gone DEF Sound
<1> HIDE DEF j
<1>3. /\ g \in [Places -> Nat]
      /\ \A x \in Places : g[x] = l[x] + Cardinality(Descs(o, p, x))
  BY DescsFinite DEF Sound
<1> HIDE DEF g
<1>4. \A x \in Places : r[x] = Cardinality(Named(j, o, x)) + g[x]
  <2> SUFFICES ASSUME NEW x \in Places PROVE r[x] = Cardinality(Named(j, o, x)) + g[x]
    OBVIOUS
  <2>1. /\ r[x] = Cardinality(Named(k, o, x)) + l[x] /\ l[x] \in Nat
        /\ Cardinality(Named(j, o, x)) \in Nat /\ Cardinality(Descs(o, p, x)) \in Nat
    BY NamedFinite, DescsFinite DEF Sound
  <2> QED
    BY <1>2, <1>3, <2>1
<1>5. Cardinality(ThreadsOf(k)) = Cardinality(ThreadsOf(j)) + 1
  <2>1. ThreadsOf(j) = ThreadsOf(k) \ {p} /\ p \in ThreadsOf(k)
    BY <1>1 DEF ThreadsOf
  <2>2. Cardinality(ThreadsOf(k) \ {p}) = Cardinality(ThreadsOf(k)) - 1
    BY <2>1, ThreadsFinite, FS_RemoveElement
  <2> QED
    BY <2>1, <2>2, ThreadsFinite
<1>6. \A x \in Places : g[x] + MAX_FILES_PER_PROC * Cardinality(ThreadsOf(j)) <= MaxRefs + Most
  <2> SUFFICES ASSUME NEW x \in Places
               PROVE  g[x] + MAX_FILES_PER_PROC * Cardinality(ThreadsOf(j)) <= MaxRefs + Most
    OBVIOUS
  <2> DEFINE a == MAX_FILES_PER_PROC * Cardinality(ThreadsOf(k))
             b == MAX_FILES_PER_PROC * Cardinality(ThreadsOf(j))
  <2>1. a = b + MAX_FILES_PER_PROC
    <3>1. \A m \in Nat, c \in Nat : m * (c + 1) = m * c + m
      OBVIOUS
    <3> QED
      BY <1>5, <3>1, ThreadsFinite, FilesAssumption
  <2>2. /\ b \in Nat /\ l[x] + a <= MaxRefs + Most /\ l[x] \in Nat
        /\ g[x] = l[x] + Cardinality(Descs(o, p, x))
        /\ Cardinality(Descs(o, p, x)) \in Nat
        /\ Cardinality(Descs(o, p, x)) <= MAX_FILES_PER_PROC
    BY <1>3, ThreadsFinite, DescsFinite DEF Sound
  <2> HIDE DEF a, b
  <2>3. g[x] + b <= MaxRefs + Most
    BY <2>1, <2>2, Finite, FilesAssumption
  <2> QED
    BY <2>3 DEF b
<1>7. Sound(j, o, u, s, r, g)
  BY <1>1, <1>3, <1>4, <1>6 DEF Sound
<1> QED
  BY <1>7 DEF j, g

\* A process exits and closes its descriptors.
LEMMA ProcExitSound ==
  ASSUME NEW k, NEW o, NEW u, NEW s, NEW r, NEW l, Sound(k, o, u, s, r, l),
         NEW p \in Procs, k[p] = "proc"
  PROVE  LET gone == {x \in Places : r[x] \in 1 .. Cardinality(Descs(o, p, x))}
         IN Sound([k EXCEPT ![p] = "none"], [o EXCEPT ![p] = [fd \in Fds |-> NULL]], u \ gone,
                  (s - Cardinality(gone)) % UINT_RANGE,
                  [x \in Places |-> (r[x] - Cardinality(Descs(o, p, x))) % UINT_RANGE], l)
<1> DEFINE j == [k EXCEPT ![p] = "none"]
           q == [o EXCEPT ![p] = [fd \in Fds |-> NULL]]
           gone == {x \in Places : r[x] \in 1 .. Cardinality(Descs(o, p, x))}
           v == [x \in Places |-> (r[x] - Cardinality(Descs(o, p, x))) % UINT_RANGE]
           n == (s - Cardinality(gone)) % UINT_RANGE
<1>1. /\ j \in [Procs -> Kinds] /\ j[p] = "none" /\ q \in Tables
      /\ \A m \in Procs \ {p} : j[m] = k[m] /\ q[m] = o[m]
  BY DEF Sound, Kinds, Tables
<1> HIDE DEF q
<1>2. \A x \in Places :
        Cardinality(Named(k, o, x)) = Cardinality(Named(j, q, x)) + Cardinality(Descs(o, p, x))
  <2>1. \A b \in Tables : (\A m \in Procs \ {p} : b[m] = o[m]) => \A x \in Places :
          Cardinality(Named(k, o, x)) = Cardinality(Named(j, b, x)) + Cardinality(Descs(o, p, x))
    BY Gone DEF Sound
  <2> HIDE DEF j
  <2> QED
    BY <1>1, <2>1
<1> HIDE DEF j
<1>3. ThreadsOf(j) = ThreadsOf(k)
  BY <1>1 DEF ThreadsOf
<1>4. \A x \in Places : l[x] + MAX_FILES_PER_PROC * Cardinality(ThreadsOf(j)) <= MaxRefs + Most
  BY <1>3 DEF Sound
<1>5. \A x \in Places : /\ v[x] = Cardinality(Named(j, q, x)) + l[x]
                        /\ v[x] \in 0 .. UINT_RANGE - 1
                        /\ r[x] = v[x] + Cardinality(Descs(o, p, x))
  <2> SUFFICES ASSUME NEW x \in Places
               PROVE  /\ v[x] = Cardinality(Named(j, q, x)) + l[x]
                      /\ v[x] \in 0 .. UINT_RANGE - 1
                      /\ r[x] = v[x] + Cardinality(Descs(o, p, x))
    OBVIOUS
  <2>1. /\ r[x] = Cardinality(Named(k, o, x)) + l[x] /\ l[x] \in Nat
        /\ Cardinality(Named(j, q, x)) \in Nat /\ Cardinality(Descs(o, p, x)) \in Nat
    BY NamedFinite, DescsFinite DEF Sound
  <2>2. r[x] - Cardinality(Descs(o, p, x)) = Cardinality(Named(j, q, x)) + l[x]
    BY <1>2, <2>1
  <2>3. Cardinality(Named(j, q, x)) + l[x] \in 0 .. UINT_RANGE - 1
    BY <1>4, <2>1, Room
  <2>4. v[x] = Cardinality(Named(j, q, x)) + l[x]
    BY <2>2, <2>3, Fits
  <2> QED
    BY <1>2, <2>1, <2>3, <2>4
<1>6. v \in [Places -> 0 .. UINT_RANGE - 1]
  BY <1>5
<1> HIDE DEF v
<1>7. \A x \in Places : x \in u \ gone <=> v[x] # 0
  <2> SUFFICES ASSUME NEW x \in Places PROVE x \in u \ gone <=> v[x] # 0
    OBVIOUS
  <2>1. v[x] \in Nat /\ Cardinality(Descs(o, p, x)) \in Nat
        /\ r[x] = v[x] + Cardinality(Descs(o, p, x)) /\ (x \in u <=> r[x] # 0)
    BY <1>5, DescsFinite DEF Sound
  <2> QED
    BY <2>1
<1>8. n = Cardinality(u \ gone)
  <2>1. gone \subseteq u
    BY DescsFinite DEF Sound
  <2>2. u \cap gone = gone
    BY <2>1
  <2> HIDE DEF gone
  <2>3. IsFiniteSet(u) /\ s = Cardinality(u) /\ s \in Nat /\ s <= MAX_FILES
    BY Finite, FS_Subset, FS_CardinalityType DEF Sound
  <2>4. Cardinality(u \ gone) = s - Cardinality(gone)
    <3>1. Cardinality(u \ gone) = Cardinality(u) - Cardinality(u \cap gone)
      BY <2>3, FS_Difference
    <3> QED
      BY <3>1, <2>2, <2>3, Zenon
  <2>5. IsFiniteSet(u \ gone) /\ Cardinality(u \ gone) \in Nat /\ Cardinality(u \ gone) <= s
    BY <2>3, FS_Subset, FS_CardinalityType
  <2>6. s - Cardinality(gone) \in 0 .. UINT_RANGE - 1
    BY <2>3, <2>4, <2>5, FilesAssumption
  <2> QED
    BY <2>4, <2>6, Fits
<1>9. u \ gone \in SUBSET Places
  BY DEF Sound
<1> HIDE DEF gone, n
<1>10. Sound(j, q, u \ gone, n, v, l)
  BY <1>1, <1>4, <1>5, <1>6, <1>7, <1>8, <1>9 DEF Sound
<1> QED
  BY <1>10 DEF j, q, v, gone, n

-----------------------------------------------------------------------------
(* The operations on the set, field by field                               *)

IsRec(f) ==
  f = [openFiles |-> f.openFiles, used |-> f.used, size |-> f.size,
       refcnt |-> f.refcnt, node |-> f.node, halted |-> f.halted]

\* The six fields of a state f.
Fields(f, o, u, s, r, n, h) ==
  /\ f.openFiles = o /\ f.used = u /\ f.size = s
  /\ f.refcnt = r /\ f.node = n /\ f.halted = h

\* f with descriptor fd of process p made x.
PointTo(f, p, fd, x) == [f EXCEPT !.openFiles[p][fd] = x]

\* fs_open: the first free place, with one reference, or the panic.
LEMMA OpenIs ==
  ASSUME NEW f, NEW v, IsRec(f)
  PROVE  /\ IsRec(fs_open(f, v))
         /\ InsertPanic(f) # "no" =>
              Fields(fs_open(f, v), f.openFiles, f.used, f.size, f.refcnt, f.node,
                     InsertPanic(f))
         /\ InsertPanic(f) = "no" =>
              Fields(fs_open(f, v), f.openFiles, f.used \cup {Lowest(FreePlaces(f))},
                     f.size + 1, [f.refcnt EXCEPT ![Lowest(FreePlaces(f))] = 1],
                     [f.node EXCEPT ![Lowest(FreePlaces(f))] = v], f.halted)
<1>1. CASE InsertPanic(f) # "no"
  <2>1. fs_open(f, v) = [f EXCEPT !.halted = InsertPanic(f)]
    BY <1>1 DEF fs_open
  <2> QED
    BY <1>1, <2>1 DEF IsRec, Fields
<1>2. CASE InsertPanic(f) = "no"
  <2>1. PICK a, b, c, d : /\ a = f.used \cup {Lowest(FreePlaces(f))} /\ b = f.size + 1
                          /\ c = [f.refcnt EXCEPT ![Lowest(FreePlaces(f))] = 1]
                          /\ d = [f.node EXCEPT ![Lowest(FreePlaces(f))] = v]
    OBVIOUS
  <2>2. fs_open(f, v) = [f EXCEPT !.used = a, !.size = b, !.refcnt = c, !.node = d]
    <3>1. fs_open(f, v) = [f EXCEPT !.used = f.used \cup {Lowest(FreePlaces(f))},
                                    !.size = f.size + 1,
                                    !.refcnt = [f.refcnt EXCEPT ![Lowest(FreePlaces(f))] = 1],
                                    !.node = [f.node EXCEPT ![Lowest(FreePlaces(f))] = v]]
      BY <1>2 DEF fs_open
    <3> QED
      BY <2>1, <3>1, Zenon
  <2>3. IsRec(fs_open(f, v)) /\ Fields(fs_open(f, v), f.openFiles, a, b, c, d, f.halted)
    BY <2>2 DEF IsRec, Fields
  <2> QED
    BY <1>2, <2>1, <2>3
<1> QED
  BY <1>1, <1>2

\* k_close: one reference less, and the place free after the last.
LEMMA CloseIs ==
  ASSUME NEW f, NEW x, IsRec(f)
  PROVE  /\ IsRec(k_close(f, x))
         /\ Fields(k_close(f, x), f.openFiles,
                   IF Left(f.refcnt, x) # 0 THEN f.used ELSE f.used \ {x},
                   IF Left(f.refcnt, x) # 0 THEN f.size ELSE (f.size - 1) % UINT_RANGE,
                   [f.refcnt EXCEPT ![x] = Left(f.refcnt, x)], f.node, f.halted)
<1> DEFINE left == Left(f.refcnt, x)
<1>0. PICK a, b, c : a = f.used \ {x} /\ b = (f.size - 1) % UINT_RANGE
                     /\ c = [f.refcnt EXCEPT ![x] = left]
  OBVIOUS
<1>2. CASE left # 0
  <2>1. k_close(f, x) = [f EXCEPT !.refcnt = c]
    BY <1>0, <1>2 DEF k_close, Left
  <2> QED
    BY <1>0, <1>2, <2>1 DEF IsRec, Fields
<1>3. CASE left = 0
  <2>1. k_close(f, x) = [f EXCEPT !.refcnt = c, !.used = a, !.size = b]
    <3>1. k_close(f, x) = [f EXCEPT !.refcnt = [f.refcnt EXCEPT ![x] = left],
                                    !.used = f.used \ {x}, !.size = (f.size - 1) % UINT_RANGE]
      BY <1>3 DEF k_close, Left
    <3> QED
      BY <1>0, <3>1, Zenon
  <2>2. IsRec(k_close(f, x)) /\ Fields(k_close(f, x), f.openFiles, a, b, c, f.node, f.halted)
    BY <2>1 DEF IsRec, Fields
  <2> QED
    BY <1>0, <1>3, <2>2
<1> QED
  BY <1>2, <1>3

\* A descriptor gets a FILE, or none.
LEMMA PointIs ==
  ASSUME NEW f, NEW p, NEW fd, NEW x, IsRec(f)
  PROVE  /\ IsRec(PointTo(f, p, fd, x))
         /\ Fields(PointTo(f, p, fd, x), Point(f.openFiles, p, fd, x), f.used, f.size,
                   f.refcnt, f.node, f.halted)
<1>1. PICK a : a = Point(f.openFiles, p, fd, x)
  OBVIOUS
<1>2. PointTo(f, p, fd, x) = [f EXCEPT !.openFiles = a]
  BY <1>1 DEF PointTo, Point
<1> QED
  BY <1>1, <1>2 DEF IsRec, Fields

\* The state an operation starts from, and the one it leaves.
LEMMA NowIs == IsRec(Now) /\ Fields(Now, openFiles, used, size, refcnt, node, halted)
BY DEF Now, IsRec, Fields

\* set_insert: a set in step is never corrupt, and has a place unless it is full.
LEMMA Insert ==
  ASSUME NEW f, f.used \in SUBSET Places, f.size = Cardinality(f.used)
  PROVE  /\ InsertPanic(f) \in {"no", "overflow"}
         /\ InsertPanic(f) = "no" => Lowest(FreePlaces(f)) \in Places \ f.used
<1> DEFINE u == f.used
<1>1. u \in SUBSET Places /\ f.used = u /\ f.size = Cardinality(u)
  OBVIOUS
<1> HIDE DEF u
<1>2. FreePlaces(f) = Places \ u
  BY <1>1 DEF FreePlaces
<1>3. CASE Full(f)
  BY <1>3 DEF InsertPanic
<1>4. CASE ~Full(f)
  <2>1. Cardinality(u) < MAX_FILES
    <3>1. Cardinality(u) \in Nat
      BY <1>1, Finite, FS_Subset, FS_CardinalityType
    <3> QED
      BY <1>1, <1>4, <3>1, FilesAssumption DEF Full
  <2>2. Places \ u # {}
    <3>1. Places \ u = {} => u = Places
      BY <1>1
    <3> QED
      BY <1>1, <2>1, <3>1, Finite, FilesAssumption
  <2>3. Places \ u \in SUBSET Nat
    BY FilesAssumption DEF Places
  <2>4. Lowest(Places \ u) \in Places \ u
    BY <2>2, <2>3, LowestIsLeast
  <2> QED
    BY <1>1, <1>2, <1>4, <2>2, <2>4 DEF InsertPanic
<1> QED
  BY <1>3, <1>4

-----------------------------------------------------------------------------
(* The calls                                                               *)

\* What every step has to do.
Steady == FilesInv' /\ SameFile

\* The invariant by its parts.
LEMMA InvIs ==
  FilesInv <=> /\ Sound(kind, openFiles, used, size, refcnt, leaked)
               /\ node \in [Places -> Nodes] /\ halted \in {"no", "overflow"}
<1>1. FilesTypeOK => size \in 0 .. MAX_FILES
  BY DEF FilesTypeOK
<1>2. used \in SUBSET Places /\ size = Cardinality(used) => size \in 0 .. MAX_FILES
  BY Finite, FS_Subset, FS_CardinalityType, FilesAssumption
<1> QED
  BY <1>1, <1>2
  DEF FilesInv, FilesTypeOK, CountsHolders, NotCorrupt, SizeCounts, LeaksBounded, Sound,
      Holders, Named, Threads, ThreadsOf, Kinds, Tables, Most

LEMMA InvIsNext ==
  FilesInv' <=> /\ Sound(kind', openFiles', used', size', refcnt', leaked')
                /\ node' \in [Places -> Nodes] /\ halted' \in {"no", "overflow"}
<1>1. used' \in SUBSET Places /\ size' = Cardinality(used') => size' \in 0 .. MAX_FILES
  BY Finite, FS_Subset, FS_CardinalityType, FilesAssumption
<1> QED
  BY <1>1
  DEF FilesInv, FilesTypeOK, CountsHolders, NotCorrupt, SizeCounts, LeaksBounded, Sound,
      Holders, Named, Threads, ThreadsOf, Kinds, Tables, Most

\* A FILE a living process points to is in the set.
LEMMA HeldUsed ==
  ASSUME NEW k, NEW o, NEW u, NEW s, NEW r, NEW l, Sound(k, o, u, s, r, l),
         NEW p \in Procs, NEW fd \in Fds, k[p] # "none", o[p][fd] # NULL
  PROVE  o[p][fd] \in u
<1>1. PICK x \in Places : x = o[p][fd]
  BY DEF Sound, Tables
<1>2. <<p, fd>> \in Named(k, o, x)
  BY <1>1 DEF Named
<1>3. Cardinality(Named(k, o, x)) # 0
  BY <1>2, NamedFinite, FS_EmptySet
<1> QED
  BY <1>1, <1>3, NamedFinite DEF Sound

\* No FILE in the set is opened on another file.
LEMMA SameSteady ==
  ASSUME FilesInv, FilesInv', \A x \in used : node'[x] = node[x]
  PROVE  Steady
<1> SUFFICES ASSUME NEW p \in Procs, NEW fd \in Fds,
                    kind[p] # "none", kind'[p] # "none",
                    openFiles[p][fd] # NULL, openFiles'[p][fd] = openFiles[p][fd]
             PROVE  /\ node'[openFiles[p][fd]] = node[openFiles[p][fd]]
                    /\ openFiles[p][fd] \in used'
  BY DEF Steady, SameFile
<1>1. openFiles[p][fd] \in used
  BY InvIs, HeldUsed
<1>2. openFiles'[p][fd] \in used'
  BY InvIsNext, HeldUsed
<1> QED
  BY <1>1, <1>2

\* The search for a free descriptor.
LEMMA FdFound ==
  ASSUME NEW p, FreeFds(p) # {}
  PROVE  Lowest(FreeFds(p)) \in Fds /\ openFiles[p][Lowest(FreeFds(p))] = NULL
<1>1. FreeFds(p) \in SUBSET Nat
  BY FilesAssumption DEF FreeFds, Fds
<1>2. Lowest(FreeFds(p)) \in FreeFds(p)
  BY <1>1, LowestIsLeast
<1> QED
  BY <1>2 DEF FreeFds

\* A step that leaves the fields of a sound state and opens no FILE anew.
LEMMA FieldsSteady ==
  ASSUME FilesInv, NEW f, NEW o, NEW u, NEW s, NEW r, NEW n, NEW h,
         Become(f), Fields(f, o, u, s, r, n, h), Sound(kind', o, u, s, r, leaked'),
         h \in {"no", "overflow"}, n \in [Places -> Nodes], \A x \in used : n[x] = node[x]
  PROVE  Steady
<1>1. openFiles' = o /\ used' = u /\ size' = s /\ refcnt' = r /\ node' = n /\ halted' = h
  BY DEF Become, Fields
<1> QED
  BY <1>1, InvIsNext, SameSteady

\* open
LEMMA OpenSteady ==
  ASSUME FilesInv, NEW p \in Procs, sys_open(p)
  PROVE  Steady
<1> DEFINE fd == Lowest(FreeFds(p))
           x == Lowest(FreePlaces(Now))
<1>1. /\ halted = "no" /\ kind[p] # "none" /\ FreeFds(p) # {} /\ UNCHANGED <<kind, leaked>>
  BY DEF sys_open, Program
<1>2. PICK v \in Names \cup {Tty} :
        Become(IF fs_open(Now, v).halted # "no" THEN fs_open(Now, v)
               ELSE PointTo(fs_open(Now, v), p, fd, x))
  BY DEF sys_open, PointTo
<1>3. fd \in Fds /\ openFiles[p][fd] = NULL
  BY <1>1, FdFound
<1>4. /\ Sound(kind, openFiles, used, size, refcnt, leaked) /\ node \in [Places -> Nodes]
      /\ IsRec(Now) /\ Fields(Now, openFiles, used, size, refcnt, node, "no")
  BY <1>1, InvIs, NowIs
<1>5. InsertPanic(Now) \in {"no", "overflow"} /\ (InsertPanic(Now) = "no" => x \in Places \ used)
  BY <1>4, Insert DEF Fields, Sound
<1>6. /\ IsRec(fs_open(Now, v))
      /\ InsertPanic(Now) # "no" =>
           Fields(fs_open(Now, v), openFiles, used, size, refcnt, node, "overflow")
      /\ InsertPanic(Now) = "no" =>
           Fields(fs_open(Now, v), openFiles, used \cup {x}, size + 1,
                  [refcnt EXCEPT ![x] = 1], [node EXCEPT ![x] = v], "no")
  <2>1. /\ IsRec(fs_open(Now, v))
        /\ InsertPanic(Now) # "no" =>
             Fields(fs_open(Now, v), Now.openFiles, Now.used, Now.size, Now.refcnt, Now.node,
                    InsertPanic(Now))
        /\ InsertPanic(Now) = "no" =>
             Fields(fs_open(Now, v), Now.openFiles, Now.used \cup {x}, Now.size + 1,
                    [Now.refcnt EXCEPT ![x] = 1], [Now.node EXCEPT ![x] = v], Now.halted)
    BY <1>4, OpenIs
  <2>2. /\ Now.openFiles = openFiles /\ Now.used = used /\ Now.size = size
        /\ Now.refcnt = refcnt /\ Now.node = node /\ Now.halted = "no"
    BY <1>4 DEF Fields
  <2>3. InsertPanic(Now) # "no" => InsertPanic(Now) = "overflow"
    BY <1>5
  <2> HIDE DEF x
  <2> QED
    BY <2>1, <2>2, <2>3
<1> HIDE DEF fd, x
<1>7. CASE InsertPanic(Now) # "no"
  <2>1. Become(fs_open(Now, v))
    BY <1>2, <1>6, <1>7 DEF Fields
  <2> QED
    BY <1>1, <1>4, <1>6, <1>7, <2>1, FieldsSteady
<1>8. CASE InsertPanic(Now) = "no"
  <2>1. Become(PointTo(fs_open(Now, v), p, fd, x))
    BY <1>2, <1>6, <1>8 DEF Fields
  <2>2. Fields(PointTo(fs_open(Now, v), p, fd, x), Point(openFiles, p, fd, x), used \cup {x},
               size + 1, [refcnt EXCEPT ![x] = 1], [node EXCEPT ![x] = v], "no")
    BY <1>6, <1>8, PointIs DEF Fields
  <2>3. Sound(kind', Point(openFiles, p, fd, x), used \cup {x}, size + 1,
              [refcnt EXCEPT ![x] = 1], leaked')
    BY <1>1, <1>3, <1>4, <1>5, <1>8, OpenSound
  <2>4. /\ [node EXCEPT ![x] = v] \in [Places -> Nodes]
        /\ \A y \in used : [node EXCEPT ![x] = v][y] = node[y]
    BY <1>4, <1>5, <1>8 DEF Nodes, Sound
  <2> QED
    BY <2>1, <2>2, <2>3, <2>4, FieldsSteady
<1> QED
  BY <1>7, <1>8

\* close
LEMMA CloseSteady ==
  ASSUME FilesInv, NEW p \in Procs, sys_close(p)
  PROVE  Steady
<1>1. halted = "no" /\ kind[p] # "none" /\ UNCHANGED <<kind, leaked>>
  BY DEF sys_close, Program
<1>2. PICK fd \in Fds \ FreeFds(p) :
        Become(PointTo(k_close(Now, openFiles[p][fd]), p, fd, NULL))
  BY DEF sys_close, PointTo
<1>3. /\ Sound(kind, openFiles, used, size, refcnt, leaked) /\ node \in [Places -> Nodes]
      /\ IsRec(Now) /\ Fields(Now, openFiles, used, size, refcnt, node, "no")
  BY <1>1, InvIs, NowIs
<1>4. PICK x \in Places : x = openFiles[p][fd]
  BY <1>2, <1>3 DEF Sound, Tables, FreeFds
<1> DEFINE left == Left(refcnt, x)
           u == IF left # 0 THEN used ELSE used \ {x}
           s == IF left # 0 THEN size ELSE (size - 1) % UINT_RANGE
           r == [refcnt EXCEPT ![x] = left]
<1>5. /\ IsRec(k_close(Now, x))
      /\ Fields(k_close(Now, x), openFiles, u, s, r, node, "no")
  <2>1. /\ Now.openFiles = openFiles /\ Now.used = used /\ Now.size = size
        /\ Now.refcnt = refcnt /\ Now.node = node /\ Now.halted = "no"
    BY <1>3 DEF Fields
  <2> QED
    BY <1>3, <2>1, CloseIs
<1>6. Sound(kind', Point(openFiles, p, fd, NULL), u, s, r, leaked')
  <2>1. Sound(kind, Point(openFiles, p, fd, NULL), u, s, r, leaked)
    <3>1. \A a \in Procs, b \in Fds, y \in Places : kind[a] # "none" /\ openFiles[a][b] = y =>
            Sound(kind, Point(openFiles, a, b, NULL),
                  IF Left(refcnt, y) # 0 THEN used ELSE used \ {y},
                  IF Left(refcnt, y) # 0 THEN size ELSE (size - 1) % UINT_RANGE,
                  [refcnt EXCEPT ![y] = Left(refcnt, y)], leaked)
      BY <1>3, CloseSound
    <3> QED
      BY <1>1, <1>2, <1>4, <3>1
  <2> HIDE DEF u, s, r
  <2> QED
    BY <1>1, <2>1
<1> HIDE DEF u, s, r, left
<1>7. Fields(PointTo(k_close(Now, x), p, fd, NULL), Point(openFiles, p, fd, NULL), u, s, r,
             node, "no")
  BY <1>5, PointIs DEF Fields
<1>8. Become(PointTo(k_close(Now, x), p, fd, NULL))
  BY <1>2, <1>4
<1> QED
  BY <1>3, <1>6, <1>7, <1>8, FieldsSteady

\* dup
LEMMA DupSteady ==
  ASSUME FilesInv, NEW p \in Procs, sys_dup(p)
  PROVE  Steady
<1> DEFINE fd == Lowest(FreeFds(p))
<1>1. halted = "no" /\ kind[p] # "none" /\ FreeFds(p) # {} /\ UNCHANGED <<kind, leaked>>
  BY DEF sys_dup, Program
<1>2. fd \in Fds /\ openFiles[p][fd] = NULL
  BY <1>1, FdFound
<1>3. PICK old \in Fds \ FreeFds(p) :
        Become([Now EXCEPT !.openFiles[p][fd] = openFiles[p][old],
                           !.refcnt[openFiles[p][old]] = (@ + 1) % UINT_RANGE])
  BY DEF sys_dup
<1> HIDE DEF fd
<1>4. Sound(kind, openFiles, used, size, refcnt, leaked) /\ node \in [Places -> Nodes]
  BY InvIs
<1>5. PICK x \in Places : x = openFiles[p][old]
  BY <1>3, <1>4 DEF Sound, Tables, FreeFds
<1>6. /\ openFiles' = Point(openFiles, p, fd, x) /\ used' = used /\ size' = size
      /\ refcnt' = [refcnt EXCEPT ![x] = (@ + 1) % UINT_RANGE]
      /\ node' = node /\ halted' = "no"
  BY <1>1, <1>3, <1>5 DEF Become, Now, Point
<1>7. Sound(kind', openFiles', used', size', refcnt', leaked')
  <2>1. x # NULL
    BY DEF NULL, Places
  <2> QED
    BY <1>1, <1>2, <1>4, <1>5, <1>6, <2>1, DupSound
<1> QED
  BY <1>4, <1>6, <1>7, InvIsNext, SameSteady

\* dup2 onto a free descriptor
LEMMA Dup2Steady ==
  ASSUME FilesInv, "dup2_over" \notin Calls, NEW p \in Procs, sys_dup2(p)
  PROVE  Steady
<1>0. PICK old \in Fds \ FreeFds(p) : \E new \in Fds \ {old} :
        LET x == openFiles[p][old]
            over == new \notin FreeFds(p)
            f == IF over THEN k_close(Now, openFiles[p][new]) ELSE Now
        IN /\ Program(p, IF over THEN "dup2_over" ELSE "dup2") /\ refcnt[x] < MaxRefs
           /\ Become([f EXCEPT !.refcnt[x] = (@ + 1) % UINT_RANGE])
           /\ leaked' = [leaked EXCEPT ![x] = @ + 1]
           /\ UNCHANGED kind
  BY DEF sys_dup2
<1>1. PICK new \in Fds \ {old} :
        LET x == openFiles[p][old]
            over == new \notin FreeFds(p)
            f == IF over THEN k_close(Now, openFiles[p][new]) ELSE Now
        IN /\ Program(p, IF over THEN "dup2_over" ELSE "dup2") /\ refcnt[x] < MaxRefs
           /\ Become([f EXCEPT !.refcnt[x] = (@ + 1) % UINT_RANGE])
           /\ leaked' = [leaked EXCEPT ![x] = @ + 1]
           /\ UNCHANGED kind
  BY <1>0
<1>2. /\ halted = "no" /\ kind[p] # "none" /\ kind' = kind
      /\ refcnt[openFiles[p][old]] < MaxRefs
      /\ Become([Now EXCEPT !.refcnt[openFiles[p][old]] = (@ + 1) % UINT_RANGE])
      /\ leaked' = [leaked EXCEPT ![openFiles[p][old]] = @ + 1]
  BY <1>1 DEF Program
<1>3. Sound(kind, openFiles, used, size, refcnt, leaked) /\ node \in [Places -> Nodes]
  BY InvIs
<1>4. PICK x \in Places : x = openFiles[p][old]
  BY <1>1, <1>3 DEF Sound, Tables, FreeFds
<1>5. /\ openFiles' = openFiles /\ used' = used /\ size' = size
      /\ refcnt' = [refcnt EXCEPT ![x] = (@ + 1) % UINT_RANGE]
      /\ node' = node /\ halted' = "no"
  BY <1>2, <1>4 DEF Become, Now
<1>6. Sound(kind', openFiles', used', size', refcnt', leaked')
  BY <1>2, <1>3, <1>4, <1>5, LoseSound
<1> QED
  BY <1>3, <1>5, <1>6, InvIsNext, SameSteady

\* fs_open of a set in step, by fields.
LEMMA OpenFields ==
  ASSUME NEW f, NEW v, NEW o, NEW u \in SUBSET Places, NEW s, s = Cardinality(u),
         NEW r, NEW n, IsRec(f), Fields(f, o, u, s, r, n, "no")
  PROVE  /\ IsRec(fs_open(f, v))
         /\ \/ Fields(fs_open(f, v), o, u, s, r, n, "overflow")
            \/ \E x \in Places \ u :
                 /\ x = Lowest(FreePlaces(f))
                 /\ Fields(fs_open(f, v), o, u \cup {x}, s + 1, [r EXCEPT ![x] = 1],
                           [n EXCEPT ![x] = v], "no")
<1>1. /\ f.openFiles = o /\ f.used = u /\ f.size = s
      /\ f.refcnt = r /\ f.node = n /\ f.halted = "no"
  BY DEF Fields
<1>2. /\ InsertPanic(f) \in {"no", "overflow"}
      /\ InsertPanic(f) = "no" => Lowest(FreePlaces(f)) \in Places \ u
  BY <1>1, Insert
<1>3. PICK x : x = Lowest(FreePlaces(f))
  OBVIOUS
<1>4. /\ IsRec(fs_open(f, v))
      /\ InsertPanic(f) # "no" =>
           Fields(fs_open(f, v), f.openFiles, f.used, f.size, f.refcnt, f.node, InsertPanic(f))
      /\ InsertPanic(f) = "no" =>
           Fields(fs_open(f, v), f.openFiles, f.used \cup {x}, f.size + 1,
                  [f.refcnt EXCEPT ![x] = 1], [f.node EXCEPT ![x] = v], f.halted)
  BY <1>3, OpenIs
<1>5. CASE InsertPanic(f) = "no"
  BY <1>1, <1>2, <1>3, <1>4, <1>5
<1>6. CASE InsertPanic(f) = "overflow"
  BY <1>1, <1>4, <1>6
<1> QED
  BY <1>2, <1>4, <1>5, <1>6

\* pipe: the first end, and the second if there is a descriptor and a place for it
LEMMA PipeSteady ==
  ASSUME FilesInv, NEW p \in Procs, sys_pipe(p)
  PROVE  Steady
<1> DEFINE w == Lowest(FreeFds(p))
           one == fs_open(Now, Pipe)
           first == PointTo(one, p, w, Lowest(FreePlaces(Now)))
           rest == FreeFds(p) \ {w}
           two == fs_open(first, Pipe)
           both == PointTo(two, p, Lowest(rest), Lowest(FreePlaces(first)))
<1>1. halted = "no" /\ kind[p] # "none" /\ FreeFds(p) # {} /\ UNCHANGED <<kind, leaked>>
  BY DEF sys_pipe, Program
<1>2. Become(IF one.halted # "no" THEN one
             ELSE IF rest = {} THEN first
             ELSE IF two.halted # "no" THEN two
             ELSE both)
  BY DEF sys_pipe, PointTo
<1>3. /\ Sound(kind, openFiles, used, size, refcnt, leaked) /\ node \in [Places -> Nodes]
      /\ IsRec(Now) /\ Fields(Now, openFiles, used, size, refcnt, node, "no")
  BY <1>1, InvIs, NowIs
<1>4. w \in Fds /\ openFiles[p][w] = NULL
  BY <1>1, FdFound
<1>5. /\ IsRec(one)
      /\ \/ Fields(one, openFiles, used, size, refcnt, node, "overflow")
         \/ \E x \in Places \ used :
              /\ x = Lowest(FreePlaces(Now))
              /\ Fields(one, openFiles, used \cup {x}, size + 1, [refcnt EXCEPT ![x] = 1],
                        [node EXCEPT ![x] = Pipe], "no")
  <2>1. used \in SUBSET Places /\ size = Cardinality(used)
    BY <1>3 DEF Sound
  <2> QED
    BY <1>3, <2>1, OpenFields
<1> HIDE DEF one
<1>6. CASE Fields(one, openFiles, used, size, refcnt, node, "overflow")
  <2>1. Become(one)
    BY <1>2, <1>6 DEF Fields
  <2> QED
    BY <1>1, <1>3, <1>6, <2>1, FieldsSteady
<1>7. ASSUME NEW x \in Places \ used, x = Lowest(FreePlaces(Now)),
             Fields(one, openFiles, used \cup {x}, size + 1, [refcnt EXCEPT ![x] = 1],
                    [node EXCEPT ![x] = Pipe], "no")
      PROVE  Steady
  <2> DEFINE o == Point(openFiles, p, w, x)
             u == used \cup {x}
             r == [refcnt EXCEPT ![x] = 1]
             n == [node EXCEPT ![x] = Pipe]
  <2>1. /\ IsRec(first) /\ Fields(first, o, u, size + 1, r, n, "no")
    BY <1>5, <1>7, PointIs DEF Fields
  <2>2. Sound(kind', o, u, size + 1, r, leaked')
    BY <1>1, <1>3, <1>4, OpenSound
  <2>3. n \in [Places -> Nodes] /\ \A y \in used : n[y] = node[y]
    BY <1>3 DEF Nodes, Sound
  <2>4. one.halted = "no"
    BY <1>7 DEF Fields
  <2>5. rest # {} => Lowest(rest) \in Fds /\ o[p][Lowest(rest)] = NULL
    <3> SUFFICES ASSUME rest # {} PROVE Lowest(rest) \in Fds /\ o[p][Lowest(rest)] = NULL
      OBVIOUS
    <3>1. rest \in SUBSET Nat
      BY FilesAssumption DEF FreeFds, Fds
    <3>2. Lowest(rest) \in rest
      BY <3>1, LowestIsLeast
    <3>3. \A fd \in Fds \ {w} : o[p][fd] = openFiles[p][fd]
      BY <1>3, <1>4 DEF Point, Sound, Tables
    <3> HIDE DEF w, o
    <3> QED
      BY <3>2, <3>3 DEF FreeFds
  <2> HIDE DEF o, u, r, n, first, w
  <2>6. CASE rest = {}
    <3>1. Become(first)
      BY <1>2, <2>4, <2>6
    <3> QED
      BY <2>1, <2>2, <2>3, <3>1, FieldsSteady
  <2>7. CASE rest # {}
    <3>1. /\ IsRec(two)
          /\ \/ Fields(two, o, u, size + 1, r, n, "overflow")
             \/ \E z \in Places \ u :
                  /\ z = Lowest(FreePlaces(first))
                  /\ Fields(two, o, u \cup {z}, (size + 1) + 1, [r EXCEPT ![z] = 1],
                            [n EXCEPT ![z] = Pipe], "no")
      <4>1. u \in SUBSET Places /\ size + 1 = Cardinality(u)
        BY <2>2 DEF Sound
      <4> QED
        BY <2>1, <4>1, OpenFields
    <3> HIDE DEF two
    <3>2. CASE Fields(two, o, u, size + 1, r, n, "overflow")
      <4>1. Become(two)
        BY <1>2, <2>4, <2>7, <3>2 DEF Fields
      <4> QED
        BY <2>2, <2>3, <3>2, <4>1, FieldsSteady
    <3>3. ASSUME NEW z \in Places \ u, z = Lowest(FreePlaces(first)),
                 Fields(two, o, u \cup {z}, (size + 1) + 1, [r EXCEPT ![z] = 1],
                        [n EXCEPT ![z] = Pipe], "no")
          PROVE  Steady
      <4> DEFINE fd == Lowest(rest)
      <4>1. Become(PointTo(two, p, fd, z))
        BY <1>2, <2>4, <2>7, <3>3 DEF Fields
      <4>2. fd \in Fds /\ o[p][fd] = NULL
        BY <2>5, <2>7
      <4> HIDE DEF fd
      <4>3. Fields(PointTo(two, p, fd, z), Point(o, p, fd, z), u \cup {z}, (size + 1) + 1,
                   [r EXCEPT ![z] = 1], [n EXCEPT ![z] = Pipe], "no")
        BY <3>1, <3>3, PointIs DEF Fields
      <4>4. Sound(kind', Point(o, p, fd, z), u \cup {z}, (size + 1) + 1, [r EXCEPT ![z] = 1],
                  leaked')
        BY <1>1, <2>2, <4>2, OpenSound
      <4>5. used \subseteq u
        BY DEF u
      <4>6. /\ [n EXCEPT ![z] = Pipe] \in [Places -> Nodes]
            /\ \A y \in used : [n EXCEPT ![z] = Pipe][y] = node[y]
        BY <2>2, <2>3, <4>5 DEF Nodes, Sound
      <4> QED
        BY <4>1, <4>3, <4>4, <4>6, FieldsSteady
    <3> QED
      BY <3>1, <3>2, <3>3
  <2> QED
    BY <2>6, <2>7
<1> QED
  BY <1>5, <1>6, <1>7

\* execve: the program file takes a place and gives it back.
LEMMA ExecveSteady ==
  ASSUME FilesInv, NEW p \in Procs, do_execve(p)
  PROVE  Steady
<1>1. halted = "no" /\ UNCHANGED <<kind, leaked>>
  BY DEF do_execve, Program
<1>2. PICK v \in Names :
        Become(IF fs_open(Now, v).halted # "no" THEN fs_open(Now, v)
               ELSE k_close(fs_open(Now, v), Lowest(FreePlaces(Now))))
  BY DEF do_execve
<1>3. /\ Sound(kind, openFiles, used, size, refcnt, leaked) /\ node \in [Places -> Nodes]
      /\ IsRec(Now) /\ Fields(Now, openFiles, used, size, refcnt, node, "no")
  BY <1>1, InvIs, NowIs
<1> DEFINE f == fs_open(Now, v)
<1>4. /\ IsRec(f)
      /\ \/ Fields(f, openFiles, used, size, refcnt, node, "overflow")
         \/ \E x \in Places \ used :
              /\ x = Lowest(FreePlaces(Now))
              /\ Fields(f, openFiles, used \cup {x}, size + 1, [refcnt EXCEPT ![x] = 1],
                        [node EXCEPT ![x] = v], "no")
  <2>1. used \in SUBSET Places /\ size = Cardinality(used)
    BY <1>3 DEF Sound
  <2> QED
    BY <1>3, <2>1, OpenFields
<1> HIDE DEF f
<1>5. CASE Fields(f, openFiles, used, size, refcnt, node, "overflow")
  <2>1. Become(f)
    BY <1>2, <1>5 DEF Fields, f
  <2> QED
    BY <1>1, <1>3, <1>5, <2>1, FieldsSteady
<1>6. ASSUME NEW x \in Places \ used, x = Lowest(FreePlaces(Now)),
             Fields(f, openFiles, used \cup {x}, size + 1, [refcnt EXCEPT ![x] = 1],
                    [node EXCEPT ![x] = v], "no")
      PROVE  Steady
  <2>1. Become(k_close(f, x))
    BY <1>2, <1>6 DEF Fields, f
  <2>2. /\ f.openFiles = openFiles /\ f.used = used \cup {x} /\ f.size = size + 1
        /\ f.refcnt = [refcnt EXCEPT ![x] = 1] /\ f.node = [node EXCEPT ![x] = v]
        /\ f.halted = "no"
    BY <1>6 DEF Fields
  <2>3. refcnt[x] = 0 /\ x \in Places /\ refcnt \in [Places -> 0 .. UINT_RANGE - 1]
    BY <1>3, <1>6 DEF Sound
  <2>4. Left(f.refcnt, x) = 0
    <3>1. f.refcnt[x] = 1
      BY <2>2, <2>3
    <3>2. 0 \in 0 .. UINT_RANGE - 1
      BY FilesAssumption
    <3> QED
      BY <3>1, <3>2, Fits DEF Left
  <2>5. [f.refcnt EXCEPT ![x] = Left(f.refcnt, x)] = refcnt
    BY <2>2, <2>3, <2>4
  <2>6. f.used \ {x} = used
    BY <1>6, <2>2
  <2>7. (f.size - 1) % UINT_RANGE = size
    <3>1. size \in Nat /\ size <= MAX_FILES
      BY <1>3, Finite, FS_Subset, FS_CardinalityType DEF Sound
    <3>2. size \in 0 .. UINT_RANGE - 1
      BY <3>1, FilesAssumption
    <3>3. f.size - 1 = size
      BY <2>2, <3>1
    <3> QED
      BY <3>2, <3>3, Fits
  <2>8. Fields(k_close(f, x), f.openFiles, f.used \ {x}, (f.size - 1) % UINT_RANGE,
               [f.refcnt EXCEPT ![x] = Left(f.refcnt, x)], f.node, f.halted)
    BY <1>4, <2>4, CloseIs
  <2>9. Fields(k_close(f, x), openFiles, used, size, refcnt, [node EXCEPT ![x] = v], "no")
    BY <2>2, <2>5, <2>6, <2>7, <2>8
  <2>10. Sound(kind', openFiles, used, size, refcnt, leaked')
    BY <1>1, <1>3
  <2>11. /\ [node EXCEPT ![x] = v] \in [Places -> Nodes]
         /\ \A y \in used : [node EXCEPT ![x] = v][y] = node[y]
    BY <1>3, <1>6 DEF Nodes, Sound
  <2> QED
    BY <2>1, <2>9, <2>10, <2>11, FieldsSteady
<1> QED
  BY <1>4, <1>5, <1>6

\* A step that touches no file.
LEMMA NodeSteady ==
  ASSUME FilesInv, Sound(kind', openFiles', used', size', refcnt', leaked'),
         node' = node, halted' = halted
  PROVE  Steady
BY InvIs, InvIsNext, SameSteady

\* fork and clone
LEMMA ForkSteady ==
  ASSUME FilesInv, NEW p \in Procs, NEW child \in {"proc", "thread"}, kind[p] # "none",
         child = "thread" => \A x \in Places : refcnt[x] + Links(p, x) <= MaxRefs,
         do_fork(p, child), leaked' = leaked
  PROVE  Steady
<1> DEFINE n == Lowest(FreeSlots)
<1>1. n \in Procs /\ kind[n] = "none"
  <2>1. FreeSlots \in SUBSET Nat /\ FreeSlots # {}
    BY FilesAssumption DEF do_fork, FreeSlots, Procs
  <2>2. n \in FreeSlots
    BY <2>1, LowestIsLeast
  <2> QED
    BY <2>2 DEF FreeSlots
<1>2. \A x : Links(p, x) = Cardinality(Descs(openFiles, p, x))
  BY DEF Links, Descs
<1>3. /\ kind' = [kind EXCEPT ![n] = child]
      /\ openFiles' = [openFiles EXCEPT ![n] = openFiles[p]]
      /\ refcnt' = Copied(refcnt, openFiles, p)
      /\ UNCHANGED <<used, size, node, leaked, halted>>
  BY <1>2 DEF do_fork, Copied
<1> HIDE DEF n
<1>4. child = "thread" => Few(refcnt, openFiles, p)
  BY <1>2 DEF Few
<1>5. Sound(kind, openFiles, used, size, refcnt, leaked)
  BY InvIs
<1>6. Sound([kind EXCEPT ![n] = child], [openFiles EXCEPT ![n] = openFiles[p]], used, size,
            Copied(refcnt, openFiles, p), leaked)
  BY <1>1, <1>4, <1>5, ForkSound
<1>7. Sound(kind', openFiles', used', size', refcnt', leaked')
  BY <1>3, <1>6
<1> QED
  BY <1>3, <1>7, NodeSteady

\* exit
LEMMA ExitSteady ==
  ASSUME FilesInv, NEW p \in Procs, do_kernel_task_exit(p)
  PROVE  Steady
<1>1. \A x : Links(p, x) = Cardinality(Descs(openFiles, p, x))
  BY DEF Links, Descs
<1>2. Sound(kind, openFiles, used, size, refcnt, leaked)
  BY InvIs
<1>3. kind[p] \in {"proc", "thread"} /\ kind' = [kind EXCEPT ![p] = "none"]
      /\ node' = node /\ halted' = halted
  BY <1>2 DEF do_kernel_task_exit, Program, Sound, Kinds
<1>4. CASE kind[p] = "thread"
  <2>1. /\ leaked' = [x \in Places |-> leaked[x] + Cardinality(Descs(openFiles, p, x))]
        /\ UNCHANGED <<openFiles, used, size, refcnt>>
    BY <1>1, <1>4 DEF do_kernel_task_exit
  <2>2. Sound([kind EXCEPT ![p] = "none"], openFiles, used, size, refcnt,
              [x \in Places |-> leaked[x] + Cardinality(Descs(openFiles, p, x))])
    BY <1>2, <1>4, ThreadExitSound
  <2>3. Sound(kind', openFiles', used', size', refcnt', leaked')
    BY <1>3, <2>1, <2>2
  <2> QED
    BY <1>3, <2>3, NodeSteady
<1>5. CASE kind[p] = "proc"
  <2> DEFINE gone == {x \in Places : refcnt[x] \in 1 .. Cardinality(Descs(openFiles, p, x))}
  <2>1. /\ openFiles' = [openFiles EXCEPT ![p] = [fd \in Fds |-> NULL]]
        /\ refcnt' = [x \in Places |->
                        (refcnt[x] - Cardinality(Descs(openFiles, p, x))) % UINT_RANGE]
        /\ used' = used \ gone
        /\ size' = (size - Cardinality(gone)) % UINT_RANGE
        /\ leaked' = leaked
    <3>1. gone = {x \in Places : refcnt[x] \in 1 .. Links(p, x)}
      BY <1>1
    <3> HIDE DEF gone
    <3> QED
      BY <1>1, <1>5, <3>1 DEF do_kernel_task_exit
  <2>2. Sound([kind EXCEPT ![p] = "none"], [openFiles EXCEPT ![p] = [fd \in Fds |-> NULL]],
              used \ gone, (size - Cardinality(gone)) % UINT_RANGE,
              [x \in Places |->
                 (refcnt[x] - Cardinality(Descs(openFiles, p, x))) % UINT_RANGE], leaked)
    BY <1>2, <1>5, ProcExitSound
  <2> HIDE DEF gone
  <2>3. Sound(kind', openFiles', used', size', refcnt', leaked')
    BY <1>3, <2>1, <2>2
  <2> QED
    BY <1>3, <2>3, NodeSteady
<1> QED
  BY <1>3, <1>4, <1>5

\* kernel_main's terminal, shared by pid 0 and pid 1.
LEMMA InitSound == Init => FilesInv
<1> SUFFICES ASSUME Init PROVE FilesInv
  OBVIOUS
<1>1. /\ kind \in [Procs -> Kinds] /\ openFiles \in Tables /\ used \in SUBSET Places
      /\ leaked \in [Places -> Nat] /\ node \in [Places -> Nodes]
  BY FilesAssumption DEF Init, Kinds, Tables, Places, Fds, NULL, Nodes
<1>2. size = Cardinality(used)
  BY FS_Interval, FilesAssumption DEF Init
<1>3. ThreadsOf(kind) = {}
  BY DEF Init, ThreadsOf
<1>4. \A x \in Places :
        leaked[x] = 0 /\ leaked[x] + MAX_FILES_PER_PROC * Cardinality(ThreadsOf(kind)) <= MaxRefs + Most
  <2>1. Cardinality(ThreadsOf(kind)) = 0
    BY <1>3, FS_EmptySet
  <2>2. MAX_FILES_PER_PROC \in Nat /\ 0 <= MaxRefs + Most
    BY Finite, FilesAssumption
  <2>3. \A x \in Places : leaked[x] = 0
    BY DEF Init
  <2>4. MAX_FILES_PER_PROC * 0 = 0
    BY <2>2
  <2> QED
    BY <2>1, <2>2, <2>3, <2>4
<1>5. \A x \in Places : Cardinality(Named(kind, openFiles, x)) = IF x < STDIO THEN 2 ELSE 0
  <2> SUFFICES ASSUME NEW x \in Places
               PROVE  Cardinality(Named(kind, openFiles, x)) = IF x < STDIO THEN 2 ELSE 0
    OBVIOUS
  <2>1. CASE x < STDIO
    <3>1. Named(kind, openFiles, x) = {<<0, x>>} \cup {<<1, x>>}
      BY <2>1, FilesAssumption DEF Named, Init, Procs, Fds, Places, NULL
    <3>2. IsFiniteSet({<<0, x>>}) /\ Cardinality({<<0, x>>}) = 1
      BY FS_Singleton
    <3>3. <<1, x>> \notin {<<0, x>>}
      OBVIOUS
    <3>4. Cardinality({<<0, x>>} \cup {<<1, x>>}) = 1 + 1
      BY <3>2, <3>3, FS_AddElement
    <3> QED
      BY <2>1, <3>1, <3>4
  <2>2. CASE ~(x < STDIO)
    <3>1. Named(kind, openFiles, x) = {}
      BY <2>2, FilesAssumption DEF Named, Init, Procs, Fds, Places, NULL
    <3> QED
      BY <2>2, <3>1, FS_EmptySet
  <2> QED
    BY <2>1, <2>2
<1>6. \A x \in Places : /\ refcnt[x] = Cardinality(Named(kind, openFiles, x)) + leaked[x]
                        /\ refcnt[x] \in 0 .. UINT_RANGE - 1
                        /\ x \in used <=> refcnt[x] # 0
  <2> SUFFICES ASSUME NEW x \in Places
               PROVE  /\ refcnt[x] = Cardinality(Named(kind, openFiles, x)) + leaked[x]
                      /\ refcnt[x] \in 0 .. UINT_RANGE - 1
                      /\ x \in used <=> refcnt[x] # 0
    OBVIOUS
  <2>1. refcnt[x] = IF x < STDIO THEN 2 ELSE 0
    BY DEF Init
  <2>2. refcnt[x] = Cardinality(Named(kind, openFiles, x)) + leaked[x]
    BY <1>4, <1>5, <2>1
  <2>3. Cardinality(Named(kind, openFiles, x)) + leaked[x] \in 0 .. UINT_RANGE - 1
    BY <1>1, <1>4, Room
  <2>4. x \in used <=> refcnt[x] # 0
    BY <2>1, FilesAssumption DEF Init, Places
  <2> QED
    BY <2>2, <2>3, <2>4
<1>7. refcnt \in [Places -> 0 .. UINT_RANGE - 1]
  <2>1. refcnt = [x \in Places |-> refcnt[x]]
    BY DEF Init
  <2> QED
    BY <1>6, <2>1
<1>8. halted = "no"
  BY DEF Init
<1> QED
  BY <1>1, <1>2, <1>4, <1>6, <1>7, <1>8, InvIs DEF Sound

\* Every step.
LEMMA NextSteady ==
  ASSUME "dup2_over" \notin Calls, FilesInv, [Next]_vars
  PROVE  FilesInv' /\ [SameFile]_vars
<1>1. CASE UNCHANGED vars
  <2>1. Sound(kind', openFiles', used', size', refcnt', leaked')
        /\ node' = node /\ halted' = halted
    BY <1>1, InvIs DEF vars
  <2> QED
    BY <1>1, <2>1, NodeSteady DEF Steady
<1>2. CASE panic
  BY <1>1, <1>2 DEF panic
<1>3. ASSUME NEW p \in Procs, sys_open(p) PROVE Steady
  BY <1>3, OpenSteady
<1>4. ASSUME NEW p \in Procs, sys_close(p) PROVE Steady
  BY <1>4, CloseSteady
<1>5. ASSUME NEW p \in Procs, sys_dup(p) PROVE Steady
  BY <1>5, DupSteady
<1>6. ASSUME NEW p \in Procs, sys_dup2(p) PROVE Steady
  BY <1>6, Dup2Steady
<1>7. ASSUME NEW p \in Procs, sys_pipe(p) PROVE Steady
  BY <1>7, PipeSteady
<1>8. ASSUME NEW p \in Procs, do_kernel_task_fork(p) PROVE Steady
  <2>1. kind[p] # "none" /\ do_fork(p, "proc") /\ leaked' = leaked
    BY <1>8 DEF do_kernel_task_fork, Program, do_fork
  <2> QED
    BY <2>1, ForkSteady
<1>9. ASSUME NEW p \in Procs, do_kernel_task_clone(p) PROVE Steady
  <2>1. /\ kind[p] # "none" /\ do_fork(p, "thread") /\ leaked' = leaked
        /\ \A x \in Places : refcnt[x] + Links(p, x) <= MaxRefs
    BY <1>9 DEF do_kernel_task_clone, Program, do_fork
  <2> QED
    BY <2>1, ForkSteady
<1>10. ASSUME NEW p \in Procs, do_execve(p) PROVE Steady
  BY <1>10, ExecveSteady
<1>11. ASSUME NEW p \in Procs, do_kernel_task_exit(p) PROVE Steady
  BY <1>11, ExitSteady
<1> QED
  BY <1>1, <1>2, <1>3, <1>4, <1>5, <1>6, <1>7, <1>8, <1>9, <1>10, <1>11 DEF Next, Steady

-----------------------------------------------------------------------------
(* Theorems                                                                *)

\* The counts, the set and the descriptors stay in step through every call but a
\* dup2 over an open descriptor: the set never meets its "corrupt" panic.
THEOREM FilesInvariant == ASSUME "dup2_over" \notin Calls PROVE Spec => []FilesInv
<1>1. Init => FilesInv
  BY InitSound
<1>2. FilesInv /\ [Next]_vars => FilesInv'
  BY NextSteady
<1> QED
  BY <1>1, <1>2, PTL DEF Spec

\* The count of every FILE is the number of its holders and of the references
\* lost, and the FILE is in the set exactly while it is not 0.
THEOREM CountsExact == ASSUME "dup2_over" \notin Calls PROVE Spec => []CountsHolders
<1>1. FilesInv => CountsHolders
  BY DEF FilesInv
<1> QED
  BY <1>1, FilesInvariant, PTL

\* An open descriptor means the same file until its process closes it.
THEOREM DescriptorsStay == ASSUME "dup2_over" \notin Calls PROVE Spec => OpenStays
<1>1. FilesInv /\ [Next]_vars => [SameFile]_vars
  BY NextSteady
<1> QED
  BY <1>1, FilesInvariant, PTL DEF Spec, OpenStays

=============================================================================
