----------------------------- MODULE FileStore -----------------------------
(***************************************************************************)
(* What a file system promises the programs: a tree of names, each a       *)
(* directory, a device or a file that holds what was last written to it,   *)
(* and nothing that is done to one name shows in another.                  *)
(***************************************************************************)
EXTENDS Integers, Sequences

CONSTANTS
  Paths,   \* the paths of the programs, as sequences of names
  Vals,    \* what a unit of a file can hold
  Sizes    \* how many units the programs write at a time

VARIABLES
  store    \* what each path leads to

Absent == [mode |-> "none", data |-> <<>>]

\* The directory a path lies in: the root, or a path of its own.
HasParent(s, p) ==
  Len(p) = 1 \/ s[SubSeq(p, 1, Len(p) - 1)].mode = "DIR"

\* A file with vals written over it from unit off on.
Overlaid(data, off, vals) ==
  [i \in 1 .. (IF Len(data) > off + Len(vals) THEN Len(data) ELSE off + Len(vals)) |->
     IF i \in off + 1 .. off + Len(vals) THEN vals[i - off] ELSE data[i]]

\* What a call may make of one path in store s: a new name, a file with a run
\* of one value written to it, or nothing.
Make(s, p, new) ==
  s[p] = Absent /\ HasParent(s, p) /\ new.mode # "none" /\ new.data = <<>>

Write(s, p, new) ==
  /\ s[p].mode = "REG" /\ new.mode = "REG"
  /\ \E off \in 0 .. Len(s[p].data), n \in Sizes, v \in Vals :
       new.data = Overlaid(s[p].data, off, [i \in 1 .. n |-> v])

Remove(s, p, new) == s[p].mode \in {"REG", "DEV"} /\ new = Absent

\* A call changes one path and leaves all others alone, or it only reads.
Call(s, t) ==
  \E p \in Paths :
    /\ \A q \in Paths \ {p} : t[q] = s[q]
    /\ Make(s, p, t[p]) \/ Write(s, p, t[p]) \/ Remove(s, p, t[p])

Init == store = [p \in Paths |-> Absent]
Next == \E s \in {store}, t \in {store'} : s = t \/ Call(s, t)

Spec == Init /\ [][Next]_store

=============================================================================
