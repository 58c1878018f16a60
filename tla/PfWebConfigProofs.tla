-------------------------- MODULE PfWebConfigProofs --------------------------
(***************************************************************************)
(* The port-forwarding blob, for every size of the blobs, every sequence of *)
(* blobs and whatever syscfg calls fail: what a buffer of pairs puts back   *)
(* is stated for every store it may be written to.                          *)
(*                                                                          *)
(* A buffer that describes a table of rules (Describes) puts it back as a   *)
(* whole: setting it leaves a store whose counts name only rules that are   *)
(* there (Sound) and that has no other rule key (Neat).  The buffers that   *)
(* set_portmap_conf and init_pf_cache fill are of this kind, and no step of *)
(* a request changes the one that a failure would put back (Held).          *)
(***************************************************************************)
EXTENDS PfWebConfig, FiniteSetTheorems, SequenceTheorems, WellFoundedInduction, TLAPS

----------------------------------------------------------------------------
(* Keys.                                                                    *)

\* No two keys are the same.
LEMMA KeysDiffer ==
    \A t, u, i, j :
        /\ Count(t) = Count(u) => t = u
        /\ Alias(t, i) = Alias(u, j) => t = u /\ i = j
        /\ Attrs(t, i) = Attrs(u, j) => t = u /\ i = j
        /\ Count(t) # Alias(u, j) /\ Count(t) # Attrs(u, j) /\ Alias(t, i) # Attrs(u, j)
        /\ Count(t) \notin {NoKey, Flag, Version}
        /\ Alias(t, i) \notin {NoKey, Flag, Version}
        /\ Attrs(t, i) \notin {NoKey, Flag, Version}
BY DEF NoKey, Flag, Version, Count, Alias, Attrs

LEMMA KeyTypes ==
    /\ NoKey \in Keys /\ Flag \in Keys /\ Version \in Keys
    /\ RuleKeys \subseteq Keys
    /\ \A t \in Tables :
          /\ Count(t) \in RuleKeys
          /\ \A j \in 1 .. MaxEntries : Alias(t, j) \in RuleKeys
          /\ \A i \in 0 .. MaxEntries : Attrs(t, i) \in RuleKeys
BY DEF Keys, RuleKeys

LEMMA RuleKeyCases ==
    ASSUME NEW k \in RuleKeys
    PROVE  \E t \in Tables :
              \/ k = Count(t)
              \/ \E j \in 1 .. MaxEntries : k = Alias(t, j)
              \/ \E i \in 0 .. MaxEntries : k = Attrs(t, i)
BY DEF RuleKeys

\* The flag and the version are no keys of a rule, nor is the cleared key.
LEMMA OtherKeys == \A k \in RuleKeys : k \notin {NoKey, Flag, Version}
<1> SUFFICES ASSUME NEW k \in RuleKeys PROVE k \notin {NoKey, Flag, Version}
  OBVIOUS
<1> QED BY RuleKeyCases, KeysDiffer

----------------------------------------------------------------------------
(* Pairs that are set.                                                      *)

\* The slots 1 .. n of a buffer have the key k.
Listed(k, arr, n) == \E i \in 1 .. n : arr[i].cmd = k

\* A set of slots that is not empty has a last one.
LEMMA LastSlot ==
    ASSUME NEW n \in Nat, NEW W, W \subseteq 1 .. n, W # {}
    PROVE  \E i \in W : \A j \in W : j <= i
<1> DEFINE T == {n - i : i \in W}
           Less == {ss \in Nat \X Nat : ss[1] < ss[2]}
<1>1. T \subseteq Nat /\ T # {}
  <2>1. ASSUME NEW i \in W PROVE n - i \in Nat
    <3>1. i \in 1 .. n
      OBVIOUS
    <3> QED BY <3>1
  <2> QED BY <2>1
<1>2. IsWellFoundedOn(Less, Nat)
  BY NatLessThanWellFounded DEF OpToRel
<1>3. PICK x \in T : \A y \in T : ~ (y < x)
  <2> HIDE DEF T, Less
  <2>1. PICK x \in T : \A y \in T : ~ (<<y, x>> \in Less)
    BY <1>1, <1>2, WFMin
  <2>2. ASSUME NEW y \in T PROVE ~ (y < x)
    <3>1. <<y, x>> \in Nat \X Nat /\ <<y, x>>[1] = y /\ <<y, x>>[2] = x
      BY <1>1
    <3> QED BY <2>1, <3>1 DEF Less
  <2> QED BY <2>1, <2>2
<1>4. PICK i \in W : x = n - i
  OBVIOUS
<1>5. ASSUME NEW j \in W PROVE j <= i
  <2>1. n - j \in T
    OBVIOUS
  <2>2. i \in Int /\ j \in Int
    OBVIOUS
  <2>3. ~ (n - j < n - i)
    BY <1>3, <1>4, <2>1
  <2> HIDE DEF T
  <2> QED BY <2>2, <2>3
<1> QED BY <1>4, <1>5

\* A key of the buffer gets a value that the buffer has for it, any other key
\* keeps the value it had.
LEMMA SetPairsRead ==
    ASSUME NEW d, NEW arr, NEW n \in Nat, NEW k \in Keys
    PROVE  /\ ~Listed(k, arr, n) => SetPairs(d, arr, n)[k] = d[k]
           /\ Listed(k, arr, n) =>
                \E i \in 1 .. n : arr[i].cmd = k /\ SetPairs(d, arr, n)[k] = arr[i].val
<1> DEFINE W == {i \in 1 .. n : arr[i].cmd = k}
           last == CHOOSE i \in W : \A j \in W : j <= i
<1>1. SetPairs(d, arr, n)[k] = IF W = {} THEN d[k] ELSE arr[last].val
  BY DEF SetPairs
<1>2. W # {} => last \in W
  <2> HAVE W # {}
  <2>1. \E i \in W : \A j \in W : j <= i
    BY LastSlot
  <2> HIDE DEF W
  <2> QED BY <2>1
<1>3. Listed(k, arr, n) <=> W # {}
  BY DEF Listed
<1> HIDE DEF last
<1> QED BY <1>1, <1>2, <1>3

LEMMA UnsetPairsRead ==
    ASSUME NEW d, NEW arr, NEW n, NEW k \in Keys
    PROVE  UnsetPairs(d, arr, n)[k] = IF Listed(k, arr, n) THEN Unset ELSE d[k]
BY DEF UnsetPairs, Listed

\* Only the slots 1 .. n matter.
LEMMA SameSlots ==
    ASSUME NEW n \in Nat, NEW arr, NEW old, \A i \in 1 .. n : arr[i] = old[i]
    PROVE  /\ \A k : Listed(k, arr, n) <=> Listed(k, old, n)
           /\ \A d : SetPairs(d, arr, n) = SetPairs(d, old, n)
<1>1. \A k : {i \in 1 .. n : arr[i].cmd = k} = {i \in 1 .. n : old[i].cmd = k}
  OBVIOUS
<1>2. ASSUME NEW d, NEW k \in Keys
      PROVE  SetPairs(d, arr, n)[k] = SetPairs(d, old, n)[k]
  <2> DEFINE W == {i \in 1 .. n : arr[i].cmd = k}
             V == {i \in 1 .. n : old[i].cmd = k}
             last == CHOOSE i \in W : \A j \in W : j <= i
             lastV == CHOOSE i \in V : \A j \in V : j <= i
  <2>1. W = V
    BY <1>1
  <2>2. W # {} => last \in W
    <3> HAVE W # {}
    <3>1. \E i \in W : \A j \in W : j <= i
      BY LastSlot
    <3> HIDE DEF W
    <3> QED BY <3>1
  <2>3. SetPairs(d, arr, n)[k] = IF W = {} THEN d[k] ELSE arr[last].val
    BY DEF SetPairs
  <2>4. SetPairs(d, old, n)[k] = IF V = {} THEN d[k] ELSE old[lastV].val
    BY DEF SetPairs
  <2>5. last = lastV
    BY <2>1
  <2>6. W # {} => arr[last] = old[last]
    BY <2>2
  <2> HIDE DEF last, lastV, W, V
  <2> QED BY <2>1, <2>3, <2>4, <2>5, <2>6
<1>3. ASSUME NEW d PROVE SetPairs(d, arr, n) = SetPairs(d, old, n)
  <2>1. /\ SetPairs(d, arr, n) = [k \in Keys |-> SetPairs(d, arr, n)[k]]
        /\ SetPairs(d, old, n) = [k \in Keys |-> SetPairs(d, old, n)[k]]
    BY DEF SetPairs
  <2> QED BY <1>2, <2>1
<1> QED BY <1>3 DEF Listed

----------------------------------------------------------------------------
(* Stores and buffers whose counts and aliases are within the bound.        *)

Bounded == {Count(t) : t \in Tables} \cup {Alias(t, j) : t \in Tables, j \in 1 .. MaxEntries}

Store == {d \in [Keys -> {v \in Int : v >= Unset}] : \A k \in Bounded : d[k] <= MaxEntries}
Pairs == {x \in Slot : x.cmd # Flag /\ (x.cmd \in Bounded => x.val <= MaxEntries)}
OfPairs(arr, n) == \A i \in 1 .. n : arr[i] \in Pairs

USE MaxEntriesAssumption, MaxUpsetsAssumption DEF Unset, Empty

LEMMA BoundedKeys ==
    /\ \A t \in Tables : Count(t) \in Bounded /\ \A j \in 1 .. MaxEntries : Alias(t, j) \in Bounded
    /\ \A t \in Tables : \A i : Attrs(t, i) \notin Bounded
    /\ Flag \notin Bounded /\ Version \notin Bounded /\ NoKey \notin Bounded
BY KeysDiffer DEF Bounded

LEMMA NotFlag ==
    /\ \A t, i : Count(t) # Flag /\ Alias(t, i) # Flag /\ Attrs(t, i) # Flag
    /\ NoKey # Flag /\ Version # Flag
<1>1. \A t, i : Count(t) # Flag /\ Alias(t, i) # Flag /\ Attrs(t, i) # Flag
  BY KeysDiffer
<1>2. NoKey # Flag /\ Version # Flag
  BY DEF NoKey, Flag, Version
<1> QED BY <1>1, <1>2

LEMMA StoreParts ==
    ASSUME NEW d \in Store
    PROVE  /\ DOMAIN d = Keys
           /\ \A k \in Keys : d[k] \in Int /\ d[k] >= -2
           /\ \A t \in Tables :
                /\ d[Count(t)] \in -2 .. MaxEntries
                /\ Atoi(d[Count(t)]) \in 0 .. MaxEntries
                /\ \A j \in 1 .. MaxEntries : d[Alias(t, j)] \in -2 .. MaxEntries
<1>1. /\ d \in [Keys -> {v \in Int : v >= -2}]
      /\ \A k \in Bounded : d[k] <= MaxEntries
  BY DEF Store
<1>2. \A k \in Keys : d[k] \in Int /\ d[k] >= -2
  BY <1>1
<1> QED BY <1>1, <1>2, KeyTypes, BoundedKeys DEF Atoi

LEMMA PairParts ==
    ASSUME NEW x \in Pairs
    PROVE  x.cmd \in Keys /\ x.val \in Int /\ x.val >= -1
BY DEF Pairs, Slot

LEMMA SetPairsStore ==
    ASSUME NEW d \in Store, NEW arr, NEW n \in Nat, OfPairs(arr, n)
    PROVE  SetPairs(d, arr, n) \in Store
<1> DEFINE e == SetPairs(d, arr, n)
<1>1. ASSUME NEW k \in Keys
      PROVE  e[k] \in Int /\ e[k] >= -2 /\ (k \in Bounded => e[k] <= MaxEntries)
  <2>1. CASE ~Listed(k, arr, n)
    <3>1. e[k] = d[k]
      BY <2>1, SetPairsRead
    <3> QED BY <3>1 DEF Store
  <2>2. CASE Listed(k, arr, n)
    <3>1. PICK i \in 1 .. n : arr[i].cmd = k /\ e[k] = arr[i].val
      BY <2>2, SetPairsRead
    <3>2. arr[i] \in Slot /\ (k \in Bounded => arr[i].val <= MaxEntries)
      BY <3>1 DEF Pairs, OfPairs
    <3> HIDE DEF e
    <3> QED BY <3>1, <3>2 DEF Slot
  <2> QED BY <2>1, <2>2
<1>2. e = [k \in Keys |-> e[k]]
  BY DEF SetPairs
<1>3. Bounded \subseteq Keys
  BY KeyTypes DEF Bounded
<1> HIDE DEF e
<1> QED BY <1>1, <1>2, <1>3 DEF Store, e

\* The enable flag is in no buffer.
LEMMA FlagKept ==
    ASSUME NEW d, NEW arr, NEW n \in Nat, OfPairs(arr, n)
    PROVE  SetPairs(d, arr, n)[Flag] = d[Flag] /\ UnsetPairs(d, arr, n)[Flag] = d[Flag]
<1>1. ~Listed(Flag, arr, n)
  BY DEF Listed, OfPairs, Pairs
<1>2. Flag \in Keys
  BY KeyTypes
<1> QED BY <1>1, <1>2, SetPairsRead, UnsetPairsRead

LEMMA UnsetPairsStore ==
    ASSUME NEW d \in Store, NEW arr, NEW n \in Nat
    PROVE  UnsetPairs(d, arr, n) \in Store
<1> DEFINE e == UnsetPairs(d, arr, n)
<1>1. ASSUME NEW k \in Keys
      PROVE  e[k] \in Int /\ e[k] >= -2 /\ (k \in Bounded => e[k] <= MaxEntries)
  <2>1. e[k] = IF Listed(k, arr, n) THEN -2 ELSE d[k]
    BY UnsetPairsRead
  <2> HIDE DEF e
  <2> QED BY <2>1 DEF Store
<1>2. e = [k \in Keys |-> e[k]]
  BY DEF UnsetPairs
<1>3. Bounded \subseteq Keys
  BY KeyTypes DEF Bounded
<1> HIDE DEF e
<1> QED BY <1>1, <1>2, <1>3 DEF Store, e

----------------------------------------------------------------------------
(* A buffer that describes a table of rules: the counts it has, and for     *)
(* each row up to the count the alias and the attributes it names.          *)

Describes(arr, n, c, a) ==
    /\ \A i \in 1 .. n : \E t \in Tables :
          \/ c[t] # Unset /\ arr[i].cmd = Count(t) /\ arr[i].val = c[t]
          \/ \E j \in 1 .. Atoi(c[t]) :
                \/ arr[i].cmd = Alias(t, j) /\ arr[i].val = a[t][j]
                \/ arr[i].cmd = Attrs(t, Atoi(a[t][j]))
    /\ \A t \in Tables :
          /\ c[t] # Unset => Listed(Count(t), arr, n)
          /\ \A j \in 1 .. Atoi(c[t]) :
                Listed(Alias(t, j), arr, n) /\ Listed(Attrs(t, Atoi(a[t][j])), arr, n)

\* The table names the attributes i.
Named(i, t, c, a) == \E j \in 1 .. Atoi(c[t]) : Atoi(a[t][j]) = i

Counts  == [Tables -> -2 .. MaxEntries]
Aliases == [Tables -> [1 .. MaxEntries -> -1 .. MaxEntries]]

LEMMA CountRange ==
    ASSUME NEW c \in Counts, NEW a \in Aliases, NEW t \in Tables
    PROVE  /\ c[t] \in -2 .. MaxEntries
           /\ Atoi(c[t]) \in 0 .. MaxEntries
           /\ \A j \in 1 .. Atoi(c[t]) :
                 /\ j \in 1 .. MaxEntries
                 /\ a[t][j] \in -1 .. MaxEntries
                 /\ Atoi(a[t][j]) \in 0 .. MaxEntries
<1>1. c[t] \in -2 .. MaxEntries /\ a[t] \in [1 .. MaxEntries -> -1 .. MaxEntries]
  BY DEF Counts, Aliases
<1>2. Atoi(c[t]) \in 0 .. MaxEntries
  BY <1>1 DEF Atoi
<1>3. ASSUME NEW j \in 1 .. Atoi(c[t])
      PROVE  j \in 1 .. MaxEntries /\ a[t][j] \in -1 .. MaxEntries
  BY <1>1, <1>2
<1> QED BY <1>1, <1>2, <1>3 DEF Atoi

\* A slot of such a buffer, by its key.
LEMMA DescribedSlot ==
    ASSUME NEW arr, NEW n \in Nat, NEW c \in Counts, NEW a \in Aliases,
           Describes(arr, n, c, a), NEW t \in Tables, NEW i \in 1 .. n
    PROVE  /\ arr[i].cmd = Count(t) => c[t] # -2 /\ arr[i].val = c[t]
           /\ \A j : arr[i].cmd = Alias(t, j) => j \in 1 .. Atoi(c[t]) /\ arr[i].val = a[t][j]
           /\ \A k : arr[i].cmd = Attrs(t, k) => Named(k, t, c, a)
<1>1. PICK u \in Tables :
        \/ c[u] # -2 /\ arr[i].cmd = Count(u) /\ arr[i].val = c[u]
        \/ \E j \in 1 .. Atoi(c[u]) :
              \/ arr[i].cmd = Alias(u, j) /\ arr[i].val = a[u][j]
              \/ arr[i].cmd = Attrs(u, Atoi(a[u][j]))
  BY DEF Describes
<1>2. CASE c[u] # -2 /\ arr[i].cmd = Count(u) /\ arr[i].val = c[u]
  BY <1>2, KeysDiffer
<1>3. CASE \E j \in 1 .. Atoi(c[u]) : arr[i].cmd = Alias(u, j) /\ arr[i].val = a[u][j]
  BY <1>3, KeysDiffer
<1>4. CASE \E j \in 1 .. Atoi(c[u]) : arr[i].cmd = Attrs(u, Atoi(a[u][j]))
  BY <1>4, KeysDiffer DEF Named
<1> QED BY <1>1, <1>2, <1>3, <1>4

\* The keys of such a buffer.
LEMMA DescribedKeys ==
    ASSUME NEW arr, NEW n \in Nat, NEW c \in Counts, NEW a \in Aliases,
           Describes(arr, n, c, a), NEW t \in Tables
    PROVE  /\ Listed(Count(t), arr, n) <=> c[t] # -2
           /\ \A j : Listed(Alias(t, j), arr, n) <=> j \in 1 .. Atoi(c[t])
           /\ \A i : Listed(Attrs(t, i), arr, n) <=> Named(i, t, c, a)
<1>1. ASSUME NEW i \in 1 .. n
      PROVE  /\ arr[i].cmd = Count(t) => c[t] # -2
             /\ \A j : arr[i].cmd = Alias(t, j) => j \in 1 .. Atoi(c[t])
             /\ \A k : arr[i].cmd = Attrs(t, k) => Named(k, t, c, a)
  BY DescribedSlot
<1>2. Listed(Count(t), arr, n) <=> c[t] # -2
  BY <1>1 DEF Describes, Listed
<1>3. ASSUME NEW j PROVE Listed(Alias(t, j), arr, n) <=> j \in 1 .. Atoi(c[t])
  BY <1>1 DEF Describes, Listed
<1>4. ASSUME NEW i
      PROVE  Listed(Attrs(t, i), arr, n) <=> Named(i, t, c, a)
  BY <1>1 DEF Describes, Listed, Named
<1> QED BY <1>2, <1>3, <1>4

\* What a store reads as once such a buffer is set.
LEMMA DescribedRead ==
    ASSUME NEW arr, NEW n \in Nat, NEW c \in Counts, NEW a \in Aliases,
           Describes(arr, n, c, a), OfPairs(arr, n),
           NEW d \in Store, NEW t \in Tables
    PROVE  LET e == SetPairs(d, arr, n) IN
           /\ e[Count(t)] = IF c[t] = -2 THEN d[Count(t)] ELSE c[t]
           /\ \A j \in 1 .. MaxEntries :
                 e[Alias(t, j)] = IF j \in 1 .. Atoi(c[t]) THEN a[t][j] ELSE d[Alias(t, j)]
           /\ \A i \in 0 .. MaxEntries :
                 /\ Named(i, t, c, a) => e[Attrs(t, i)] # -2
                 /\ ~Named(i, t, c, a) => e[Attrs(t, i)] = d[Attrs(t, i)]
<1> DEFINE e == SetPairs(d, arr, n)
<1>1. ASSUME NEW k \in Keys
      PROVE  /\ ~Listed(k, arr, n) => e[k] = d[k]
             /\ Listed(k, arr, n) => \E i \in 1 .. n : arr[i].cmd = k /\ e[k] = arr[i].val
  <2> HIDE DEF e
  <2>1. e = SetPairs(d, arr, n)
    BY DEF e
  <2> QED BY <2>1, SetPairsRead
<1>2. \A i \in 1 .. n : arr[i].val # -2
  <2> TAKE i \in 1 .. n
  <2>1. arr[i] \in Pairs
    BY DEF OfPairs
  <2>2. arr[i].val \in Int /\ arr[i].val >= -1
    BY <2>1, PairParts
  <2> QED BY <2>2
<1> HIDE DEF e
<1>3. e[Count(t)] = IF c[t] = -2 THEN d[Count(t)] ELSE c[t]
  <2>1. Listed(Count(t), arr, n) <=> c[t] # -2
    BY DescribedKeys
  <2>2. Count(t) \in Keys
    BY KeyTypes
  <2> QED BY <1>1, <2>1, <2>2, DescribedSlot
<1>4. ASSUME NEW j \in 1 .. MaxEntries
      PROVE  e[Alias(t, j)] = IF j \in 1 .. Atoi(c[t]) THEN a[t][j] ELSE d[Alias(t, j)]
  <2>1. Alias(t, j) \in Keys
    BY KeyTypes
  <2>2. Listed(Alias(t, j), arr, n) <=> j \in 1 .. Atoi(c[t])
    BY DescribedKeys
  <2>3. \A i \in 1 .. n : arr[i].cmd = Alias(t, j) => arr[i].val = a[t][j]
    BY DescribedSlot
  <2> QED BY <1>1, <2>1, <2>2, <2>3
<1>5. ASSUME NEW i \in 0 .. MaxEntries
      PROVE  /\ Named(i, t, c, a) => e[Attrs(t, i)] # -2
             /\ ~Named(i, t, c, a) => e[Attrs(t, i)] = d[Attrs(t, i)]
  <2>1. Attrs(t, i) \in Keys
    BY KeyTypes
  <2>2. Listed(Attrs(t, i), arr, n) <=> Named(i, t, c, a)
    BY DescribedKeys
  <2> QED BY <1>1, <1>2, <2>1, <2>2
<1> QED BY <1>3, <1>4, <1>5 DEF e

----------------------------------------------------------------------------
(* What setting a buffer achieves, whatever the store.                      *)

\* Every rule that the count of a table, or of each table, names is there.
CompleteAt(d, t) ==
    \A j \in 1 .. Atoi(d[Count(t)]) :
        /\ d[Alias(t, j)] # Unset
        /\ d[Attrs(t, Atoi(d[Alias(t, j)]))] # Unset
Complete(d) == \A t \in Tables : CompleteAt(d, t)

\* Every key of a rule is one that init_pf_cache finds.
Whole(d) ==
    \A t \in Tables :
        /\ \A j \in 1 .. MaxEntries : d[Alias(t, j)] # Unset => j <= Atoi(d[Count(t)])
        /\ \A i \in 0 .. MaxEntries : d[Attrs(t, i)] # Unset =>
              \E j \in 1 .. Atoi(d[Count(t)]) : Atoi(d[Alias(t, j)]) = i

\* The buffer has the counts of the tables that are not complete, or all the
\* rule keys that the store has.
Covers(d, arr, n) == \A t \in Tables : Listed(Count(t), arr, n) \/ CompleteAt(d, t)
Tracks(d, arr, n) == \A k \in RuleKeys : d[k] # Unset => Listed(k, arr, n)

\* A table whose count the buffer does not have is one it leaves alone.
Closed(arr, n) ==
    \A t \in Tables : ~Listed(Count(t), arr, n) =>
        (\A j : ~Listed(Alias(t, j), arr, n)) /\ (\A i : ~Listed(Attrs(t, i), arr, n))

Sound(arr, n) ==
    /\ Closed(arr, n)
    /\ \A d \in Store : Covers(d, arr, n) => Complete(SetPairs(d, arr, n))
Neat(arr, n)  == \A d \in Store : Tracks(d, arr, n) => Whole(SetPairs(d, arr, n))

\* What is complete covers itself; a table without a count has no rules.
LEMMA CompleteCovers ==
    /\ \A d, arr, n : Complete(d) => Covers(d, arr, n)
    /\ \A d, t : d[Count(t)] = -2 => CompleteAt(d, t)
<1>1. \A d, t : d[Count(t)] = -2 => Atoi(d[Count(t)]) = 0
  BY DEF Atoi
<1>2. ASSUME NEW d, NEW t, d[Count(t)] = -2 PROVE CompleteAt(d, t)
  <2>1. 1 .. Atoi(d[Count(t)]) = {}
    BY <1>1, <1>2
  <2> QED BY <2>1 DEF CompleteAt
<1>3. \A d, arr, n : Complete(d) => Covers(d, arr, n)
  BY DEF Complete, Covers
<1> QED BY <1>2, <1>3

\* A table that is the same in two stores.
LEMMA SameTable ==
    ASSUME NEW d \in Store, NEW e, NEW t \in Tables, e[Count(t)] = d[Count(t)],
           \A j \in 1 .. MaxEntries : e[Alias(t, j)] = d[Alias(t, j)],
           \A i \in 0 .. MaxEntries : e[Attrs(t, i)] = d[Attrs(t, i)]
    PROVE  CompleteAt(d, t) => CompleteAt(e, t)
<1> SUFFICES ASSUME CompleteAt(d, t), NEW j \in 1 .. Atoi(e[Count(t)])
             PROVE  e[Alias(t, j)] # -2 /\ e[Attrs(t, Atoi(e[Alias(t, j)]))] # -2
  BY DEF CompleteAt
<1>1. Atoi(d[Count(t)]) \in 0 .. MaxEntries /\ \A m \in 1 .. MaxEntries : d[Alias(t, m)] \in -2 .. MaxEntries
  BY StoreParts
<1>2. j \in 1 .. Atoi(d[Count(t)]) /\ j \in 1 .. MaxEntries
  BY <1>1
<1>3. e[Alias(t, j)] = d[Alias(t, j)]
  BY <1>2
<1>4. Atoi(d[Alias(t, j)]) \in 0 .. MaxEntries
  BY <1>1, <1>2 DEF Atoi
<1>5. d[Alias(t, j)] # -2 /\ d[Attrs(t, Atoi(d[Alias(t, j)]))] # -2
  BY <1>2 DEF CompleteAt
<1>6. e[Attrs(t, Atoi(d[Alias(t, j)]))] = d[Attrs(t, Atoi(d[Alias(t, j)]))]
  BY <1>4
<1> QED BY <1>3, <1>5, <1>6

LEMMA DescribedSound ==
    ASSUME NEW arr, NEW n \in Nat, NEW c \in Counts, NEW a \in Aliases,
           Describes(arr, n, c, a), OfPairs(arr, n)
    PROVE  Sound(arr, n)
<1>1. Closed(arr, n)
  <2>1. ASSUME NEW t \in Tables, ~Listed(Count(t), arr, n)
        PROVE  (\A j : ~Listed(Alias(t, j), arr, n)) /\ (\A i : ~Listed(Attrs(t, i), arr, n))
    <3>1. c[t] = -2
      BY <2>1, DescribedKeys
    <3>2. 1 .. Atoi(c[t]) = {}
      BY <3>1 DEF Atoi
    <3>3. \A i : ~Named(i, t, c, a)
      BY <3>2 DEF Named
    <3> QED BY <3>2, <3>3, DescribedKeys
  <2> QED BY <2>1 DEF Closed
<1>2. ASSUME NEW d \in Store, Covers(d, arr, n), NEW t \in Tables
      PROVE  CompleteAt(SetPairs(d, arr, n), t)
  <2> DEFINE e == SetPairs(d, arr, n)
  <2>1. /\ e[Count(t)] = IF c[t] = -2 THEN d[Count(t)] ELSE c[t]
        /\ \A k \in 1 .. MaxEntries :
              e[Alias(t, k)] = IF k \in 1 .. Atoi(c[t]) THEN a[t][k] ELSE d[Alias(t, k)]
        /\ \A i \in 0 .. MaxEntries :
              /\ Named(i, t, c, a) => e[Attrs(t, i)] # -2
              /\ ~Named(i, t, c, a) => e[Attrs(t, i)] = d[Attrs(t, i)]
    BY DescribedRead
  <2> HIDE DEF e
  <2>2. CASE c[t] = -2
    <3>1. 1 .. Atoi(c[t]) = {}
      BY <2>2 DEF Atoi
    <3>2. \A i : ~Named(i, t, c, a)
      BY <3>1 DEF Named
    <3>3. CompleteAt(d, t)
      <4>1. ~Listed(Count(t), arr, n)
        BY <2>2, DescribedKeys
      <4> QED BY <1>2, <4>1 DEF Covers
    <3>4. e[Count(t)] = d[Count(t)]
      BY <2>1, <2>2
    <3>5. \A k \in 1 .. MaxEntries : e[Alias(t, k)] = d[Alias(t, k)]
      BY <2>1, <3>1
    <3>6. \A i \in 0 .. MaxEntries : e[Attrs(t, i)] = d[Attrs(t, i)]
      BY <2>1, <3>2
    <3> QED BY <3>3, <3>4, <3>5, <3>6, SameTable DEF e
  <2>3. CASE c[t] # -2
    <3>1. ASSUME NEW j \in 1 .. Atoi(e[Count(t)])
          PROVE  e[Alias(t, j)] # -2 /\ e[Attrs(t, Atoi(e[Alias(t, j)]))] # -2
      <4>1. j \in 1 .. Atoi(c[t])
        BY <2>1, <2>3
      <4>2. /\ j \in 1 .. MaxEntries /\ a[t][j] \in -1 .. MaxEntries
            /\ Atoi(a[t][j]) \in 0 .. MaxEntries
        BY <4>1, CountRange
      <4>3. e[Alias(t, j)] = a[t][j]
        BY <2>1, <4>1, <4>2
      <4>4. Named(Atoi(a[t][j]), t, c, a)
        BY <4>1 DEF Named
      <4>5. e[Attrs(t, Atoi(e[Alias(t, j)]))] # -2
        BY <2>1, <4>2, <4>3, <4>4
      <4> QED BY <4>2, <4>3, <4>5
    <3>2. CompleteAt(e, t)
      BY <3>1 DEF CompleteAt
    <3> QED BY <3>2 DEF e
  <2> QED BY <2>2, <2>3
<1>3. \A d \in Store : Covers(d, arr, n) => Complete(SetPairs(d, arr, n))
  BY <1>2 DEF Complete
<1> QED BY <1>1, <1>3 DEF Sound

LEMMA DescribedNeat ==
    ASSUME NEW arr, NEW n \in Nat, NEW c \in Counts, NEW a \in Aliases,
           Describes(arr, n, c, a), OfPairs(arr, n)
    PROVE  Neat(arr, n)
<1> SUFFICES ASSUME NEW d \in Store, Tracks(d, arr, n), NEW t \in Tables
             PROVE  LET e == SetPairs(d, arr, n) IN
                    /\ \A j \in 1 .. MaxEntries : e[Alias(t, j)] # -2 => j <= Atoi(e[Count(t)])
                    /\ \A i \in 0 .. MaxEntries : e[Attrs(t, i)] # -2 =>
                          \E j \in 1 .. Atoi(e[Count(t)]) : Atoi(e[Alias(t, j)]) = i
  BY DEF Neat, Whole
<1> DEFINE e == SetPairs(d, arr, n)
<1>1. /\ e[Count(t)] = IF c[t] = -2 THEN d[Count(t)] ELSE c[t]
      /\ \A k \in 1 .. MaxEntries :
            e[Alias(t, k)] = IF k \in 1 .. Atoi(c[t]) THEN a[t][k] ELSE d[Alias(t, k)]
      /\ \A i \in 0 .. MaxEntries : ~Named(i, t, c, a) => e[Attrs(t, i)] = d[Attrs(t, i)]
  BY DescribedRead
<1> HIDE DEF e
<1>2. c[t] = -2 => d[Count(t)] = -2
  <2>1. d[Count(t)] # -2 => Listed(Count(t), arr, n)
    BY KeyTypes DEF Tracks
  <2>2. Listed(Count(t), arr, n) <=> c[t] # -2
    BY DescribedKeys
  <2> QED BY <2>1, <2>2
<1>3. Atoi(e[Count(t)]) = Atoi(c[t])
  BY <1>1, <1>2
<1>4. ASSUME NEW j \in 1 .. MaxEntries, e[Alias(t, j)] # -2
      PROVE  j \in 1 .. Atoi(c[t])
  <2>1. SUFFICES ASSUME j \notin 1 .. Atoi(c[t]) PROVE FALSE
    OBVIOUS
  <2>2. d[Alias(t, j)] # -2
    BY <1>1, <1>4, <2>1
  <2>3. Listed(Alias(t, j), arr, n)
    BY <2>2, KeyTypes DEF Tracks
  <2> QED BY <2>1, <2>3, DescribedKeys
<1>5. ASSUME NEW i \in 0 .. MaxEntries, e[Attrs(t, i)] # -2
      PROVE  \E j \in 1 .. Atoi(c[t]) : Atoi(e[Alias(t, j)]) = i
  <2>1. Named(i, t, c, a)
    <3>1. SUFFICES ASSUME ~Named(i, t, c, a) PROVE FALSE
      OBVIOUS
    <3>2. d[Attrs(t, i)] # -2
      BY <1>1, <1>5, <3>1
    <3>3. Listed(Attrs(t, i), arr, n)
      BY <3>2, KeyTypes DEF Tracks
    <3> QED BY <3>1, <3>3, DescribedKeys
  <2>2. PICK j \in 1 .. Atoi(c[t]) : Atoi(a[t][j]) = i
    BY <2>1 DEF Named
  <2>3. e[Alias(t, j)] = a[t][j]
    BY <1>1, CountRange
  <2> QED BY <2>2, <2>3
<1>6. \A j \in 1 .. MaxEntries : e[Alias(t, j)] # -2 => j <= Atoi(e[Count(t)])
  BY <1>3, <1>4, CountRange
<1>7. \A i \in 0 .. MaxEntries : e[Attrs(t, i)] # -2 =>
          \E j \in 1 .. Atoi(e[Count(t)]) : Atoi(e[Alias(t, j)]) = i
  BY <1>3, <1>5
<1> QED BY <1>6, <1>7 DEF e

----------------------------------------------------------------------------
(* The rank of an entry among those of its table.                           *)

LEMMA OfTableFinite ==
    ASSUME NEW b, NEW t, NEW n \in Nat
    PROVE  IsFiniteSet(OfTable(b, t, n)) /\ Rank(b, t, n) \in 0 .. n
<1>1. IsFiniteSet(1 .. n) /\ Cardinality(1 .. n) = n
  BY FS_Interval
<1>2. OfTable(b, t, n) \in SUBSET (1 .. n)
  BY DEF OfTable
<1>3. IsFiniteSet(OfTable(b, t, n)) /\ Cardinality(OfTable(b, t, n)) <= n
  BY <1>1, <1>2, FS_Subset
<1> QED BY <1>3, FS_CardinalityType DEF Rank

\* Ranks follow the order of the entries.
LEMMA RankGrows ==
    ASSUME NEW b, NEW t, NEW k \in Nat, NEW i \in 0 .. k
    PROVE  /\ Rank(b, t, i) <= Rank(b, t, k)
           /\ i < k /\ b[k].t = t => Rank(b, t, i) < Rank(b, t, k)
<1>1. i \in Nat
  OBVIOUS
<1>2. OfTable(b, t, i) \in SUBSET OfTable(b, t, k)
  BY <1>1 DEF OfTable
<1>3. IsFiniteSet(OfTable(b, t, k)) /\ Rank(b, t, i) \in Nat /\ Rank(b, t, k) \in Nat
  BY <1>1, OfTableFinite
<1>4. /\ Rank(b, t, i) <= Rank(b, t, k)
      /\ Rank(b, t, k) = Rank(b, t, i) => OfTable(b, t, k) = OfTable(b, t, i)
  BY <1>2, <1>3, FS_Subset DEF Rank
<1>5. ASSUME i < k, b[k].t = t PROVE OfTable(b, t, k) # OfTable(b, t, i)
  <2>1. k \in OfTable(b, t, k)
    BY <1>1, <1>5 DEF OfTable
  <2>2. k \notin OfTable(b, t, i)
    BY <1>1, <1>5 DEF OfTable
  <2> QED BY <2>1, <2>2
<1> QED BY <1>3, <1>4, <1>5

\* Every rank up to the number of the entries belongs to one of them.
LEMMA RankBijection ==
    ASSUME NEW b, NEW t, NEW n \in Nat
    PROVE  /\ \A i \in OfTable(b, t, n) : Rank(b, t, i) \in 1 .. Rank(b, t, n)
           /\ \A i, k \in OfTable(b, t, n) : Rank(b, t, i) = Rank(b, t, k) => i = k
           /\ \A j \in 1 .. Rank(b, t, n) : \E i \in OfTable(b, t, n) : Rank(b, t, i) = j
<1> DEFINE T == OfTable(b, t, n)
           f == [i \in T |-> Rank(b, t, i)]
<1>1. \A i \in T : i \in 1 .. n /\ b[i].t = t
  BY DEF OfTable
<1>2. Rank(b, t, n) \in Nat
  BY OfTableFinite
<1>3. ASSUME NEW i \in T PROVE Rank(b, t, i) \in 1 .. Rank(b, t, n)
  <2>1. i \in 1 .. n /\ i \in 0 .. n /\ i \in Nat /\ b[i].t = t
    BY <1>1
  <2>2. Rank(b, t, i) <= Rank(b, t, n)
    BY <2>1, RankGrows
  <2>3. 0 \in 0 .. i /\ 0 \in Nat /\ 0 < i
    BY <2>1
  <2>4. Rank(b, t, 0) < Rank(b, t, i)
    BY <2>1, <2>3, RankGrows
  <2>5. Rank(b, t, 0) \in Nat /\ Rank(b, t, i) \in Nat
    BY <2>1, <2>3, OfTableFinite
  <2> QED BY <1>2, <2>2, <2>4, <2>5
<1>4. ASSUME NEW i \in T, NEW k \in T, Rank(b, t, i) = Rank(b, t, k)
      PROVE  i = k
  <2>1. i \in 1 .. n /\ b[i].t = t /\ k \in 1 .. n /\ b[k].t = t
    BY <1>1
  <2>2. Rank(b, t, i) \in Nat /\ Rank(b, t, k) \in Nat
    BY <1>2, <1>3
  <2>3. ~(i < k)
    <3>1. SUFFICES ASSUME i < k PROVE FALSE
      OBVIOUS
    <3>2. i \in 0 .. k /\ k \in Nat
      BY <2>1, <3>1
    <3>3. Rank(b, t, i) < Rank(b, t, k)
      BY <2>1, <3>1, <3>2, RankGrows
    <3> QED BY <1>4, <2>2, <3>3
  <2>4. ~(k < i)
    <3>1. SUFFICES ASSUME k < i PROVE FALSE
      OBVIOUS
    <3>2. k \in 0 .. i /\ i \in Nat
      BY <2>1, <3>1
    <3>3. Rank(b, t, k) < Rank(b, t, i)
      BY <2>1, <3>1, <3>2, RankGrows
    <3> QED BY <1>4, <2>2, <3>3
  <2> QED BY <2>1, <2>3, <2>4
<1>5. IsFiniteSet(1 .. Rank(b, t, n)) /\ Cardinality(1 .. Rank(b, t, n)) = Rank(b, t, n)
  BY <1>2, FS_Interval
<1>6. Cardinality(T) = Rank(b, t, n)
  BY DEF Rank
<1> HIDE DEF T
<1>7. f \in Injection(T, 1 .. Rank(b, t, n))
  BY <1>3, <1>4 DEF Injection, IsInjective
<1>8. f \in Surjection(T, 1 .. Rank(b, t, n))
  BY <1>5, <1>6, <1>7, FS_Injection
<1>9. \A j \in 1 .. Rank(b, t, n) : \E i \in T : Rank(b, t, i) = j
  BY <1>8 DEF Surjection
<1> QED BY <1>3, <1>4, <1>9 DEF T

----------------------------------------------------------------------------
(* The buffer of a blob.                                                    *)

Blob == {b \in Seq(Row) : Len(b) <= MaxEntries}

\* The entry that is the j-th one of its table.
Nth(b, t, j) == CHOOSE i \in OfTable(b, t, Len(b)) : Rank(b, t, i) = j

CountsOf(b)  == [t \in Tables |-> Rank(b, t, Len(b))]
AliasesOf(b) == [t \in Tables |-> [j \in 1 .. MaxEntries |->
                    IF j \in 1 .. Rank(b, t, Len(b)) THEN Nth(b, t, j) ELSE 0]]

LEMMA BlobParts ==
    ASSUME NEW b \in Blob
    PROVE  /\ Len(b) \in 0 .. MaxEntries
           /\ \A i \in 1 .. Len(b) : b[i].t \in Tables /\ b[i].r \in Nat
<1>1. b \in Seq(Row) /\ Len(b) <= MaxEntries
  BY DEF Blob
<1>2. Len(b) \in Nat
  BY <1>1, LenProperties
<1>3. ASSUME NEW i \in 1 .. Len(b) PROVE b[i].t \in Tables /\ b[i].r \in Nat
  <2>1. b[i] \in Row
    BY <1>1, ElementOfSeq
  <2> QED BY <2>1 DEF Row
<1> QED BY <1>1, <1>2, <1>3

LEMMA NthEntry ==
    ASSUME NEW b \in Blob, NEW t \in Tables
    PROVE  /\ Rank(b, t, Len(b)) \in 0 .. MaxEntries
           /\ \A j \in 1 .. Rank(b, t, Len(b)) :
                 /\ Nth(b, t, j) \in 1 .. Len(b)
                 /\ b[Nth(b, t, j)].t = t
                 /\ Rank(b, t, Nth(b, t, j)) = j
           /\ \A i \in 1 .. Len(b) : b[i].t = t =>
                 Rank(b, t, i) \in 1 .. Rank(b, t, Len(b)) /\ Nth(b, t, Rank(b, t, i)) = i
<1> DEFINE T == OfTable(b, t, Len(b))
<1>1. Len(b) \in Nat /\ Len(b) <= MaxEntries
  BY BlobParts
<1>2. Rank(b, t, Len(b)) \in 0 .. Len(b)
  BY <1>1, OfTableFinite
<1>3. \A i : i \in T <=> i \in 1 .. Len(b) /\ b[i].t = t
  BY DEF OfTable
<1>4. /\ \A i \in T : Rank(b, t, i) \in 1 .. Rank(b, t, Len(b))
      /\ \A i, k \in T : Rank(b, t, i) = Rank(b, t, k) => i = k
      /\ \A j \in 1 .. Rank(b, t, Len(b)) : \E i \in T : Rank(b, t, i) = j
  BY <1>1, RankBijection
<1>5. \A j : Nth(b, t, j) = CHOOSE i \in T : Rank(b, t, i) = j
  BY DEF Nth
<1> HIDE DEF T
<1>6. ASSUME NEW j \in 1 .. Rank(b, t, Len(b))
      PROVE  Nth(b, t, j) \in T /\ Rank(b, t, Nth(b, t, j)) = j
  BY <1>4, <1>5
<1>7. ASSUME NEW i \in T PROVE Nth(b, t, Rank(b, t, i)) = i
  <2>1. Rank(b, t, i) \in 1 .. Rank(b, t, Len(b))
    BY <1>4
  <2>2. /\ Nth(b, t, Rank(b, t, i)) \in T
        /\ Rank(b, t, Nth(b, t, Rank(b, t, i))) = Rank(b, t, i)
    BY <1>6, <2>1
  <2> QED BY <1>4, <2>2
<1> QED BY <1>1, <1>2, <1>3, <1>4, <1>6, <1>7

LEMMA TablesOfBlob ==
    ASSUME NEW b \in Blob
    PROVE  /\ CountsOf(b) \in Counts /\ AliasesOf(b) \in Aliases
           /\ \A t \in Tables : /\ CountsOf(b)[t] = Rank(b, t, Len(b))
                                /\ Atoi(CountsOf(b)[t]) = Rank(b, t, Len(b))
                                /\ \A j \in 1 .. Rank(b, t, Len(b)) :
                                      AliasesOf(b)[t][j] = Nth(b, t, j)
<1>1. ASSUME NEW t \in Tables
      PROVE  /\ Rank(b, t, Len(b)) \in 0 .. MaxEntries
             /\ \A j \in 1 .. Rank(b, t, Len(b)) : Nth(b, t, j) \in 1 .. MaxEntries
  BY NthEntry, BlobParts
<1>2. CountsOf(b) \in Counts
  BY <1>1 DEF CountsOf, Counts
<1>3. AliasesOf(b) \in Aliases
  <2>1. ASSUME NEW t \in Tables, NEW j \in 1 .. MaxEntries
        PROVE  (IF j \in 1 .. Rank(b, t, Len(b)) THEN Nth(b, t, j) ELSE 0) \in -1 .. MaxEntries
    BY <1>1
  <2> QED BY <2>1 DEF AliasesOf, Aliases
<1>4. ASSUME NEW t \in Tables
      PROVE  /\ CountsOf(b)[t] = Rank(b, t, Len(b))
             /\ Atoi(CountsOf(b)[t]) = Rank(b, t, Len(b))
  BY <1>1 DEF CountsOf, Atoi
<1>5. ASSUME NEW t \in Tables, NEW j \in 1 .. Rank(b, t, Len(b))
      PROVE  AliasesOf(b)[t][j] = Nth(b, t, j)
  <2>1. j \in 1 .. MaxEntries
    BY <1>1
  <2> QED BY <2>1 DEF AliasesOf
<1> QED BY <1>2, <1>3, <1>4, <1>5

\* The two slots of entry i.
LEMMA EntrySlot ==
    ASSUME NEW b \in Blob, NEW n \in 0 .. Len(b)
    PROVE  /\ EntrySlots(b, n) \in Seq(Pairs)
           /\ Len(EntrySlots(b, n)) = 2 * n
           /\ \A i \in 1 .. n :
                /\ EntrySlots(b, n)[2 * i - 1] = [cmd |-> Alias(b[i].t, Rank(b, b[i].t, i)), val |-> i]
                /\ EntrySlots(b, n)[2 * i] = [cmd |-> Attrs(b[i].t, i), val |-> b[i].r]
           /\ \A m \in 1 .. 2 * n : \E i \in 1 .. n : m = 2 * i - 1 \/ m = 2 * i
<1> DEFINE s == EntrySlots(b, n)
           AliasSlot(i) == [cmd |-> Alias(b[i].t, Rank(b, b[i].t, i)), val |-> i]
           AttrsSlot(i) == [cmd |-> Attrs(b[i].t, i), val |-> b[i].r]
<1>1. n \in Nat /\ n <= Len(b) /\ Len(b) \in 0 .. MaxEntries
  BY BlobParts
<1>2. ASSUME NEW i \in 1 .. n
      PROVE  AliasSlot(i) \in Pairs /\ AttrsSlot(i) \in Pairs
  <2>1. i \in 1 .. Len(b) /\ i \in 1 .. MaxEntries /\ b[i].t \in Tables /\ b[i].r \in Nat
    BY <1>1, BlobParts
  <2>2. Rank(b, b[i].t, i) \in 1 .. MaxEntries
    BY <1>1, <2>1, NthEntry
  <2>3. /\ Alias(b[i].t, Rank(b, b[i].t, i)) \in Keys
        /\ Attrs(b[i].t, i) \in Keys
        /\ Attrs(b[i].t, i) \notin Bounded
    BY <2>1, <2>2, KeyTypes, BoundedKeys
  <2>4. i \in Int /\ i >= -1 /\ i <= MaxEntries /\ b[i].r \in Int /\ b[i].r >= -1
    BY <2>1
  <2>5. Alias(b[i].t, Rank(b, b[i].t, i)) # Flag /\ Attrs(b[i].t, i) # Flag
    BY NotFlag
  <2> QED BY <2>3, <2>4, <2>5 DEF Pairs, Slot
<1>3. ASSUME NEW i \in 1 .. n
      PROVE  /\ 2 * i - 1 \in 1 .. 2 * n /\ (2 * i - 1 + 1) \div 2 = i /\ (2 * i - 1) % 2 = 1
             /\ 2 * i \in 1 .. 2 * n /\ (2 * i + 1) \div 2 = i /\ (2 * i) % 2 # 1
  BY <1>1
<1>4. s = [m \in 1 .. 2 * n |-> IF m % 2 = 1 THEN AliasSlot((m + 1) \div 2)
                                             ELSE AttrsSlot((m + 1) \div 2)]
  BY DEF EntrySlots
<1> HIDE DEF s, AliasSlot, AttrsSlot
<1>5. \A i \in 1 .. n : s[2 * i - 1] = AliasSlot(i) /\ s[2 * i] = AttrsSlot(i)
  BY <1>3, <1>4
<1>6. ASSUME NEW m \in 1 .. 2 * n
      PROVE  \E i \in 1 .. n : m = 2 * i - 1 \/ m = 2 * i
  <2>1. (m + 1) \div 2 \in 1 .. n /\ (m = 2 * ((m + 1) \div 2) - 1 \/ m = 2 * ((m + 1) \div 2))
    BY <1>1
  <2> QED BY <2>1
<1>7. \A m \in 1 .. 2 * n : s[m] \in Pairs
  <2> TAKE m \in 1 .. 2 * n
  <2>1. PICK i \in 1 .. n : m = 2 * i - 1 \/ m = 2 * i
    BY <1>6
  <2> QED BY <1>2, <1>5, <2>1
<1>8. s \in [1 .. 2 * n -> Pairs]
  BY <1>4, <1>7
<1>9. s \in Seq(Pairs) /\ Len(s) = 2 * n
  BY <1>1, <1>8
<1> QED BY <1>5, <1>6, <1>9 DEF s, AliasSlot, AttrsSlot

\* set_portmap_conf lists the rows of both tables and both counts.
LEMMA ConfParts ==
    ASSUME NEW b \in Blob
    PROVE  LET s == ConfSlots(b) IN
           /\ s \in Seq(Pairs)
           /\ Len(s) = 2 * Len(b) + 2
           /\ \A i \in 1 .. Len(b) :
                /\ s[2 * i - 1] = [cmd |-> Alias(b[i].t, Rank(b, b[i].t, i)), val |-> i]
                /\ s[2 * i] = [cmd |-> Attrs(b[i].t, i), val |-> b[i].r]
           /\ s[2 * Len(b) + 1] = [cmd |-> Count("spf"), val |-> Rank(b, "spf", Len(b))]
           /\ s[2 * Len(b) + 2] = [cmd |-> Count("pfr"), val |-> Rank(b, "pfr", Len(b))]
           /\ \A m \in 1 .. Len(s) : \/ \E i \in 1 .. Len(b) : m = 2 * i - 1 \/ m = 2 * i
                                     \/ m = 2 * Len(b) + 1 \/ m = 2 * Len(b) + 2
<1> DEFINE n == Len(b)
           x == [cmd |-> Count("spf"), val |-> Rank(b, "spf", n)]
           y == [cmd |-> Count("pfr"), val |-> Rank(b, "pfr", n)]
           u == <<x, y>>
           e == EntrySlots(b, n)
           s == ConfSlots(b)
<1>1. n \in Nat /\ n \in 0 .. n
  BY BlobParts
<1>2. /\ e \in Seq(Pairs) /\ Len(e) = 2 * n
      /\ \A i \in 1 .. n :
           /\ e[2 * i - 1] = [cmd |-> Alias(b[i].t, Rank(b, b[i].t, i)), val |-> i]
           /\ e[2 * i] = [cmd |-> Attrs(b[i].t, i), val |-> b[i].r]
      /\ \A m \in 1 .. 2 * n : \E i \in 1 .. n : m = 2 * i - 1 \/ m = 2 * i
  BY <1>1, EntrySlot
<1>3. x \in Pairs /\ y \in Pairs
  <2>1. "spf" \in Tables /\ "pfr" \in Tables
    BY DEF Tables
  <2>2. /\ Rank(b, "spf", n) \in 0 .. MaxEntries /\ Rank(b, "pfr", n) \in 0 .. MaxEntries
        /\ Count("spf") \in Keys /\ Count("pfr") \in Keys
    BY <2>1, NthEntry, KeyTypes
  <2>3. Count("spf") # Flag /\ Count("pfr") # Flag
    BY NotFlag
  <2> QED BY <2>2, <2>3 DEF Pairs, Slot
<1>4. u \in Seq(Pairs) /\ Len(u) = 2 /\ u[1] = x /\ u[2] = y
  BY <1>3
<1>5. s = e \o u
  BY DEF ConfSlots
<1> HIDE DEF s, u, e, x, y, n
<1>6. /\ s \in Seq(Pairs)
      /\ Len(s) = 2 * n + 2
      /\ \A i \in 1 .. 2 * n + 2 : s[i] = IF i <= 2 * n THEN e[i] ELSE u[i - 2 * n]
  <2>1. /\ e \o u \in Seq(Pairs)
        /\ Len(e \o u) = Len(e) + Len(u)
        /\ \A i \in 1 .. Len(e) + Len(u) :
              (e \o u)[i] = IF i <= Len(e) THEN e[i] ELSE u[i - Len(e)]
    BY <1>2, <1>4, ConcatProperties
  <2> QED BY <1>2, <1>4, <1>5, <2>1
<1>7. ASSUME NEW i \in 1 .. n
      PROVE  s[2 * i - 1] = e[2 * i - 1] /\ s[2 * i] = e[2 * i]
  <2>1. n \in Int /\ i \in Int /\ 1 <= i /\ i <= n
    BY <1>1
  <2>2. /\ 2 * i - 1 \in 1 .. 2 * n + 2 /\ 2 * i - 1 <= 2 * n
        /\ 2 * i \in 1 .. 2 * n + 2 /\ 2 * i <= 2 * n
    BY <2>1
  <2>3. \A m \in 1 .. 2 * n + 2 : m <= 2 * n => s[m] = e[m]
    BY <1>6
  <2> QED BY <2>2, <2>3
<1>8. s[2 * n + 1] = x /\ s[2 * n + 2] = y
  BY <1>1, <1>4, <1>6
<1>9. ASSUME NEW m \in 1 .. Len(s)
      PROVE  \/ \E i \in 1 .. n : m = 2 * i - 1 \/ m = 2 * i
             \/ m = 2 * n + 1 \/ m = 2 * n + 2
  <2>1. m \in 1 .. 2 * n \/ m = 2 * n + 1 \/ m = 2 * n + 2
    BY <1>1, <1>6
  <2> QED BY <1>2, <2>1
<1> QED BY <1>2, <1>6, <1>7, <1>8, <1>9 DEF s, n, x, y

LEMMA ConfDescribes ==
    ASSUME NEW b \in Blob
    PROVE  LET s == ConfSlots(b) IN
           /\ s \in Seq(Pairs) /\ Len(s) = 2 * Len(b) + 2
           /\ OfPairs(s, Len(s))
           /\ Describes(s, Len(s), CountsOf(b), AliasesOf(b))
           /\ \A m \in 1 .. Len(s) : \A t \in Tables, k \in 1 .. Len(b) :
                 s[m].cmd = Attrs(t, k) => s[m].val = b[k].r
<1> DEFINE s == ConfSlots(b)
           n == Len(b)
           c == CountsOf(b)
           a == AliasesOf(b)
<1>1. /\ s \in Seq(Pairs) /\ Len(s) = 2 * n + 2 /\ n \in Nat
      /\ \A i \in 1 .. n :
           /\ s[2 * i - 1] = [cmd |-> Alias(b[i].t, Rank(b, b[i].t, i)), val |-> i]
           /\ s[2 * i] = [cmd |-> Attrs(b[i].t, i), val |-> b[i].r]
      /\ s[2 * n + 1] = [cmd |-> Count("spf"), val |-> Rank(b, "spf", n)]
      /\ s[2 * n + 2] = [cmd |-> Count("pfr"), val |-> Rank(b, "pfr", n)]
      /\ \A m \in 1 .. Len(s) : \/ \E i \in 1 .. n : m = 2 * i - 1 \/ m = 2 * i
                                \/ m = 2 * n + 1 \/ m = 2 * n + 2
  BY ConfParts, BlobParts
<1>2. /\ \A t \in Tables : c[t] = Rank(b, t, n) /\ Atoi(c[t]) = Rank(b, t, n) /\ c[t] # -2
      /\ \A t \in Tables : \A j \in 1 .. Rank(b, t, n) : a[t][j] = Nth(b, t, j)
  <2>1. ASSUME NEW t \in Tables PROVE Rank(b, t, n) # -2
    BY NthEntry
  <2> QED BY <2>1, TablesOfBlob
<1> HIDE DEF s, c, a, n
<1>2a. ASSUME NEW i \in 1 .. n
      PROVE  /\ s[2 * i - 1].cmd = Alias(b[i].t, Rank(b, b[i].t, i)) /\ s[2 * i - 1].val = i
             /\ s[2 * i].cmd = Attrs(b[i].t, i) /\ s[2 * i].val = b[i].r
  <2>1. /\ s[2 * i - 1] = [cmd |-> Alias(b[i].t, Rank(b, b[i].t, i)), val |-> i]
        /\ s[2 * i] = [cmd |-> Attrs(b[i].t, i), val |-> b[i].r]
    BY <1>1
  <2> QED BY <2>1
<1>2b. /\ s[2 * n + 1].cmd = Count("spf") /\ s[2 * n + 1].val = Rank(b, "spf", n)
      /\ s[2 * n + 2].cmd = Count("pfr") /\ s[2 * n + 2].val = Rank(b, "pfr", n)
  <2>1. /\ s[2 * n + 1] = [cmd |-> Count("spf"), val |-> Rank(b, "spf", n)]
        /\ s[2 * n + 2] = [cmd |-> Count("pfr"), val |-> Rank(b, "pfr", n)]
    BY <1>1
  <2> QED BY <2>1
<1>2c. /\ n \in Nat /\ Len(s) = 2 * n + 2
      /\ \A m \in 1 .. Len(s) : \/ \E i \in 1 .. n : m = 2 * i - 1 \/ m = 2 * i
                                \/ m = 2 * n + 1 \/ m = 2 * n + 2
  BY <1>1
<1>3. ASSUME NEW i \in 1 .. n
      PROVE  /\ b[i].t \in Tables
             /\ Rank(b, b[i].t, i) \in 1 .. Atoi(c[b[i].t])
             /\ a[b[i].t][Rank(b, b[i].t, i)] = i
             /\ Atoi(i) = i
  BY <1>2, BlobParts, NthEntry DEF Atoi, n
<1>4. "spf" \in Tables /\ "pfr" \in Tables /\ \A t \in Tables : t = "spf" \/ t = "pfr"
  BY DEF Tables
<1>5. ASSUME NEW m \in 1 .. Len(s)
      PROVE  \E t \in Tables :
                \/ c[t] # -2 /\ s[m].cmd = Count(t) /\ s[m].val = c[t]
                \/ \E j \in 1 .. Atoi(c[t]) :
                      \/ s[m].cmd = Alias(t, j) /\ s[m].val = a[t][j]
                      \/ s[m].cmd = Attrs(t, Atoi(a[t][j]))
  <2>1. ASSUME NEW i \in 1 .. n, m = 2 * i - 1
        PROVE  s[m].cmd = Alias(b[i].t, Rank(b, b[i].t, i))
               /\ s[m].val = a[b[i].t][Rank(b, b[i].t, i)]
    BY <1>2a, <1>3, <2>1
  <2>2. ASSUME NEW i \in 1 .. n, m = 2 * i
        PROVE  s[m].cmd = Attrs(b[i].t, Atoi(a[b[i].t][Rank(b, b[i].t, i)]))
    BY <1>2a, <1>3, <2>2
  <2>3. CASE m = 2 * n + 1
    BY <1>2b, <1>2, <1>4, <2>3
  <2>4. CASE m = 2 * n + 2
    BY <1>2b, <1>2, <1>4, <2>4
  <2>5. CASE \E i \in 1 .. n : m = 2 * i - 1 \/ m = 2 * i
    <3>1. PICK i \in 1 .. n : m = 2 * i - 1 \/ m = 2 * i
      BY <2>5
    <3> QED BY <1>3, <2>1, <2>2, <3>1
  <2> QED BY <1>2c, <2>3, <2>4, <2>5
<1>6. ASSUME NEW t \in Tables
      PROVE  /\ Listed(Count(t), s, Len(s))
             /\ \A j \in 1 .. Atoi(c[t]) : Listed(Alias(t, j), s, Len(s))
                                           /\ Listed(Attrs(t, Atoi(a[t][j])), s, Len(s))
  <2>1. Listed(Count(t), s, Len(s))
    <3>1. 2 * n + 1 \in 1 .. Len(s) /\ 2 * n + 2 \in 1 .. Len(s)
      BY <1>2c
    <3>2. s[2 * n + 1].cmd = Count("spf") /\ s[2 * n + 2].cmd = Count("pfr")
      BY <1>2b
    <3> QED BY <1>4, <3>1, <3>2 DEF Listed
  <2>2. ASSUME NEW j \in 1 .. Atoi(c[t])
        PROVE  Listed(Alias(t, j), s, Len(s)) /\ Listed(Attrs(t, Atoi(a[t][j])), s, Len(s))
    <3> DEFINE i == Nth(b, t, j)
    <3>1. j \in 1 .. Rank(b, t, n)
      BY <1>2
    <3>2. i \in 1 .. n /\ b[i].t = t /\ Rank(b, t, i) = j
      BY <3>1, NthEntry DEF n
    <3>3. a[t][j] = i
      BY <1>2, <3>1
    <3> HIDE DEF i
    <3>4. 2 * i - 1 \in 1 .. Len(s) /\ 2 * i \in 1 .. Len(s) /\ Atoi(i) = i
      BY <1>2c, <1>3, <3>2
    <3>5. s[2 * i - 1].cmd = Alias(t, j) /\ s[2 * i].cmd = Attrs(t, i)
      BY <1>2a, <3>2
    <3> QED BY <3>3, <3>4, <3>5 DEF Listed
  <2> QED BY <2>1, <2>2
<1>7. Describes(s, Len(s), c, a)
  BY <1>5, <1>6 DEF Describes
<1>8. OfPairs(s, Len(s))
  BY <1>1, ElementOfSeq DEF OfPairs
<1>9. ASSUME NEW m \in 1 .. Len(s), NEW t \in Tables, NEW k \in 1 .. n, s[m].cmd = Attrs(t, k)
      PROVE  s[m].val = b[k].r
  <2>1. m # 2 * n + 1 /\ m # 2 * n + 2
    <3>1. Attrs(t, k) # Count("spf") /\ Attrs(t, k) # Count("pfr")
      BY KeysDiffer
    <3>2. s[2 * n + 1].cmd = Count("spf") /\ s[2 * n + 2].cmd = Count("pfr")
      BY <1>2b
    <3> QED BY <1>9, <3>1, <3>2
  <2>2. PICK i \in 1 .. n : m = 2 * i - 1 \/ m = 2 * i
    BY <1>2c, <2>1
  <2>3. m # 2 * i - 1
    <3>1. Attrs(t, k) # Alias(b[i].t, Rank(b, b[i].t, i))
      BY KeysDiffer
    <3> QED BY <1>2a, <1>9, <3>1
  <2>4. s[m].cmd = Attrs(b[i].t, i) /\ s[m].val = b[i].r
    BY <1>2a, <2>2, <2>3
  <2>5. Attrs(t, k) = Attrs(b[i].t, i) => k = i
    BY KeysDiffer
  <2> QED BY <1>9, <2>4, <2>5
<1> QED BY <1>1, <1>7, <1>8, <1>9 DEF s, c, a, n

----------------------------------------------------------------------------
(* The buffer that is read from a store.                                    *)

Has(s, x) == \E i \in 1 .. Len(s) : s[i] = x

LEMMA HasConcat ==
    ASSUME NEW S, NEW s \in Seq(S), NEW u \in Seq(S), NEW x
    PROVE  Has(s \o u, x) <=> Has(s, x) \/ Has(u, x)
<1> DEFINE w == s \o u
<1>1. Len(s) \in Nat /\ Len(u) \in Nat
  BY LenProperties
<1>2. /\ Len(w) = Len(s) + Len(u)
      /\ \A i \in 1 .. Len(s) + Len(u) : w[i] = IF i <= Len(s) THEN s[i] ELSE u[i - Len(s)]
  BY ConcatProperties
<1> HIDE DEF w
<1>3. ASSUME NEW i \in 1 .. Len(w), w[i] = x PROVE Has(s, x) \/ Has(u, x)
  <2>1. CASE i <= Len(s)
    BY <1>1, <1>2, <1>3, <2>1 DEF Has
  <2>2. CASE ~(i <= Len(s))
    <3>1. i - Len(s) \in 1 .. Len(u) /\ u[i - Len(s)] = x
      BY <1>1, <1>2, <1>3, <2>2
    <3> QED BY <3>1 DEF Has
  <2> QED BY <2>1, <2>2
<1>4. ASSUME NEW i \in 1 .. Len(s), s[i] = x PROVE Has(w, x)
  <2>1. i \in 1 .. Len(w) /\ w[i] = x
    BY <1>1, <1>2, <1>4
  <2> QED BY <2>1 DEF Has
<1>5. ASSUME NEW i \in 1 .. Len(u), u[i] = x PROVE Has(w, x)
  <2>1. Len(s) + i \in 1 .. Len(w) /\ w[Len(s) + i] = x
    BY <1>1, <1>2, <1>5
  <2> QED BY <2>1 DEF Has
<1>6. Has(w, x) <=> Has(s, x) \/ Has(u, x)
  BY <1>3, <1>4, <1>5 DEF Has
<1> QED BY <1>6 DEF w

\* The counts and the aliases that a start of the process takes over.
CountsIn(d)  == [t \in Tables |-> d[Count(t)]]
AliasesIn(d) == [t \in Tables |-> [j \in 1 .. MaxEntries |->
                    IF d[Alias(t, j)] = Unset THEN Empty ELSE d[Alias(t, j)]]]

AliasPair(d, t, j) == [cmd |-> Alias(t, j), val |-> AliasesIn(d)[t][j]]
AttrsPair(d, t, j) == [cmd |-> Attrs(t, Atoi(AliasesIn(d)[t][j])), val |-> Empty]
CountPair(d, t)    == [cmd |-> Count(t), val |-> d[Count(t)]]

LEMMA TablesOfStore ==
    ASSUME NEW d \in Store
    PROVE  /\ CountsIn(d) \in Counts /\ AliasesIn(d) \in Aliases
           /\ \A t \in Tables : CountsIn(d)[t] = d[Count(t)]
<1>1. ASSUME NEW t \in Tables, NEW j \in 1 .. MaxEntries
      PROVE  (IF d[Alias(t, j)] = -2 THEN -1 ELSE d[Alias(t, j)]) \in -1 .. MaxEntries
  <2>1. d[Alias(t, j)] \in -2 .. MaxEntries
    BY StoreParts
  <2> QED BY <2>1
<1>2. AliasesIn(d) \in Aliases
  BY <1>1 DEF AliasesIn, Aliases
<1>3. CountsIn(d) \in Counts
  BY StoreParts DEF CountsIn, Counts
<1> QED BY <1>2, <1>3 DEF CountsIn

\* The pairs of the rows of a table.
LEMMA RowParts ==
    ASSUME NEW d \in Store, NEW t \in Tables
    PROVE  LET s == RowSlots(d, t)
               n == Atoi(d[Count(t)])
           IN  /\ s \in Seq(Pairs) /\ Len(s) = 2 * n /\ n \in 0 .. MaxEntries
               /\ \A j \in 1 .. n : Has(s, AliasPair(d, t, j)) /\ Has(s, AttrsPair(d, t, j))
               /\ \A x : Has(s, x) =>
                     \E j \in 1 .. n : x = AliasPair(d, t, j) \/ x = AttrsPair(d, t, j)
<1> DEFINE s == RowSlots(d, t)
           n == Atoi(d[Count(t)])
           A(j) == AliasPair(d, t, j)
           R(j) == AttrsPair(d, t, j)
<1>1. n \in 0 .. MaxEntries
  BY StoreParts
<1>2. ASSUME NEW j \in 1 .. n
      PROVE  /\ A(j) = [cmd |-> Alias(t, j),
                        val |-> IF d[Alias(t, j)] = Unset THEN Empty ELSE d[Alias(t, j)]]
             /\ R(j) = [cmd |-> Attrs(t, Atoi(IF d[Alias(t, j)] = Unset THEN Empty ELSE d[Alias(t, j)])),
                        val |-> Empty]
  <2>1. j \in 1 .. MaxEntries
    BY <1>1
  <2>2. AliasesIn(d)[t][j] = IF d[Alias(t, j)] = Unset THEN Empty ELSE d[Alias(t, j)]
    BY <2>1 DEF AliasesIn
  <2> QED BY <2>2 DEF AliasPair, AttrsPair
<1>3. ASSUME NEW j \in 1 .. n PROVE A(j) \in Pairs /\ R(j) \in Pairs
  <2> DEFINE v == AliasesIn(d)[t][j]
  <2>1. j \in 1 .. MaxEntries
    BY <1>1
  <2>2. v \in -1 .. MaxEntries
    <3>1. AliasesIn(d)[t] \in [1 .. MaxEntries -> -1 .. MaxEntries]
      BY TablesOfStore DEF Aliases
    <3> QED BY <2>1, <3>1
  <2> HIDE DEF v
  <2>3. Atoi(v) \in 0 .. MaxEntries
    BY <2>2 DEF Atoi
  <2>4. Alias(t, j) \in Keys /\ Attrs(t, Atoi(v)) \in Keys /\ Attrs(t, Atoi(v)) \notin Bounded
    BY <2>1, <2>3, KeyTypes, BoundedKeys
  <2>5. A(j) = [cmd |-> Alias(t, j), val |-> v] /\ R(j) = [cmd |-> Attrs(t, Atoi(v)), val |-> -1]
    BY DEF AliasPair, AttrsPair, v
  <2>6. Alias(t, j) # Flag /\ Attrs(t, Atoi(v)) # Flag
    BY NotFlag
  <2> HIDE DEF A, R
  <2> QED BY <2>2, <2>4, <2>5, <2>6 DEF Pairs, Slot
<1>4. s = [m \in 1 .. 2 * n |-> IF m % 2 = 1 THEN A((m + 1) \div 2) ELSE R((m + 1) \div 2)]
  <2>1. ASSUME NEW m \in 1 .. 2 * n PROVE (m + 1) \div 2 \in 1 .. n
    BY <1>1
  <2> QED BY <1>2, <2>1 DEF RowSlots
<1> HIDE DEF s, n, A, R
<1>5. ASSUME NEW j \in 1 .. n
      PROVE  /\ 2 * j - 1 \in 1 .. 2 * n /\ (2 * j - 1 + 1) \div 2 = j /\ (2 * j - 1) % 2 = 1
             /\ 2 * j \in 1 .. 2 * n /\ (2 * j + 1) \div 2 = j /\ (2 * j) % 2 # 1
  BY <1>1
<1>6. \A j \in 1 .. n : s[2 * j - 1] = A(j) /\ s[2 * j] = R(j)
  BY <1>4, <1>5
<1>7. ASSUME NEW m \in 1 .. 2 * n
      PROVE  \E j \in 1 .. n : s[m] = A(j) \/ s[m] = R(j)
  <2>1. (m + 1) \div 2 \in 1 .. n
    BY <1>1
  <2> QED BY <1>4, <2>1
<1>8. s \in [1 .. 2 * n -> Pairs]
  BY <1>3, <1>4, <1>7
<1>9. s \in Seq(Pairs) /\ Len(s) = 2 * n
  BY <1>1, <1>8
<1>10. \A j \in 1 .. n : Has(s, A(j)) /\ Has(s, R(j))
  BY <1>5, <1>6, <1>9 DEF Has
<1>11. \A x : Has(s, x) => \E j \in 1 .. n : x = A(j) \/ x = R(j)
  BY <1>7, <1>9 DEF Has
<1> QED BY <1>1, <1>9, <1>10, <1>11 DEF s, n, A, R

LEMMA CountParts ==
    ASSUME NEW d \in Store, NEW t \in Tables
    PROVE  LET s == CountSlots(d, t) IN
           /\ s \in Seq(Pairs) /\ Len(s) \in 0 .. 1
           /\ \A x : Has(s, x) <=> d[Count(t)] # -2 /\ x = CountPair(d, t)
<1> DEFINE s == CountSlots(d, t)
           y == CountPair(d, t)
<1>1. CASE d[Count(t)] = -2
  <2>1. s = <<>>
    BY <1>1 DEF CountSlots
  <2> QED BY <1>1, <2>1 DEF Has
<1>2. CASE d[Count(t)] # -2
  <2>1. s = <<y>>
    BY <1>2 DEF CountSlots, CountPair
  <2>2. y \in Pairs
    <3>1. d[Count(t)] \in -2 .. MaxEntries /\ Count(t) \in Keys
      BY StoreParts, KeyTypes
    <3>2. d[Count(t)] >= -1
      BY <1>2, <3>1
    <3>3. Count(t) # Flag
      BY NotFlag
    <3> QED BY <3>1, <3>2, <3>3 DEF CountPair, Pairs, Slot
  <2> HIDE DEF s, y
  <2>3. s \in Seq(Pairs) /\ Len(s) = 1 /\ s[1] = y
    BY <2>1, <2>2
  <2>4. \A x : Has(s, x) <=> x = y
    BY <2>3 DEF Has
  <2> QED BY <1>2, <2>3, <2>4 DEF s, y
<1> QED BY <1>1, <1>2

\* What init_pf_cache has read.
LEMMA InitParts ==
    ASSUME NEW d \in Store
    PROVE  LET s == InitSlots(d) IN
           /\ s \in Seq(Pairs) /\ Len(s) \in 0 .. 4 * MaxEntries + 2
           /\ \A x : Has(s, x) =>
                 \E t \in Tables :
                    \/ d[Count(t)] # -2 /\ x = CountPair(d, t)
                    \/ \E j \in 1 .. Atoi(d[Count(t)]) : x = AliasPair(d, t, j) \/ x = AttrsPair(d, t, j)
           /\ \A t \in Tables :
                 /\ d[Count(t)] # -2 => Has(s, CountPair(d, t))
                 /\ \A j \in 1 .. Atoi(d[Count(t)]) :
                       Has(s, AliasPair(d, t, j)) /\ Has(s, AttrsPair(d, t, j))
<1> DEFINE c1 == CountSlots(d, "spf")
           c2 == CountSlots(d, "pfr")
           r1 == RowSlots(d, "spf")
           r2 == RowSlots(d, "pfr")
           s == InitSlots(d)
           CountIn(t, x) == d[Count(t)] # -2 /\ x = CountPair(d, t)
           RowIn(t, x) == \E j \in 1 .. Atoi(d[Count(t)]) : x = AliasPair(d, t, j) \/ x = AttrsPair(d, t, j)
<1>1. "spf" \in Tables /\ "pfr" \in Tables /\ \A t \in Tables : t = "spf" \/ t = "pfr"
  BY DEF Tables
<1>2. /\ c1 \in Seq(Pairs) /\ c2 \in Seq(Pairs) /\ Len(c1) \in 0 .. 1 /\ Len(c2) \in 0 .. 1
      /\ \A x : Has(c1, x) <=> CountIn("spf", x)
      /\ \A x : Has(c2, x) <=> CountIn("pfr", x)
  BY <1>1, CountParts
<1>3. /\ r1 \in Seq(Pairs) /\ r2 \in Seq(Pairs)
      /\ Len(r1) \in 0 .. 2 * MaxEntries /\ Len(r2) \in 0 .. 2 * MaxEntries
  <2>1. ASSUME NEW t \in Tables
        PROVE  RowSlots(d, t) \in Seq(Pairs) /\ Len(RowSlots(d, t)) \in 0 .. 2 * MaxEntries
    <3>1. /\ RowSlots(d, t) \in Seq(Pairs) /\ Len(RowSlots(d, t)) = 2 * Atoi(d[Count(t)])
          /\ Atoi(d[Count(t)]) \in 0 .. MaxEntries
      BY RowParts
    <3> QED BY <3>1
  <2> QED BY <1>1, <2>1
<1>4. ASSUME NEW t \in Tables
      PROVE  /\ \A x : Has(RowSlots(d, t), x) => RowIn(t, x)
             /\ \A j \in 1 .. Atoi(d[Count(t)]) :
                   Has(RowSlots(d, t), AliasPair(d, t, j)) /\ Has(RowSlots(d, t), AttrsPair(d, t, j))
  BY RowParts
<1>5. s = c1 \o c2 \o r1 \o r2
  BY DEF InitSlots
<1> HIDE DEF c1, c2, r1, r2, s
<1>6. /\ c1 \o c2 \in Seq(Pairs) /\ c1 \o c2 \o r1 \in Seq(Pairs) /\ s \in Seq(Pairs)
      /\ Len(s) = Len(c1) + Len(c2) + Len(r1) + Len(r2)
  <2>1. c1 \o c2 \in Seq(Pairs) /\ Len(c1 \o c2) = Len(c1) + Len(c2)
    BY <1>2, ConcatProperties
  <2>2. (c1 \o c2) \o r1 \in Seq(Pairs) /\ Len((c1 \o c2) \o r1) = Len(c1) + Len(c2) + Len(r1)
    BY <1>3, <2>1, ConcatProperties
  <2>3. s \in Seq(Pairs) /\ Len(s) = Len(c1) + Len(c2) + Len(r1) + Len(r2)
    BY <1>3, <1>5, <2>2, ConcatProperties
  <2> QED BY <2>1, <2>2, <2>3
<1>7. \A x : Has(s, x) <=> Has(c1, x) \/ Has(c2, x) \/ Has(r1, x) \/ Has(r2, x)
  <2> TAKE x
  <2>1. Has(c1 \o c2, x) <=> Has(c1, x) \/ Has(c2, x)
    BY <1>2, HasConcat
  <2> DEFINE w == c1 \o c2 \o r1
  <2>2. Has(w, x) <=> Has(c1 \o c2, x) \/ Has(r1, x)
    BY <1>3, <1>6, HasConcat
  <2>3. w \in Seq(Pairs) /\ s = w \o r2
    BY <1>5, <1>6
  <2> HIDE DEF w
  <2>4. Has(w \o r2, x) <=> Has(w, x) \/ Has(r2, x)
    BY <1>3, <2>3, HasConcat
  <2> QED BY <2>1, <2>2, <2>3, <2>4
<1> HIDE DEF CountIn, RowIn
<1>8. ASSUME NEW x, Has(s, x) PROVE \E t \in Tables : CountIn(t, x) \/ RowIn(t, x)
  BY <1>1, <1>2, <1>4, <1>7, <1>8 DEF r1, r2
<1>9. ASSUME NEW t \in Tables
      PROVE  /\ d[Count(t)] # -2 => Has(s, CountPair(d, t))
             /\ \A j \in 1 .. Atoi(d[Count(t)]) :
                   Has(s, AliasPair(d, t, j)) /\ Has(s, AttrsPair(d, t, j))
  <2>1. d[Count(t)] # -2 => Has(s, CountPair(d, t))
    BY <1>1, <1>2, <1>7 DEF CountIn
  <2>2. t = "spf" \/ t = "pfr"
    BY <1>1
  <2> QED BY <1>4, <1>7, <2>1, <2>2 DEF r1, r2
<1>10. Len(s) \in 0 .. 4 * MaxEntries + 2
  <2>1. /\ Len(c1) \in 0 .. 1 /\ Len(c2) \in 0 .. 1
        /\ Len(r1) \in 0 .. 2 * MaxEntries /\ Len(r2) \in 0 .. 2 * MaxEntries
        /\ Len(s) = Len(c1) + Len(c2) + Len(r1) + Len(r2)
    BY <1>2, <1>3, <1>6
  <2>2. \A l1, l2 \in 0 .. 1 : \A m1, m2 \in 0 .. 2 * MaxEntries :
           l1 + l2 + m1 + m2 \in 0 .. 4 * MaxEntries + 2
    OBVIOUS
  <2> QED BY <2>1, <2>2
<1> QED BY <1>6, <1>8, <1>9, <1>10 DEF s, CountIn, RowIn

LEMMA InitDescribes ==
    ASSUME NEW d \in Store
    PROVE  LET s == InitSlots(d) IN
           /\ s \in Seq(Pairs) /\ Len(s) \in 0 .. 4 * MaxEntries + 2
           /\ OfPairs(s, Len(s))
           /\ Describes(s, Len(s), CountsIn(d), AliasesIn(d))
<1> DEFINE s == InitSlots(d)
           c == CountsIn(d)
           a == AliasesIn(d)
<1>1. /\ s \in Seq(Pairs) /\ Len(s) \in 0 .. 4 * MaxEntries + 2
      /\ \A x : Has(s, x) =>
            \E t \in Tables :
               \/ d[Count(t)] # -2 /\ x = CountPair(d, t)
               \/ \E j \in 1 .. Atoi(d[Count(t)]) : x = AliasPair(d, t, j) \/ x = AttrsPair(d, t, j)
      /\ \A t \in Tables :
            /\ d[Count(t)] # -2 => Has(s, CountPair(d, t))
            /\ \A j \in 1 .. Atoi(d[Count(t)]) :
                  Has(s, AliasPair(d, t, j)) /\ Has(s, AttrsPair(d, t, j))
  BY InitParts
<1>2. /\ \A t \in Tables : c[t] = d[Count(t)]
      /\ \A t : CountPair(d, t).cmd = Count(t) /\ CountPair(d, t).val = d[Count(t)]
      /\ \A t, j : /\ AliasPair(d, t, j).cmd = Alias(t, j) /\ AliasPair(d, t, j).val = a[t][j]
                   /\ AttrsPair(d, t, j).cmd = Attrs(t, Atoi(a[t][j]))
  BY TablesOfStore DEF CountPair, AliasPair, AttrsPair
<1> HIDE DEF s, c, a
<1>3. ASSUME NEW i \in 1 .. Len(s)
      PROVE  \E t \in Tables :
                \/ c[t] # -2 /\ s[i].cmd = Count(t) /\ s[i].val = c[t]
                \/ \E j \in 1 .. Atoi(c[t]) :
                      \/ s[i].cmd = Alias(t, j) /\ s[i].val = a[t][j]
                      \/ s[i].cmd = Attrs(t, Atoi(a[t][j]))
  <2>1. Has(s, s[i])
    BY DEF Has
  <2>2. PICK t \in Tables :
           \/ d[Count(t)] # -2 /\ s[i] = CountPair(d, t)
           \/ \E j \in 1 .. Atoi(d[Count(t)]) : s[i] = AliasPair(d, t, j) \/ s[i] = AttrsPair(d, t, j)
    BY <1>1, <2>1
  <2> QED BY <1>2, <2>2
<1>4. ASSUME NEW t \in Tables
      PROVE  /\ c[t] # -2 => Listed(Count(t), s, Len(s))
             /\ \A j \in 1 .. Atoi(c[t]) : Listed(Alias(t, j), s, Len(s))
                                           /\ Listed(Attrs(t, Atoi(a[t][j])), s, Len(s))
  <2>1. ASSUME NEW x, Has(s, x) PROVE Listed(x.cmd, s, Len(s))
    BY <2>1 DEF Has, Listed
  <2>2. c[t] # -2 => Listed(Count(t), s, Len(s))
    BY <1>1, <1>2, <2>1
  <2>3. ASSUME NEW j \in 1 .. Atoi(c[t])
        PROVE  Listed(Alias(t, j), s, Len(s)) /\ Listed(Attrs(t, Atoi(a[t][j])), s, Len(s))
    <3>1. Has(s, AliasPair(d, t, j)) /\ Has(s, AttrsPair(d, t, j))
      BY <1>1, <1>2
    <3>2. /\ Listed(AliasPair(d, t, j).cmd, s, Len(s))
          /\ Listed(AttrsPair(d, t, j).cmd, s, Len(s))
      BY <2>1, <3>1
    <3> QED BY <1>2, <3>2
  <2> QED BY <2>2, <2>3
<1>5. Describes(s, Len(s), c, a)
  BY <1>3, <1>4 DEF Describes
<1>6. OfPairs(s, Len(s))
  BY <1>1, ElementOfSeq DEF OfPairs
<1> QED BY <1>1, <1>5, <1>6 DEF s, c, a

----------------------------------------------------------------------------
(* The buffers of the process.                                              *)

Sizes   == 0 .. 4 * MaxEntries + 2
Buffers == [Slots -> Pairs]

LEMMA SlotsOfSize ==
    /\ Sizes \subseteq Nat
    /\ Slots \subseteq Nat
    /\ \A n \in Sizes : 1 .. n \subseteq Slots
    /\ {0} \cup Slots = Sizes
BY DEF Sizes, Slots

LEMMA BlankPair == Blank \in Pairs /\ Blank.cmd = NoKey
BY KeyTypes, BoundedKeys, NotFlag DEF Blank, Pairs, Slot

LEMMA BufferPairs ==
    ASSUME NEW arr \in Buffers, NEW n \in Sizes, NEW k \in 0 .. n
    PROVE  OfPairs(arr, n) /\ OfPairs(arr, k) /\ k \in Nat /\ n \in Nat
<1>1. 1 .. n \subseteq Slots /\ 1 .. k \subseteq Slots /\ k \in Nat /\ n \in Nat
  BY SlotsOfSize DEF Sizes
<1> QED BY <1>1 DEF Buffers, OfPairs

LEMMA LoadedBuffer ==
    ASSUME NEW s \in Seq(Pairs), Len(s) \in Sizes
    PROVE  /\ Loaded(s) \in Buffers
           /\ \A i \in 1 .. Len(s) : Loaded(s)[i] = s[i]
<1>1. \A i \in 1 .. Len(s) : s[i] \in Pairs
  BY ElementOfSeq
<1>2. \A i \in Slots : i \in 1 .. Len(s) <=> i <= Len(s)
  BY SlotsOfSize DEF Slots
<1>3. 1 .. Len(s) \subseteq Slots
  BY SlotsOfSize
<1> QED BY <1>1, <1>2, <1>3, BlankPair DEF Loaded, Buffers

LEMMA OverwrittenBuffer ==
    ASSUME NEW arr \in Buffers, NEW s \in Seq(Pairs), Len(s) \in Sizes
    PROVE  /\ Overwrite(arr, s) \in Buffers
           /\ \A i \in 1 .. Len(s) : Overwrite(arr, s)[i] = s[i]
<1>1. \A i \in 1 .. Len(s) : s[i] \in Pairs
  BY ElementOfSeq
<1>2. \A i \in Slots : i \in 1 .. Len(s) <=> i <= Len(s)
  BY SlotsOfSize DEF Slots
<1>3. 1 .. Len(s) \subseteq Slots
  BY SlotsOfSize
<1> QED BY <1>1, <1>2, <1>3 DEF Overwrite, Buffers

LEMMA CopiedBuffer ==
    ASSUME NEW from \in Buffers, NEW to \in Buffers, NEW n \in Sizes
    PROVE  /\ Copied(from, to, n) \in Buffers
           /\ \A i \in 1 .. n : Copied(from, to, n)[i] = from[i]
<1>1. 1 .. n \subseteq Slots /\ n \in Nat
  BY SlotsOfSize
<1> QED BY <1>1 DEF Copied, Buffers

LEMMA ClearedBuffer ==
    ASSUME NEW arr \in Buffers, NEW n
    PROVE  [i \in Slots |-> IF i <= n THEN Blank ELSE arr[i]] \in Buffers
BY BlankPair DEF Buffers

LEMMA EndsParts ==
    ASSUME NEW n \in Nat, NEW e \in Ends(n)
    PROVE  /\ e.calls \in 0 .. n /\ e.ok \in BOOLEAN
           /\ e.ok => e.calls = n
           /\ ~e.ok => upsets < MaxUpsets
<1>1. CASE e = [calls |-> n, ok |-> TRUE]
  BY <1>1
<1>2. CASE upsets < MaxUpsets /\ \E k \in 0 .. n : e = [calls |-> k, ok |-> FALSE]
  BY <1>2
<1>3. \/ e = [calls |-> n, ok |-> TRUE]
      \/ upsets < MaxUpsets /\ \E k \in 0 .. n : e = [calls |-> k, ok |-> FALSE]
  BY DEF Ends
<1> QED BY <1>1, <1>2, <1>3

\* The store with the enable flag, which is written before the pairs.
Flagged(enable) == IF gpf # enable THEN [db EXCEPT ![Flag] = enable] ELSE db

LEMMA FlaggedStore ==
    ASSUME db \in Store, NEW enable \in Nat
    PROVE  /\ Flagged(enable) \in Store
           /\ \A k \in RuleKeys : Flagged(enable)[k] = db[k]
           /\ Atoi(db[Flag]) = gpf => Atoi(Flagged(enable)[Flag]) = enable
<1> DEFINE d == [db EXCEPT ![Flag] = enable]
<1>1. Flag \in Keys /\ Flag \notin Bounded /\ Flag \notin RuleKeys /\ RuleKeys \subseteq Keys
  BY KeyTypes, BoundedKeys, OtherKeys
<1>2. Bounded \subseteq Keys
  BY KeyTypes DEF Bounded
<1>3. db \in [Keys -> {v \in Int : v >= -2}] /\ \A k \in Bounded : db[k] <= MaxEntries
  BY DEF Store
<1>4. enable \in {v \in Int : v >= -2}
  OBVIOUS
<1>5. d \in [Keys -> {v \in Int : v >= -2}] /\ \A k \in Keys \ {Flag} : d[k] = db[k]
  BY <1>1, <1>3, <1>4
<1>6. d \in Store
  BY <1>1, <1>2, <1>3, <1>5 DEF Store
<1>7. d[Flag] = enable /\ Atoi(enable) = enable
  BY <1>1, <1>3 DEF Atoi
<1>8. Flagged(enable) = IF gpf # enable THEN d ELSE db
  BY DEF Flagged
<1> HIDE DEF d
<1> QED BY <1>1, <1>5, <1>6, <1>7, <1>8

LEMMA ApplyEndsParts ==
    ASSUME db \in Store, NEW arr \in Buffers, NEW n \in Sizes, NEW enable \in Nat,
           NEW w \in ApplyEnds(arr, n, enable)
    PROVE  /\ w.d \in Store /\ w.ok \in BOOLEAN
           /\ w.ok => w.d = SetPairs(Flagged(enable), arr, n)
           /\ ~w.ok => upsets < MaxUpsets
<1>1. CASE \E e \in Ends(n) : w = [d |-> SetPairs(Flagged(enable), arr, e.calls), ok |-> e.ok]
  <2>1. PICK e \in Ends(n) : w = [d |-> SetPairs(Flagged(enable), arr, e.calls), ok |-> e.ok]
    BY <1>1
  <2>2. n \in Nat
    BY SlotsOfSize
  <2>3. /\ e.calls \in 0 .. n /\ e.ok \in BOOLEAN
        /\ e.ok => e.calls = n
        /\ ~e.ok => upsets < MaxUpsets
    BY <2>2, EndsParts
  <2>4. w.d = SetPairs(Flagged(enable), arr, e.calls) /\ w.ok = e.ok
    BY <2>1
  <2>5. OfPairs(arr, e.calls) /\ e.calls \in Nat
    BY <2>3, BufferPairs
  <2>6. SetPairs(Flagged(enable), arr, e.calls) \in Store
    BY <2>5, FlaggedStore, SetPairsStore
  <2> QED BY <2>3, <2>4, <2>6
<1>2. CASE upsets < MaxUpsets /\ w = [d |-> db, ok |-> FALSE]
  BY <1>2
<1>3. \/ \E e \in Ends(n) : w = [d |-> SetPairs(Flagged(enable), arr, e.calls), ok |-> e.ok]
      \/ upsets < MaxUpsets /\ w = [d |-> db, ok |-> FALSE]
  BY DEF ApplyEnds, Flagged
<1> QED BY <1>1, <1>2, <1>3

----------------------------------------------------------------------------
(* What a TR-181 handler makes of a store.                                  *)

WholeAt(d, t) ==
    /\ \A j \in 1 .. MaxEntries : d[Alias(t, j)] # Unset => j <= Atoi(d[Count(t)])
    /\ \A i \in 0 .. MaxEntries : d[Attrs(t, i)] # Unset =>
          \E j \in 1 .. Atoi(d[Count(t)]) : Atoi(d[Alias(t, j)]) = i

\* The two stores have the same table t, but for the values of attributes.
SameAt(d, e, t) ==
    /\ e[Count(t)] = d[Count(t)]
    /\ \A j \in 1 .. MaxEntries : e[Alias(t, j)] = d[Alias(t, j)]
    /\ \A i \in 0 .. MaxEntries : e[Attrs(t, i)] = d[Attrs(t, i)]

\* Complete stays complete, and every rule key one that init_pf_cache finds.
KeepsAt(d, e, t) ==
    (CompleteAt(d, t) => CompleteAt(e, t)) /\ (WholeAt(d, t) => WholeAt(e, t))
Keeps(d, e) == e \in Store /\ (Complete(d) => Complete(e)) /\ (Whole(d) => Whole(e))

LEMMA KeepsTables ==
    ASSUME NEW d, NEW e \in Store, \A t \in Tables : KeepsAt(d, e, t)
    PROVE  Keeps(d, e)
<1>1. \A f : Whole(f) <=> \A t \in Tables : WholeAt(f, t)
  BY DEF Whole, WholeAt
<1> QED BY <1>1 DEF KeepsAt, Keeps, Complete

LEMMA NumberParts ==
    ASSUME NEW d \in Store, NEW t \in Tables
    PROVE  /\ Atoi(d[Count(t)]) \in 0 .. MaxEntries
           /\ Rows(d, t) = 1 .. Atoi(d[Count(t)])
           /\ \A j \in 1 .. Atoi(d[Count(t)]) : j \in 1 .. MaxEntries
           /\ \A j \in 1 .. MaxEntries : Number(d, t, j) = Atoi(d[Alias(t, j)])
                                         /\ Number(d, t, j) \in 0 .. MaxEntries
<1>1. Atoi(d[Count(t)]) \in 0 .. MaxEntries
      /\ \A j \in 1 .. MaxEntries : d[Alias(t, j)] \in -2 .. MaxEntries
  BY StoreParts
<1>2. \A j \in 1 .. MaxEntries : Atoi(d[Alias(t, j)]) \in 0 .. MaxEntries
  BY <1>1 DEF Atoi
<1> QED BY <1>1, <1>2 DEF Rows, Number

LEMMA SameAtKeeps ==
    ASSUME NEW d \in Store, NEW e, NEW t \in Tables, SameAt(d, e, t)
    PROVE  KeepsAt(d, e, t)
<1>1. CompleteAt(d, t) => CompleteAt(e, t)
  BY SameTable DEF SameAt
<1>2. ASSUME WholeAt(d, t) PROVE WholeAt(e, t)
  <2>1. e[Count(t)] = d[Count(t)] /\ \A j \in 1 .. Atoi(d[Count(t)]) : j \in 1 .. MaxEntries
    BY NumberParts DEF SameAt
  <2>2. \A j \in 1 .. MaxEntries : e[Alias(t, j)] = d[Alias(t, j)]
    BY DEF SameAt
  <2>3. \A i \in 0 .. MaxEntries : e[Attrs(t, i)] = d[Attrs(t, i)]
    BY DEF SameAt
  <2>4. \A j \in 1 .. MaxEntries : e[Alias(t, j)] # -2 => j <= Atoi(e[Count(t)])
    BY <1>2, <2>1, <2>2 DEF WholeAt
  <2>5. ASSUME NEW i \in 0 .. MaxEntries, e[Attrs(t, i)] # -2
        PROVE  \E j \in 1 .. Atoi(e[Count(t)]) : Atoi(e[Alias(t, j)]) = i
    <3>1. d[Attrs(t, i)] # -2
      BY <2>3, <2>5
    <3>2. PICK j \in 1 .. Atoi(d[Count(t)]) : Atoi(d[Alias(t, j)]) = i
      BY <1>2, <3>1 DEF WholeAt
    <3> QED BY <2>1, <2>2, <3>2
  <2> QED BY <2>4, <2>5 DEF WholeAt
<1> QED BY <1>1, <1>2 DEF KeepsAt

\* Three keys that get a new value.
LEMMA ThreeKeys ==
    ASSUME NEW S, NEW f, DOMAIN f = S, NEW a \in S, NEW b \in S, NEW c \in S,
           a # b, a # c, b # c, NEW x, NEW y, NEW z
    PROVE  LET g == [f EXCEPT ![a] = x, ![b] = y, ![c] = z] IN
           /\ g[a] = x /\ g[b] = y /\ g[c] = z
           /\ \A k \in S : k \notin {a, b, c} => g[k] = f[k]
           /\ g = [k \in S |-> g[k]]
OBVIOUS

LEMMA AddedParts ==
    ASSUME NEW d \in Store, NEW t \in Tables, Atoi(d[Count(t)]) < MaxEntries,
           NEW i \in 1 .. MaxEntries
    PROVE  LET e == Added(d, t, i)
               n == Atoi(d[Count(t)]) + 1
           IN  /\ e \in Store /\ e[Flag] = d[Flag] /\ n \in 1 .. MaxEntries
               /\ e[Count(t)] = n /\ e[Alias(t, n)] = i /\ e[Attrs(t, i)] = 0
               /\ \A k \in Keys : k \notin {Count(t), Alias(t, n), Attrs(t, i)} => e[k] = d[k]
<1> DEFINE e == Added(d, t, i)
           n == Atoi(d[Count(t)]) + 1
<1>1. n \in 1 .. MaxEntries
  BY NumberParts
<1> HIDE DEF n
<1>2. Count(t) \in Keys /\ Alias(t, n) \in Keys /\ Attrs(t, i) \in Keys /\ DOMAIN d = Keys
  BY <1>1, KeyTypes, StoreParts
<1>3. Count(t) # Alias(t, n) /\ Count(t) # Attrs(t, i) /\ Alias(t, n) # Attrs(t, i)
  BY KeysDiffer
<1>4. e = [d EXCEPT ![Count(t)] = n, ![Alias(t, n)] = i, ![Attrs(t, i)] = 0]
  BY DEF Added, Foreign, n
<1> HIDE DEF e
<1>5. /\ e[Count(t)] = n /\ e[Alias(t, n)] = i /\ e[Attrs(t, i)] = 0
      /\ \A k \in Keys : k \notin {Count(t), Alias(t, n), Attrs(t, i)} => e[k] = d[k]
      /\ e = [k \in Keys |-> e[k]]
  BY <1>2, <1>3, <1>4, ThreeKeys
<1>6. ASSUME NEW k \in Keys
      PROVE  e[k] \in Int /\ e[k] >= -2 /\ (k \in Bounded => e[k] <= MaxEntries)
  <2>1. CASE k \in {Count(t), Alias(t, n), Attrs(t, i)}
    <3>1. Attrs(t, i) \notin Bounded
      BY BoundedKeys
    <3> QED BY <1>1, <1>5, <2>1, <3>1
  <2>2. CASE k \notin {Count(t), Alias(t, n), Attrs(t, i)}
    <3>1. d[k] \in Int /\ d[k] >= -2 /\ (k \in Bounded => d[k] <= MaxEntries)
      BY StoreParts DEF Store
    <3> QED BY <1>5, <2>2, <3>1
  <2> QED BY <2>1, <2>2
<1>7. Bounded \subseteq Keys
  BY KeyTypes DEF Bounded
<1>8. e \in Store
  BY <1>5, <1>6, <1>7 DEF Store
<1>9. Flag \in Keys /\ Flag \notin {Count(t), Alias(t, n), Attrs(t, i)}
  BY KeyTypes, NotFlag
<1> QED BY <1>1, <1>5, <1>8, <1>9 DEF e, n

LEMMA AddedKeeps ==
    ASSUME NEW d \in Store, NEW t \in Tables, Atoi(d[Count(t)]) < MaxEntries,
           NEW i \in 1 .. MaxEntries
    PROVE  Keeps(d, Added(d, t, i)) /\ Added(d, t, i)[Flag] = d[Flag]
<1> DEFINE e == Added(d, t, i)
           n == Atoi(d[Count(t)]) + 1
<1>1. /\ e \in Store /\ e[Flag] = d[Flag] /\ n \in 1 .. MaxEntries
      /\ e[Count(t)] = n /\ e[Alias(t, n)] = i /\ e[Attrs(t, i)] = 0
      /\ \A k \in Keys : k \notin {Count(t), Alias(t, n), Attrs(t, i)} => e[k] = d[k]
  BY AddedParts
<1>2. /\ Atoi(n) = n /\ Atoi(i) = i /\ 1 .. n = (1 .. Atoi(d[Count(t)])) \cup {n}
      /\ Atoi(d[Count(t)]) \in 0 .. MaxEntries
  <2>1. \A c \in 0 .. MaxEntries : 1 .. c + 1 = (1 .. c) \cup {c + 1}
    OBVIOUS
  <2>2. Atoi(d[Count(t)]) \in 0 .. MaxEntries
    BY NumberParts
  <2>3. 1 .. n = (1 .. Atoi(d[Count(t)])) \cup {n}
    BY <2>1, <2>2
  <2>4. n \in Nat /\ i \in Nat
    BY <1>1
  <2> HIDE DEF n
  <2> QED BY <2>2, <2>3, <2>4 DEF Atoi
<1> HIDE DEF e
<1>3. ASSUME NEW j \in 1 .. MaxEntries, j # n PROVE e[Alias(t, j)] = d[Alias(t, j)]
  <2>1. Alias(t, j) \in Keys /\ Alias(t, j) \notin {Count(t), Alias(t, n), Attrs(t, i)}
    BY <1>3, KeyTypes, KeysDiffer
  <2> QED BY <1>1, <2>1
<1>4. ASSUME NEW m \in 0 .. MaxEntries, m # i PROVE e[Attrs(t, m)] = d[Attrs(t, m)]
  <2>1. Attrs(t, m) \in Keys /\ Attrs(t, m) \notin {Count(t), Alias(t, n), Attrs(t, i)}
    BY <1>4, KeyTypes, KeysDiffer
  <2> QED BY <1>1, <2>1
<1>5. ASSUME NEW u \in Tables, u # t PROVE KeepsAt(d, e, u)
  <2>1. Count(u) \in Keys /\ Count(u) \notin {Count(t), Alias(t, n), Attrs(t, i)}
    BY <1>5, KeyTypes, KeysDiffer
  <2>2. ASSUME NEW j \in 1 .. MaxEntries
        PROVE  Alias(u, j) \in Keys /\ Alias(u, j) \notin {Count(t), Alias(t, n), Attrs(t, i)}
    <3>1. Alias(u, j) # Count(t) /\ Alias(u, j) # Alias(t, n) /\ Alias(u, j) # Attrs(t, i)
      BY <1>5, KeysDiffer
    <3> QED BY <3>1, KeyTypes
  <2>3. ASSUME NEW m \in 0 .. MaxEntries
        PROVE  Attrs(u, m) \in Keys /\ Attrs(u, m) \notin {Count(t), Alias(t, n), Attrs(t, i)}
    <3>1. Attrs(u, m) # Count(t) /\ Attrs(u, m) # Alias(t, n) /\ Attrs(u, m) # Attrs(t, i)
      BY <1>5, KeysDiffer
    <3> QED BY <3>1, KeyTypes
  <2>4. SameAt(d, e, u)
    BY <1>1, <2>1, <2>2, <2>3 DEF SameAt
  <2> QED BY <2>4, SameAtKeeps
<1> HIDE DEF n
<1>6. ASSUME NEW j \in 1 .. Atoi(d[Count(t)])
      PROVE  /\ j \in 1 .. MaxEntries /\ e[Alias(t, j)] = d[Alias(t, j)]
             /\ Atoi(d[Alias(t, j)]) \in 0 .. MaxEntries
  <2>1. j \in 1 .. MaxEntries /\ Atoi(d[Alias(t, j)]) \in 0 .. MaxEntries
    BY NumberParts
  <2>2. j # n
    BY <1>2 DEF n
  <2> QED BY <1>3, <2>1, <2>2
<1>7. ASSUME CompleteAt(d, t), NEW j \in 1 .. Atoi(e[Count(t)])
      PROVE  e[Alias(t, j)] # -2 /\ e[Attrs(t, Atoi(e[Alias(t, j)]))] # -2
  <2>1. CASE j = n
    BY <1>1, <1>2, <2>1
  <2>2. CASE j # n
    <3>1. j \in 1 .. Atoi(d[Count(t)])
      BY <1>1, <1>2, <1>7, <2>2
    <3>2. d[Alias(t, j)] # -2 /\ d[Attrs(t, Atoi(d[Alias(t, j)]))] # -2
      BY <1>7, <3>1 DEF CompleteAt
    <3>3. e[Attrs(t, Atoi(d[Alias(t, j)]))] # -2
      BY <1>1, <1>4, <1>6, <3>1, <3>2
    <3> QED BY <1>6, <3>1, <3>2, <3>3
  <2> QED BY <2>1, <2>2
<1>8. ASSUME WholeAt(d, t), NEW j \in 1 .. MaxEntries, e[Alias(t, j)] # -2
      PROVE  j <= Atoi(e[Count(t)])
  <2>1. CASE j = n
    BY <1>1, <1>2, <2>1
  <2>2. CASE j # n
    <3>1. j <= Atoi(d[Count(t)])
      BY <1>3, <1>8, <2>2 DEF WholeAt
    <3> QED BY <1>1, <1>2, <3>1 DEF n
  <2> QED BY <2>1, <2>2
<1>9. ASSUME WholeAt(d, t), NEW m \in 0 .. MaxEntries, e[Attrs(t, m)] # -2
      PROVE  \E j \in 1 .. Atoi(e[Count(t)]) : Atoi(e[Alias(t, j)]) = m
  <2>1. CASE m = i
    BY <1>1, <1>2, <2>1
  <2>2. CASE m # i
    <3>1. d[Attrs(t, m)] # -2
      BY <1>4, <1>9, <2>2
    <3>2. PICK j \in 1 .. Atoi(d[Count(t)]) : Atoi(d[Alias(t, j)]) = m
      BY <1>9, <3>1 DEF WholeAt
    <3>3. j \in 1 .. Atoi(e[Count(t)]) /\ Atoi(e[Alias(t, j)]) = m
      BY <1>1, <1>2, <1>6, <3>2
    <3> QED BY <3>3
  <2> QED BY <2>1, <2>2
<1>10. KeepsAt(d, e, t)
  BY <1>7, <1>8, <1>9 DEF KeepsAt, CompleteAt, WholeAt
<1> QED BY <1>1, <1>5, <1>10, KeepsTables DEF e

\* The attributes i go with row j.
Gone(d, t, j, i) == i = Number(d, t, j) /\ \A m \in Rows(d, t) \ {j} : Number(d, t, m) # i

LEMMA DeletedParts ==
    ASSUME NEW d \in Store, NEW t \in Tables, NEW j \in Rows(d, t)
    PROVE  LET e == Deleted(d, t, j)
               n == Atoi(d[Count(t)])
           IN  /\ e \in Store /\ e[Flag] = d[Flag]
               /\ n \in 1 .. MaxEntries /\ j \in 1 .. n /\ e[Count(t)] = n - 1
               /\ \A m \in j .. n - 1 : e[Alias(t, m)] = d[Alias(t, m + 1)]
               /\ e[Alias(t, n)] = -2
               /\ \A m \in 1 .. MaxEntries : m \notin j .. n => e[Alias(t, m)] = d[Alias(t, m)]
               /\ \A i \in 0 .. MaxEntries :
                     /\ Gone(d, t, j, i) => e[Attrs(t, i)] = -2
                     /\ ~Gone(d, t, j, i) => e[Attrs(t, i)] = d[Attrs(t, i)]
               /\ \A u \in Tables : u # t => SameAt(d, e, u)
<1> DEFINE e       == Deleted(d, t, j)
           n       == Atoi(d[Count(t)])
           orphan  == \A m \in Rows(d, t) \ {j} : Number(d, t, m) # Number(d, t, j)
           moved   == {Alias(t, m) : m \in j .. n - 1}
           dropped == {Alias(t, n)} \cup (IF orphan THEN {Attrs(t, Number(d, t, j))} ELSE {})
<1>1. /\ n \in 1 .. MaxEntries /\ j \in 1 .. n /\ Rows(d, t) = 1 .. n
      /\ Number(d, t, j) \in 0 .. MaxEntries
  BY NumberParts
<1>2. e = [k \in Keys |-> CASE k = Count(t)  -> n - 1
                          [] k \in moved   -> d[Alias(t, k[3] + 1)]
                          [] k \in dropped -> -2
                          [] OTHER         -> d[k]]
  BY DEF Deleted
<1>3. /\ \A m : Alias(t, m) \in moved <=> m \in j .. n - 1
      /\ \A m : Alias(t, m) \in dropped <=> m = n
      /\ \A i : Attrs(t, i) \in dropped <=> i = Number(d, t, j) /\ orphan
      /\ \A i : Attrs(t, i) \notin moved
      /\ Count(t) \notin moved /\ Count(t) \notin dropped
      /\ Flag \notin moved /\ Flag \notin dropped
  <2>1. \A m : Alias(t, m) \in moved <=> m \in j .. n - 1
    BY KeysDiffer
  <2>2. \A m : Alias(t, m) \in dropped <=> m = n
    BY KeysDiffer
  <2>3. \A i : Attrs(t, i) \in dropped <=> i = Number(d, t, j) /\ orphan
    <3> HIDE DEF orphan
    <3> QED BY KeysDiffer
  <2>4. (\A i : Attrs(t, i) \notin moved) /\ Count(t) \notin moved /\ Flag \notin moved
    BY KeysDiffer, NotFlag
  <2>5. Count(t) \notin dropped /\ Flag \notin dropped
    <3> HIDE DEF orphan
    <3> QED BY KeysDiffer, NotFlag
  <2> QED BY <2>1, <2>2, <2>3, <2>4, <2>5
<1>4. ASSUME NEW u \in Tables, u # t
      PROVE  /\ \A m : Alias(u, m) \notin moved /\ Alias(u, m) \notin dropped
             /\ \A i : Attrs(u, i) \notin moved /\ Attrs(u, i) \notin dropped
             /\ Count(u) \notin moved /\ Count(u) \notin dropped /\ Count(u) # Count(t)
  <2> HIDE DEF orphan
  <2> QED BY <1>4, KeysDiffer
<1>5. \A m : Alias(t, m)[3] = m
  BY DEF Alias
<1>0. \A k \in moved : k \notin dropped
  <2>1. ~(n \in j .. n - 1)
    BY <1>1
  <2>2. \A m \in j .. n - 1 : Alias(t, m) \notin dropped
    <3> HIDE DEF dropped
    <3> QED BY <1>3, <2>1
  <2> HIDE DEF dropped
  <2> QED BY <2>2
<1> HIDE DEF moved, dropped
<1>6. ASSUME NEW k \in Keys
      PROVE  /\ k = Count(t) => e[k] = n - 1
             /\ k # Count(t) /\ k \in moved => e[k] = d[Alias(t, k[3] + 1)]
             /\ k # Count(t) /\ k \notin moved /\ k \in dropped => e[k] = -2
             /\ k # Count(t) /\ k \notin moved /\ k \notin dropped => e[k] = d[k]
  <2>1. /\ k = Count(t) => k \notin moved /\ k \notin dropped
        /\ k \in moved => k \notin dropped
    BY <1>3, <1>0
  <2>2. e[k] = CASE k = Count(t)  -> n - 1
                 [] k \in moved   -> d[Alias(t, k[3] + 1)]
                 [] k \in dropped -> -2
                 [] OTHER         -> d[k]
    <3> HIDE DEF n, e
    <3> QED BY <1>2
  <2> HIDE DEF n, e
  <2>3. ASSUME k = Count(t) PROVE e[k] = n - 1
    BY <2>1, <2>2, <2>3
  <2>4. ASSUME k # Count(t), k \in moved PROVE e[k] = d[Alias(t, k[3] + 1)]
    BY <2>1, <2>2, <2>4
  <2>5. ASSUME k # Count(t), k \notin moved, k \in dropped PROVE e[k] = -2
    BY <2>2, <2>5
  <2>6. ASSUME k # Count(t), k \notin moved, k \notin dropped PROVE e[k] = d[k]
    BY <2>2, <2>6
  <2> QED BY <2>3, <2>4, <2>5, <2>6
<1> HIDE DEF e
<1>7. Count(t) \in Keys /\ e[Count(t)] = n - 1
  BY <1>6, KeyTypes
<1>8. ASSUME NEW m \in 1 .. MaxEntries
      PROVE  /\ Alias(t, m) \in Keys
             /\ m \in j .. n - 1 => e[Alias(t, m)] = d[Alias(t, m + 1)]
             /\ m = n => e[Alias(t, m)] = -2
             /\ m \notin j .. n => e[Alias(t, m)] = d[Alias(t, m)]
  <2>1. Alias(t, m) \in Keys /\ Alias(t, m) # Count(t)
    BY KeyTypes, KeysDiffer
  <2>2. m \in j .. n - 1 => e[Alias(t, m)] = d[Alias(t, m + 1)]
    BY <1>3, <1>5, <1>6, <2>1
  <2>3. m = n => e[Alias(t, m)] = -2
    <3>1. ~(n \in j .. n - 1)
      BY <1>1
    <3> QED BY <1>3, <1>6, <2>1, <3>1
  <2>4. m \notin j .. n => e[Alias(t, m)] = d[Alias(t, m)]
    <3>1. ASSUME m \notin j .. n PROVE m \notin j .. n - 1 /\ m # n
      BY <1>1, <3>1
    <3> QED BY <1>3, <1>6, <2>1, <3>1
  <2> QED BY <2>1, <2>2, <2>3, <2>4
<1>9. ASSUME NEW i \in 0 .. MaxEntries
      PROVE  /\ Attrs(t, i) \in Keys
             /\ Gone(d, t, j, i) => e[Attrs(t, i)] = -2
             /\ ~Gone(d, t, j, i) => e[Attrs(t, i)] = d[Attrs(t, i)]
  <2>1. Attrs(t, i) \in Keys /\ Attrs(t, i) # Count(t) /\ Attrs(t, i) \notin moved
    BY <1>3, KeyTypes, KeysDiffer
  <2>2. Attrs(t, i) \in dropped <=> Gone(d, t, j, i)
    BY <1>3 DEF Gone
  <2> QED BY <1>6, <2>1, <2>2
<1>10. ASSUME NEW u \in Tables, u # t PROVE SameAt(d, e, u)
  <2>1. e[Count(u)] = d[Count(u)]
    BY <1>4, <1>6, <1>10, KeyTypes
  <2>2. ASSUME NEW m \in 1 .. MaxEntries PROVE e[Alias(u, m)] = d[Alias(u, m)]
    <3>1. Alias(u, m) \in Keys /\ Alias(u, m) # Count(t)
      BY KeyTypes, KeysDiffer
    <3> QED BY <1>4, <1>6, <1>10, <3>1
  <2>3. ASSUME NEW i \in 0 .. MaxEntries PROVE e[Attrs(u, i)] = d[Attrs(u, i)]
    <3>1. Attrs(u, i) \in Keys /\ Attrs(u, i) # Count(t)
      BY KeyTypes, KeysDiffer
    <3> QED BY <1>4, <1>6, <1>10, <3>1
  <2> QED BY <2>1, <2>2, <2>3 DEF SameAt
<1>11. e[Flag] = d[Flag]
  <2>1. Flag \in Keys /\ Flag # Count(t)
    BY KeyTypes, NotFlag
  <2> QED BY <1>3, <1>6, <2>1
<1>12. e \in Store
  <2>1. ASSUME NEW k \in Keys
        PROVE  e[k] \in Int /\ e[k] >= -2 /\ (k \in Bounded => e[k] <= MaxEntries)
    <3>1. d[k] \in Int /\ d[k] >= -2 /\ (k \in Bounded => d[k] <= MaxEntries)
      BY StoreParts DEF Store
    <3>2. CASE k = Count(t)
      BY <1>1, <1>6, <3>2
    <3>3. CASE k # Count(t) /\ k \in moved
      <4>1. PICK m \in j .. n - 1 : k = Alias(t, m)
        BY <3>3 DEF moved
      <4>2. m + 1 \in 1 .. MaxEntries
        BY <1>1
      <4>3. d[Alias(t, m + 1)] \in -2 .. MaxEntries
        BY <4>2, StoreParts
      <4>4. e[k] = d[Alias(t, m + 1)]
        BY <1>5, <1>6, <3>3, <4>1
      <4> QED BY <4>3, <4>4
    <3>4. CASE k # Count(t) /\ k \notin moved
      BY <1>6, <3>1, <3>4
    <3> QED BY <3>2, <3>3, <3>4
  <2>2. Bounded \subseteq Keys
    BY KeyTypes DEF Bounded
  <2>3. e = [k \in Keys |-> e[k]]
    BY <1>2
  <2> QED BY <2>1, <2>2, <2>3 DEF Store
<1>13. \A m \in j .. n - 1 : m \in 1 .. MaxEntries
  BY <1>1
<1> HIDE DEF n
<1> QED BY <1>1, <1>7, <1>8, <1>9, <1>10, <1>11, <1>12, <1>13 DEF e, n

LEMMA DeletedKeeps ==
    ASSUME NEW d \in Store, NEW t \in Tables, NEW j \in Rows(d, t)
    PROVE  Keeps(d, Deleted(d, t, j)) /\ Deleted(d, t, j)[Flag] = d[Flag]
<1> DEFINE e == Deleted(d, t, j)
           n == Atoi(d[Count(t)])
<1>1. /\ e \in Store /\ e[Flag] = d[Flag]
      /\ n \in 1 .. MaxEntries /\ j \in 1 .. n /\ e[Count(t)] = n - 1
      /\ \A m \in j .. n - 1 : e[Alias(t, m)] = d[Alias(t, m + 1)]
      /\ e[Alias(t, n)] = -2
      /\ \A m \in 1 .. MaxEntries : m \notin j .. n => e[Alias(t, m)] = d[Alias(t, m)]
      /\ \A i \in 0 .. MaxEntries :
            /\ Gone(d, t, j, i) => e[Attrs(t, i)] = -2
            /\ ~Gone(d, t, j, i) => e[Attrs(t, i)] = d[Attrs(t, i)]
      /\ \A u \in Tables : u # t => SameAt(d, e, u)
  BY DeletedParts
<1>0. Rows(d, t) = 1 .. n
  BY NumberParts
<1>2. \A m \in 1 .. MaxEntries : Number(d, t, m) = Atoi(d[Alias(t, m)])
                                 /\ Number(d, t, m) \in 0 .. MaxEntries
  BY NumberParts
<1>3. \A u \in Tables : u # t => KeepsAt(d, e, u)
  BY <1>1, SameAtKeeps
<1> HIDE DEF e, n
<1>4. Atoi(e[Count(t)]) = n - 1
  BY <1>1 DEF Atoi
\* The row of the new table that an old row becomes, and the other way round.
<1>5. ASSUME NEW q \in 1 .. n, q # j
      PROVE  \E m \in 1 .. n - 1 : e[Alias(t, m)] = d[Alias(t, q)]
  <2>1. CASE q < j
    <3>1. q \in 1 .. n - 1 /\ q \in 1 .. MaxEntries /\ q \notin j .. n
      BY <1>1, <2>1
    <3> QED BY <1>1, <3>1
  <2>2. CASE q > j
    <3>1. q - 1 \in 1 .. n - 1 /\ q - 1 \in j .. n - 1 /\ (q - 1) + 1 = q
      BY <1>1, <2>2
    <3>2. e[Alias(t, q - 1)] = d[Alias(t, (q - 1) + 1)]
      BY <1>1, <3>1
    <3> QED BY <3>1, <3>2
  <2> QED BY <1>1, <1>5, <2>1, <2>2
<1>6. ASSUME NEW m \in 1 .. n - 1
      PROVE  \E q \in 1 .. n : q # j /\ e[Alias(t, m)] = d[Alias(t, q)]
  <2>1. CASE m < j
    <3>1. m \in 1 .. n /\ m # j /\ m \in 1 .. MaxEntries /\ m \notin j .. n
      BY <1>1, <2>1
    <3> QED BY <1>1, <3>1
  <2>2. CASE m >= j
    <3>1. m + 1 \in 1 .. n /\ m + 1 # j /\ m \in j .. n - 1
      BY <1>1, <2>2
    <3> QED BY <1>1, <3>1
  <2> QED BY <1>1, <2>1, <2>2
<1>7. ASSUME CompleteAt(d, t), NEW m \in 1 .. Atoi(e[Count(t)])
      PROVE  e[Alias(t, m)] # -2 /\ e[Attrs(t, Atoi(e[Alias(t, m)]))] # -2
  <2>1. PICK q \in 1 .. n : q # j /\ e[Alias(t, m)] = d[Alias(t, q)]
    BY <1>4, <1>6
  <2>2. d[Alias(t, q)] # -2 /\ d[Attrs(t, Atoi(d[Alias(t, q)]))] # -2
    BY <1>7 DEF CompleteAt, n
  <2> DEFINE i == Atoi(d[Alias(t, q)])
  <2>3. i \in 0 .. MaxEntries /\ i = Number(d, t, q)
    <3>1. q \in 1 .. MaxEntries
      BY <1>1
    <3> QED BY <1>2, <3>1
  <2> HIDE DEF i
  <2>4. e[Attrs(t, i)] = d[Attrs(t, i)]
    <3>1. ~Gone(d, t, j, i)
      BY <1>0, <2>1, <2>3 DEF Gone
    <3> QED BY <1>1, <2>3, <3>1
  <2> QED BY <2>1, <2>2, <2>4 DEF i
<1>8. ASSUME WholeAt(d, t), NEW m \in 1 .. MaxEntries, e[Alias(t, m)] # -2
      PROVE  m <= Atoi(e[Count(t)])
  <2>1. SUFFICES ASSUME ~(m <= n - 1) PROVE FALSE
    BY <1>4
  <2>2. m # n
    BY <1>1, <1>8
  <2>3. m > n
    BY <1>1, <2>1, <2>2
  <2>4. m \notin j .. n
    BY <1>1, <2>3
  <2>5. d[Alias(t, m)] # -2
    BY <1>1, <1>8, <2>4
  <2>6. m <= n
    BY <1>8, <2>5 DEF WholeAt, n
  <2> QED BY <1>1, <2>3, <2>6
<1>9. ASSUME WholeAt(d, t), NEW i \in 0 .. MaxEntries, e[Attrs(t, i)] # -2
      PROVE  \E m \in 1 .. Atoi(e[Count(t)]) : Atoi(e[Alias(t, m)]) = i
  <2>1. e[Attrs(t, i)] = d[Attrs(t, i)]
    BY <1>1, <1>9
  <2>2. PICK q \in 1 .. n : Atoi(d[Alias(t, q)]) = i
    BY <1>9, <2>1 DEF WholeAt, n
  <2>3. \E q2 \in 1 .. n : q2 # j /\ Atoi(d[Alias(t, q2)]) = i
    <3>1. CASE q # j
      BY <2>2, <3>1
    <3>2. CASE q = j
      <4>1. SUFFICES ASSUME \A m \in 1 .. n : m # j => Atoi(d[Alias(t, m)]) # i PROVE FALSE
        OBVIOUS
      <4>2. \A m \in 1 .. n : Number(d, t, m) = Atoi(d[Alias(t, m)])
        BY <1>1, <1>2
      <4>3. Gone(d, t, j, i)
        BY <1>0, <1>1, <2>2, <3>2, <4>1, <4>2 DEF Gone
      <4> QED BY <1>1, <1>9, <4>3
    <3> QED BY <3>1, <3>2
  <2>4. PICK q2 \in 1 .. n : q2 # j /\ Atoi(d[Alias(t, q2)]) = i
    BY <2>3
  <2>5. PICK m \in 1 .. n - 1 : e[Alias(t, m)] = d[Alias(t, q2)]
    BY <1>5, <2>4
  <2> QED BY <1>4, <2>4, <2>5
<1>10. KeepsAt(d, e, t)
  BY <1>7, <1>8, <1>9 DEF KeepsAt, CompleteAt, WholeAt
<1> QED BY <1>1, <1>3, <1>10, KeepsTables DEF e

\* _Update_NAT_PF_HS_Enable touches no key that names a row.
LEMMA SwitchedKeeps ==
    ASSUME NEW d \in Store, NEW value \in Int, value >= -2
    PROVE  LET e == Switched(d, value) IN
           /\ Keeps(d, e)
           /\ Complete(d) => \A k \in RuleKeys : e[k] # -2 => d[k] # -2
<1> DEFINE e     == Switched(d, value)
           P(k)  == \E t \in Tables : \E j \in Rows(d, t) : k = Attrs(t, Number(d, t, j))
<1>1. ASSUME NEW k \in Keys
      PROVE  /\ k = Flag => e[k] = value
             /\ k # Flag /\ P(k) => e[k] = 0
             /\ k # Flag /\ ~P(k) => e[k] = d[k]
  <2>1. ~P(Flag)
    BY NotFlag
  <2>2. e[k] = CASE k = Flag -> value [] P(k) -> 0 [] OTHER -> d[k]
    BY DEF Switched, Foreign
  <2> HIDE DEF e, P
  <2> QED BY <2>1, <2>2
<1>2. \A t, i : ~P(Count(t)) /\ ~P(Alias(t, i))
  BY KeysDiffer
<1>3. \A t \in Tables : \A i : P(Attrs(t, i)) <=> \E j \in Rows(d, t) : Number(d, t, j) = i
  BY KeysDiffer
<1>4. \A k \in RuleKeys : k \in Keys /\ k # Flag
  BY KeyTypes, OtherKeys
<1>5. e = [k \in Keys |-> e[k]]
  BY DEF Switched
<1>6. \A k \in Bounded : k \in Keys /\ k # Flag /\ ~P(k)
  <2>1. ASSUME NEW k \in Bounded PROVE k \in RuleKeys
    BY <2>1, KeyTypes DEF Bounded
  <2>2. ASSUME NEW k \in Bounded PROVE ~P(k)
    <3> HIDE DEF P
    <3> QED BY <1>2, <2>2 DEF Bounded
  <2> QED BY <1>4, <2>1, <2>2
<1> HIDE DEF e, P
<1>7. e \in Store
  <2>1. ASSUME NEW k \in Keys
        PROVE  e[k] \in Int /\ e[k] >= -2 /\ (k \in Bounded => e[k] <= MaxEntries)
    <3>1. d[k] \in Int /\ d[k] >= -2 /\ (k \in Bounded => d[k] <= MaxEntries)
      BY StoreParts DEF Store
    <3> QED BY <1>1, <1>6, <3>1
  <2>2. Bounded \subseteq Keys
    BY <1>6
  <2> QED BY <1>5, <2>1, <2>2 DEF Store
<1>8. ASSUME NEW t \in Tables
      PROVE  /\ e[Count(t)] = d[Count(t)]
             /\ \A j \in 1 .. MaxEntries : e[Alias(t, j)] = d[Alias(t, j)]
             /\ \A i \in 0 .. MaxEntries :
                   \/ e[Attrs(t, i)] = d[Attrs(t, i)]
                   \/ e[Attrs(t, i)] = 0 /\ \E j \in Rows(d, t) : Number(d, t, j) = i
  <2>1. e[Count(t)] = d[Count(t)]
    BY <1>1, <1>2, <1>4, KeyTypes
  <2>2. \A j \in 1 .. MaxEntries : e[Alias(t, j)] = d[Alias(t, j)]
    BY <1>1, <1>2, <1>4, KeyTypes
  <2>3. ASSUME NEW i \in 0 .. MaxEntries
        PROVE  \/ e[Attrs(t, i)] = d[Attrs(t, i)]
               \/ e[Attrs(t, i)] = 0 /\ \E j \in Rows(d, t) : Number(d, t, j) = i
    <3>1. Attrs(t, i) \in Keys /\ Attrs(t, i) # Flag
      BY <1>4, KeyTypes
    <3> QED BY <1>1, <1>3, <3>1
  <2> QED BY <2>1, <2>2, <2>3
<1>9. ASSUME NEW t \in Tables PROVE KeepsAt(d, e, t)
  <2> DEFINE n == Atoi(d[Count(t)])
  <2>1. /\ Rows(d, t) = 1 .. n /\ \A j \in 1 .. n : j \in 1 .. MaxEntries
        /\ \A j \in 1 .. MaxEntries : Number(d, t, j) = Atoi(d[Alias(t, j)])
                                      /\ Number(d, t, j) \in 0 .. MaxEntries
    BY NumberParts
  <2>2. Atoi(e[Count(t)]) = n /\ \A j \in 1 .. n : e[Alias(t, j)] = d[Alias(t, j)]
    BY <1>8, <2>1
  <2> HIDE DEF n
  <2>3. ASSUME CompleteAt(d, t), NEW j \in 1 .. n
        PROVE  e[Alias(t, j)] # -2 /\ e[Attrs(t, Atoi(e[Alias(t, j)]))] # -2
    <3>1. d[Alias(t, j)] # -2 /\ d[Attrs(t, Number(d, t, j))] # -2
      BY <2>1, <2>3 DEF CompleteAt, n
    <3>2. e[Attrs(t, Number(d, t, j))] # -2
      BY <1>8, <2>1, <3>1
    <3> QED BY <2>1, <2>2, <3>1, <3>2
  <2>4. ASSUME WholeAt(d, t), NEW j \in 1 .. MaxEntries, e[Alias(t, j)] # -2 PROVE j <= n
    BY <1>8, <2>4 DEF WholeAt, n
  <2>5. ASSUME WholeAt(d, t), NEW i \in 0 .. MaxEntries, e[Attrs(t, i)] # -2
        PROVE  \E j \in 1 .. n : Atoi(e[Alias(t, j)]) = i
    <3>1. CASE e[Attrs(t, i)] = d[Attrs(t, i)]
      <4>1. PICK j \in 1 .. n : Atoi(d[Alias(t, j)]) = i
        BY <2>5, <3>1 DEF WholeAt, n
      <4> QED BY <2>2, <4>1
    <3>2. CASE \E j \in Rows(d, t) : Number(d, t, j) = i
      BY <2>1, <2>2, <3>2
    <3> QED BY <1>8, <3>1, <3>2
  <2> QED BY <2>2, <2>3, <2>4, <2>5 DEF KeepsAt, CompleteAt, WholeAt
<1>10. ASSUME Complete(d), NEW k \in RuleKeys, e[k] # -2 PROVE d[k] # -2
  <2>1. CASE P(k)
    <3>1. PICK t \in Tables : \E j \in Rows(d, t) : k = Attrs(t, Number(d, t, j))
      BY <2>1 DEF P
    <3>2. PICK j \in Rows(d, t) : k = Attrs(t, Number(d, t, j))
      BY <3>1
    <3>3. j \in 1 .. Atoi(d[Count(t)]) /\ Number(d, t, j) = Atoi(d[Alias(t, j)])
      BY NumberParts
    <3>4. CompleteAt(d, t)
      BY <1>10 DEF Complete
    <3> QED BY <3>2, <3>3, <3>4 DEF CompleteAt
  <2>2. CASE ~P(k)
    BY <1>1, <1>4, <1>10, <2>2
  <2> QED BY <2>1, <2>2
<1>11. Keeps(d, e)
  BY <1>7, <1>9, KeepsTables
<1> QED BY <1>10, <1>11 DEF e

LEMMA AdditionsKeep ==
    ASSUME NEW d \in Store, NEW e \in Additions(d)
    PROVE  Keeps(d, e) /\ e[Flag] = d[Flag]
<1>1. PICK x \in Tables \X (1 .. MaxEntries) :
          Atoi(d[Count(x[1])]) < MaxEntries /\ e = Added(d, x[1], x[2])
  BY DEF Additions
<1>2. x[1] \in Tables /\ x[2] \in 1 .. MaxEntries
  BY <1>1
<1> QED BY <1>1, <1>2, AddedKeeps

LEMMA DeletionsKeep ==
    ASSUME NEW d \in Store, NEW e \in Deletions(d)
    PROVE  Keeps(d, e) /\ e[Flag] = d[Flag]
<1>1. PICK t \in Tables : e \in {Deleted(d, t, j) : j \in Rows(d, t)}
  BY DEF Deletions
<1>2. PICK j \in Rows(d, t) : e = Deleted(d, t, j)
  BY <1>1
<1> QED BY <1>2, DeletedKeeps

\* The steps of the TR-181 handlers.
Handlers == TableAdd \/ TableDel \/ TableSet \/ SwitchSet

LEMMA HandlerStores ==
    ASSUME db \in Store, Handlers
    PROVE  \E d, what :
              /\ HandlerCommits(d, what) /\ Keeps(db, d)
              /\ \/ what = "rules" /\ d[Flag] = db[Flag]
                 \/ what = "switch" /\ (Complete(db) => \A k \in RuleKeys : d[k] # -2 => db[k] # -2)
<1>1. CASE TableAdd \/ TableDel
  <2>1. PICK d : (d \in Additions(db) \/ d \in Deletions(db)) /\ HandlerCommits(d, "rules")
    BY <1>1 DEF TableAdd, TableDel
  <2>2. Keeps(db, d) /\ d[Flag] = db[Flag]
    BY <2>1, AdditionsKeep, DeletionsKeep
  <2> QED BY <2>1, <2>2
<1>2. CASE TableSet
  <2>1. PICK d \in Deletions(db) : \E e \in Additions(d) : HandlerCommits(e, "rules")
    BY <1>2 DEF TableSet
  <2>2. PICK e \in Additions(d) : HandlerCommits(e, "rules")
    BY <2>1
  <2>3. Keeps(db, d) /\ d[Flag] = db[Flag]
    BY DeletionsKeep
  <2>4. Keeps(d, e) /\ e[Flag] = d[Flag]
    BY <2>3, AdditionsKeep DEF Keeps
  <2>5. Keeps(db, e)
    BY <2>3, <2>4 DEF Keeps
  <2> QED BY <2>2, <2>3, <2>4, <2>5
<1>3. CASE SwitchSet
  <2>1. PICK value \in {0, 1, db[Flag]} : HandlerCommits(Switched(db, value), "switch")
    BY <1>3 DEF SwitchSet
  <2>3. value \in Int /\ value >= -2
    BY StoreParts, KeyTypes
  <2>2. /\ Keeps(db, Switched(db, value))
        /\ Complete(db) => \A k \in RuleKeys : Switched(db, value)[k] # -2 => db[k] # -2
    BY <2>3, SwitchedKeeps
  <2> QED BY <2>1, <2>2
<1> QED BY <1>1, <1>2, <1>3 DEF Handlers

\* What a step of a handler does.
LEMMA HandlerParts ==
    ASSUME db \in Store, Handlers
    PROVE  /\ "clients" \in faults /\ upsets < MaxUpsets /\ upsets' = upsets + 1
           /\ Keeps(db, db') /\ flash' = db'
           /\ clean' = FALSE /\ strayed' = (strayed \/ pc # "idle")
           /\ UNCHANGED <<buffers, gpf, pc, blob, outcome, applied>>
           /\ outside \subseteq outside' /\ outside' \subseteq outside \cup {"rules", "switch", "mixed"}
           /\ \/ "rules" \in outside' /\ db'[Flag] = db[Flag]
              \/ /\ "switch" \in outside'
                 /\ Complete(db) => \A k \in RuleKeys : db'[k] # -2 => db[k] # -2
<1>1. PICK d, what :
          /\ HandlerCommits(d, what) /\ Keeps(db, d)
          /\ \/ what = "rules" /\ d[Flag] = db[Flag]
             \/ what = "switch" /\ (Complete(db) => \A k \in RuleKeys : d[k] # -2 => db[k] # -2)
  BY HandlerStores
<1>2. /\ "clients" \in faults /\ upsets < MaxUpsets /\ upsets' = upsets + 1
      /\ db' = d /\ flash' = d
      /\ clean' = FALSE /\ strayed' = (strayed \/ pc # "idle")
      /\ UNCHANGED <<buffers, gpf, pc, blob, outcome, applied>>
  BY <1>1 DEF HandlerCommits
<1>3. outside' = outside \cup {what} \cup (IF pc = "idle" THEN {} ELSE {"mixed"})
  BY <1>1 DEF HandlerCommits
<1>4. what \in outside' /\ outside \subseteq outside' /\ outside' \subseteq outside \cup {what, "mixed"}
  BY <1>3
<1> QED BY <1>1, <1>2, <1>4

----------------------------------------------------------------------------
(* Types.                                                                   *)

StoresOk  == db \in Store /\ flash \in Store
BuffersOk == cache \in Buffers /\ bkup \in Buffers /\ size \in Sizes /\ bsize \in Sizes
RequestOk ==
    /\ gpf \in Nat
    /\ pc \in {"idle", "clear", "conf", "apply", "ack", "rollback"}
    /\ blob \in {0} \cup Versions /\ (pc # "idle" => blob \in Versions)
    /\ upsets \in 0 .. MaxUpsets
HistoryOk ==
    /\ outcome \in {"none", "done", "restored", "failed"}
    /\ applied \in {0} \cup Versions
    /\ clean \in BOOLEAN /\ strayed \in BOOLEAN
    /\ outside \subseteq {"rules", "switch", "litter", "mixed"}
    /\ faults \in FaultSets

TypedInv == StoresOk /\ BuffersOk /\ RequestOk /\ HistoryOk

LEMMA TypedIsTypeOK == TypedInv => TypeOK
<1> SUFFICES ASSUME TypedInv PROVE TypeOK
  OBVIOUS
<1>1. \A d \in Store : d \in [Keys -> {v \in Int : v >= Unset}]
  BY DEF Store
<1>2. \A arr \in Buffers : arr \in [Slots -> Slot]
  BY DEF Buffers, Pairs
<1>3. size \in {0} \cup Slots /\ bsize \in {0} \cup Slots
  BY SlotsOfSize DEF TypedInv, BuffersOk
<1> QED BY <1>1, <1>2, <1>3 DEF TypedInv, StoresOk, BuffersOk, RequestOk, HistoryOk, TypeOK

LEMMA BlobOfVersion ==
    ASSUME NEW v \in Versions
    PROVE  Blobs[v] \in Blob /\ v \in Nat /\ Enable(Blobs[v]) \in Nat
BY BlobsAssumption DEF Blob, Enable

\* The slots that a blob takes fit into the buffers.
LEMMA ConfFits ==
    ASSUME NEW b \in Blob
    PROVE  ConfSlots(b) \in Seq(Pairs) /\ Len(ConfSlots(b)) \in Sizes
<1>1. ConfSlots(b) \in Seq(Pairs) /\ Len(ConfSlots(b)) = 2 * Len(b) + 2
  BY ConfDescribes
<1>2. Len(b) \in 0 .. MaxEntries
  BY BlobParts
<1> QED BY <1>1, <1>2 DEF Sizes

LEMMA ExpandedFits ==
    ASSUME NEW b \in Blob, Bad(b) # {}
    PROVE  EntrySlots(b, Expanded(b)) \in Seq(Pairs) /\ Len(EntrySlots(b, Expanded(b))) \in Sizes
<1> DEFINE Less == {ss \in Nat \X Nat : ss[1] < ss[2]}
           m == CHOOSE i \in Bad(b) : \A k \in Bad(b) : i <= k
<1>1. Len(b) \in 0 .. MaxEntries
  BY BlobParts
<1>2. Bad(b) \subseteq 1 .. Len(b) /\ Bad(b) \subseteq Nat
  BY <1>1 DEF Bad
<1>3. IsWellFoundedOn(Less, Nat)
  BY NatLessThanWellFounded DEF OpToRel
<1>4. \E i \in Bad(b) : \A k \in Bad(b) : i <= k
  <2> HIDE DEF Less
  <2>1. PICK i \in Bad(b) : \A k \in Bad(b) : ~ (<<k, i>> \in Less)
    BY <1>2, <1>3, WFMin
  <2>2. ASSUME NEW k \in Bad(b) PROVE i <= k
    <3>1. <<k, i>> \in Nat \X Nat /\ <<k, i>>[1] = k /\ <<k, i>>[2] = i
      BY <1>2
    <3>2. ~ (k < i)
      BY <2>1, <3>1 DEF Less
    <3> QED BY <1>2, <3>2
  <2> QED BY <2>2
<1>5. m \in Bad(b)
  BY <1>4
<1>6. Expanded(b) = IF b[m].verdict = "protocol" THEN m ELSE m - 1
  BY DEF Expanded
<1> HIDE DEF m
<1>7. Expanded(b) \in 0 .. Len(b)
  BY <1>1, <1>2, <1>5, <1>6
<1>8. EntrySlots(b, Expanded(b)) \in Seq(Pairs) /\ Len(EntrySlots(b, Expanded(b))) = 2 * Expanded(b)
  BY <1>7, EntrySlot
<1> QED BY <1>1, <1>7, <1>8 DEF Sizes

LEMMA InitCacheTyped ==
    ASSUME NEW d \in Store, InitCache(d)
    PROVE  /\ BuffersOk'
           /\ gpf' \in Nat /\ pc' = "idle" /\ blob' = 0 /\ outcome' = "none" /\ clean' = FALSE
           /\ outside' = outside \cap {"litter"}
           /\ gpf' = Atoi(d[Flag])
           /\ size' = Len(InitSlots(d)) /\ \A i \in 1 .. size' : cache'[i] = InitSlots(d)[i]
<1>1. InitSlots(d) \in Seq(Pairs) /\ Len(InitSlots(d)) \in Sizes
  BY InitDescribes DEF Sizes
<1>2. <<>> \in Seq(Pairs) /\ Len(<<>>) = 0 /\ 0 \in Sizes
  BY DEF Sizes
<1>3. Loaded(InitSlots(d)) \in Buffers /\ Loaded(<<>>) \in Buffers
  BY <1>1, <1>2, LoadedBuffer
<1>4. d[Flag] \in Int
  BY StoreParts, KeyTypes
<1>5. \A i \in 1 .. Len(InitSlots(d)) : Loaded(InitSlots(d))[i] = InitSlots(d)[i]
  BY <1>1, LoadedBuffer
<1> QED BY <1>1, <1>2, <1>3, <1>4, <1>5 DEF InitCache, BuffersOk, Atoi

LEMMA InitTyped == Init => TypedInv
<1> SUFFICES ASSUME Init PROVE TypedInv
  OBVIOUS
<1>1. db \in Store /\ flash \in Store
  <2>1. Bounded \subseteq Keys
    BY KeyTypes DEF Bounded
  <2>2. db = [k \in Keys |-> -2] /\ flash = db
    BY DEF Init
  <2> QED BY <2>1, <2>2 DEF Store
<1>2. Loaded(<<>>) \in Buffers
  <2>1. <<>> \in Seq(Pairs) /\ Len(<<>>) = 0 /\ 0 \in Sizes
    BY DEF Sizes
  <2> QED BY <2>1, LoadedBuffer
<1>3. BuffersOk
  <2>1. 0 \in Sizes
    BY DEF Sizes
  <2> QED BY <1>2, <2>1 DEF Init, BuffersOk
<1>4. RequestOk
  <2>1. gpf = 0 /\ pc = "idle" /\ blob = 0 /\ upsets = 0
    BY DEF Init
  <2> QED BY <2>1 DEF RequestOk
<1>5. HistoryOk
  BY DEF Init, HistoryOk
<1> QED BY <1>1, <1>3, <1>4, <1>5 DEF TypedInv, StoresOk

\* A write of a store that is within its type.
LEMMA WriteTyped ==
    ASSUME StoresOk, upsets \in 0 .. MaxUpsets, NEW w, w.d \in Store, w.ok \in BOOLEAN,
           ~w.ok => upsets < MaxUpsets, Write(w)
    PROVE  StoresOk' /\ upsets' \in 0 .. MaxUpsets
<1>1. db' = w.d /\ flash' = (IF w.ok THEN w.d ELSE flash)
      /\ upsets' = (IF w.ok THEN upsets ELSE upsets + 1)
  BY DEF Write
<1>2. StoresOk'
  BY <1>1 DEF StoresOk
<1>3. upsets' \in 0 .. MaxUpsets
  BY <1>1
<1> QED BY <1>2, <1>3

\* The pair that setBlobVersion writes.
VersionPair == [i \in 1 .. 1 |-> [cmd |-> Version, val |-> blob]]

LEMMA VersionPairOk ==
    ASSUME blob \in Nat
    PROVE  /\ \A n \in 0 .. 1 : OfPairs(VersionPair, n) /\ n \in Nat
           /\ \A n \in 0 .. 1 : \A k \in RuleKeys : ~Listed(k, VersionPair, n)
<1>1. \A n \in 0 .. 1 : \A i \in 1 .. n :
          VersionPair[i].cmd = Version /\ VersionPair[i].val = blob /\ VersionPair[i] \in Slot
  BY KeyTypes DEF VersionPair, Slot
<1>2. \A k \in RuleKeys : k # Version
  BY OtherKeys
<1>3. \A n \in 0 .. 1 : OfPairs(VersionPair, n)
  BY <1>1, BoundedKeys, NotFlag DEF OfPairs, Pairs
<1>4. \A n \in 0 .. 1 : \A k \in RuleKeys : ~Listed(k, VersionPair, n)
  BY <1>1, <1>2 DEF Listed
<1> QED BY <1>3, <1>4

\* The store that setBlobVersion leaves, whether it succeeds or not.
LEMMA AckStore ==
    ASSUME TypedInv, Ack
    PROVE  \E d \in Store : \E ok \in BOOLEAN :
              /\ Write([d |-> d, ok |-> ok])
              /\ ~ok => upsets < MaxUpsets
              /\ d[Flag] = db[Flag] /\ \A k \in RuleKeys : d[k] = db[k]
<1>1. pc = "ack" /\ \E e \in Ends(1) : Write([d |-> SetPairs(db, VersionPair, e.calls), ok |-> e.ok])
  BY DEF Ack, VersionPair
<1>2. PICK e \in Ends(1) : Write([d |-> SetPairs(db, VersionPair, e.calls), ok |-> e.ok])
  BY <1>1
<1>3. e.calls \in 0 .. 1 /\ e.ok \in BOOLEAN /\ (~e.ok => upsets < MaxUpsets)
  <2>1. 1 \in Nat
    OBVIOUS
  <2> QED BY <2>1, EndsParts
<1>4. blob \in Nat
  BY <1>1, BlobOfVersion DEF TypedInv, RequestOk
<1>5. OfPairs(VersionPair, e.calls) /\ e.calls \in Nat
      /\ \A k \in RuleKeys : ~Listed(k, VersionPair, e.calls)
  BY <1>3, <1>4, VersionPairOk
<1>6. SetPairs(db, VersionPair, e.calls) \in Store
  BY <1>5, SetPairsStore DEF TypedInv, StoresOk
<1>7. ASSUME NEW k \in RuleKeys PROVE SetPairs(db, VersionPair, e.calls)[k] = db[k]
  BY <1>5, SetPairsRead, KeyTypes
<1>8. SetPairs(db, VersionPair, e.calls)[Flag] = db[Flag]
  BY <1>5, FlagKept
<1> QED BY <1>2, <1>3, <1>6, <1>7, <1>8

LEMMA PushTyped ==
    ASSUME TypedInv, Push, UNCHANGED faults PROVE TypedInv'
BY DEF TypedInv, Push, StoresOk, BuffersOk, RequestOk, HistoryOk, buffers

\* backup_pf_cache and clear_pf_cache_DB.
LEMMA ClearParts ==
    ASSUME TypedInv, Clear
    PROVE  \E k \in 0 .. size : \E ok \in BOOLEAN :
              /\ Write([d |-> UnsetPairs(db, cache, k), ok |-> ok])
              /\ UnsetPairs(db, cache, k) \in Store
              /\ ok => k = size
              /\ ~ok => upsets < MaxUpsets
              /\ cache' = [i \in Slots |-> IF i <= k THEN Blank ELSE cache[i]]
              /\ pc' = IF ok THEN "conf" ELSE "rollback"
<1>1. PICK e \in Ends(size) :
          /\ Write([d |-> UnsetPairs(db, cache, e.calls), ok |-> e.ok])
          /\ cache' = [i \in Slots |-> IF i <= e.calls THEN Blank ELSE cache[i]]
          /\ pc' = IF e.ok THEN "conf" ELSE "rollback"
  BY DEF Clear
<1>2. size \in Nat
  BY SlotsOfSize DEF TypedInv, BuffersOk
<1>3. /\ e.calls \in 0 .. size /\ e.ok \in BOOLEAN
      /\ e.ok => e.calls = size
      /\ ~e.ok => upsets < MaxUpsets
  BY <1>2, EndsParts
<1>4. e.calls \in Nat
  BY <1>2, <1>3
<1>5. UnsetPairs(db, cache, e.calls) \in Store
  BY <1>4, UnsetPairsStore DEF TypedInv, StoresOk
<1> QED BY <1>1, <1>3, <1>5

LEMMA ClearTyped ==
    ASSUME TypedInv, Clear, UNCHANGED faults PROVE TypedInv'
<1>1. PICK k \in 0 .. size, ok \in BOOLEAN :
          /\ Write([d |-> UnsetPairs(db, cache, k), ok |-> ok])
          /\ UnsetPairs(db, cache, k) \in Store
          /\ ~ok => upsets < MaxUpsets
          /\ cache' = [i \in Slots |-> IF i <= k THEN Blank ELSE cache[i]]
          /\ pc' = IF ok THEN "conf" ELSE "rollback"
  BY ClearParts
<1>2. StoresOk' /\ upsets' \in 0 .. MaxUpsets
  <2> DEFINE w == [d |-> UnsetPairs(db, cache, k), ok |-> ok]
  <2>1. w.d \in Store /\ w.ok \in BOOLEAN /\ (~w.ok => upsets < MaxUpsets) /\ Write(w)
    BY <1>1
  <2> HIDE DEF w
  <2> QED BY <2>1, WriteTyped DEF TypedInv, RequestOk
<1>3. bkup' \in Buffers
  BY CopiedBuffer DEF Clear, TypedInv, BuffersOk
<1>4. cache' \in Buffers
  BY <1>1, ClearedBuffer DEF TypedInv, BuffersOk
<1>5. BuffersOk'
  BY <1>3, <1>4 DEF Clear, TypedInv, BuffersOk
<1>6. RequestOk'
  BY <1>1, <1>2 DEF Clear, TypedInv, RequestOk
<1>7. HistoryOk'
  BY DEF Clear, TypedInv, HistoryOk
<1> QED BY <1>2, <1>5, <1>6, <1>7 DEF TypedInv

LEMMA ConfTyped ==
    ASSUME TypedInv, Conf, UNCHANGED faults PROVE TypedInv'
<1>1. blob \in Versions /\ Blobs[blob] \in Blob
  BY BlobOfVersion DEF Conf, TypedInv, RequestOk
<1>2. cache \in Buffers /\ size \in Sizes
  BY DEF TypedInv, BuffersOk
<1>3. cache' \in Buffers /\ size' \in Sizes /\ pc' \in {"apply", "rollback"}
  <2>1. CASE ConfOk
    <3>1. ConfSlots(Blobs[blob]) \in Seq(Pairs) /\ Len(ConfSlots(Blobs[blob])) \in Sizes
      BY <1>1, ConfFits
    <3>2. Overwrite(cache, ConfSlots(Blobs[blob])) \in Buffers
      BY <1>2, <3>1, OverwrittenBuffer
    <3> QED BY <2>1, <3>1, <3>2 DEF ConfOk
  <2>2. CASE ConfBad
    <3> DEFINE s == EntrySlots(Blobs[blob], Expanded(Blobs[blob]))
    <3>1. s \in Seq(Pairs) /\ Len(s) \in Sizes
      BY <1>1, <2>2, ExpandedFits DEF ConfBad
    <3>2. cache' = Overwrite(cache, s) /\ size' = size /\ pc' = "rollback"
      BY <2>2 DEF ConfBad
    <3> HIDE DEF s
    <3>3. Overwrite(cache, s) \in Buffers
      BY <1>2, <3>1, OverwrittenBuffer
    <3> QED BY <1>2, <3>2, <3>3
  <2> QED BY <2>1, <2>2 DEF Conf
<1>4. BuffersOk'
  BY <1>3 DEF Conf, TypedInv, BuffersOk
<1>5. StoresOk' /\ HistoryOk'
  BY DEF Conf, TypedInv, StoresOk, HistoryOk
<1>6. RequestOk'
  BY <1>3 DEF Conf, TypedInv, RequestOk
<1> QED BY <1>4, <1>5, <1>6 DEF TypedInv

LEMMA ApplyTyped ==
    ASSUME TypedInv, Apply, UNCHANGED faults PROVE TypedInv'
<1>1. pc = "apply" /\ blob \in Versions /\ Enable(Blobs[blob]) \in Nat
  BY BlobOfVersion DEF Apply, TypedInv, RequestOk
<1>2. PICK w \in ApplyEnds(cache, size, Enable(Blobs[blob])) :
          Write(w) /\ IF w.ok THEN ApplyOk ELSE ApplyFail
  BY DEF Apply
<1>3. w.d \in Store /\ w.ok \in BOOLEAN /\ (~w.ok => upsets < MaxUpsets)
  BY <1>1, ApplyEndsParts DEF TypedInv, StoresOk, BuffersOk
<1>4. StoresOk' /\ upsets' \in 0 .. MaxUpsets
  BY <1>2, <1>3, WriteTyped DEF TypedInv, RequestOk
<1>5. BuffersOk'
  BY DEF Apply, buffers, TypedInv, BuffersOk
<1>6. RequestOk'
  BY <1>1, <1>2, <1>4 DEF Apply, ApplyOk, ApplyFail, TypedInv, RequestOk
<1>7. HistoryOk'
  BY <1>1, <1>2 DEF Apply, ApplyOk, ApplyFail, TypedInv, HistoryOk
<1> QED BY <1>4, <1>5, <1>6, <1>7 DEF TypedInv

LEMMA AckTyped ==
    ASSUME TypedInv, Ack, UNCHANGED faults PROVE TypedInv'
<1>1. PICK d \in Store, ok \in BOOLEAN :
          Write([d |-> d, ok |-> ok]) /\ (~ok => upsets < MaxUpsets)
  BY AckStore
<1>2. StoresOk' /\ upsets' \in 0 .. MaxUpsets
  <2> DEFINE w == [d |-> d, ok |-> ok]
  <2>1. w.d \in Store /\ w.ok \in BOOLEAN /\ (~w.ok => upsets < MaxUpsets) /\ Write(w)
    BY <1>1
  <2> HIDE DEF w
  <2> QED BY <2>1, WriteTyped DEF TypedInv, RequestOk
<1>3. BuffersOk' /\ HistoryOk'
  BY DEF Ack, buffers, TypedInv, BuffersOk, HistoryOk
<1>4. RequestOk'
  BY <1>2 DEF Ack, TypedInv, RequestOk
<1> QED BY <1>2, <1>3, <1>4 DEF TypedInv

LEMMA RollbackTyped ==
    ASSUME TypedInv, Rollback, UNCHANGED faults PROVE TypedInv'
<1>1. PICK w \in ApplyEnds(bkup, bsize, gpf) :
          /\ Write(w)
          /\ outcome' = IF w.ok THEN "restored" ELSE "failed"
          /\ strayed' = (strayed \/ ~w.ok)
  BY DEF Rollback
<1>2. w.d \in Store /\ w.ok \in BOOLEAN /\ (~w.ok => upsets < MaxUpsets)
  BY ApplyEndsParts DEF TypedInv, StoresOk, BuffersOk, RequestOk
<1>3. StoresOk' /\ upsets' \in 0 .. MaxUpsets
  BY <1>1, <1>2, WriteTyped DEF TypedInv, RequestOk
<1>4. cache' \in Buffers
  BY CopiedBuffer DEF Rollback, TypedInv, BuffersOk
<1>5. BuffersOk'
  BY <1>4 DEF Rollback, TypedInv, BuffersOk
<1>6. RequestOk'
  BY <1>3 DEF Rollback, TypedInv, RequestOk
<1>7. HistoryOk'
  <2>1. outcome' \in {"none", "done", "restored", "failed"} /\ strayed' \in BOOLEAN
    BY <1>1
  <2> QED BY <2>1 DEF Rollback, TypedInv, HistoryOk
<1> QED BY <1>3, <1>5, <1>6, <1>7 DEF TypedInv

LEMMA RestartTyped ==
    ASSUME TypedInv, Restart \/ PowerCut, UNCHANGED faults PROVE TypedInv'
<1>1. PICK d \in {db, flash} : InitCache(d) /\ db' = d /\ flash' = flash
                               /\ UNCHANGED <<upsets, applied, strayed>>
  BY DEF Restart, PowerCut
<1>2. d \in Store
  BY DEF TypedInv, StoresOk
<1>3. /\ BuffersOk'
      /\ gpf' \in Nat /\ pc' = "idle" /\ blob' = 0 /\ outcome' = "none" /\ clean' = FALSE
      /\ outside' = outside \cap {"litter"}
  BY <1>1, <1>2, InitCacheTyped
<1>4. StoresOk'
  BY <1>1, <1>2 DEF TypedInv, StoresOk
<1>5. RequestOk' /\ HistoryOk'
  BY <1>1, <1>3 DEF TypedInv, RequestOk, HistoryOk
<1> QED BY <1>3, <1>4, <1>5 DEF TypedInv

LEMMA HandlersTyped ==
    ASSUME TypedInv, Handlers, UNCHANGED faults PROVE TypedInv'
<1>1. db \in Store
  BY DEF TypedInv, StoresOk
<1>2. /\ upsets < MaxUpsets /\ upsets' = upsets + 1
      /\ Keeps(db, db') /\ flash' = db'
      /\ clean' = FALSE /\ strayed' = (strayed \/ pc # "idle")
      /\ UNCHANGED <<buffers, gpf, pc, blob, outcome, applied>>
      /\ outside' \subseteq outside \cup {"rules", "switch", "mixed"}
  BY <1>1, HandlerParts
<1>3. StoresOk' /\ BuffersOk'
  BY <1>2 DEF Keeps, buffers, TypedInv, StoresOk, BuffersOk
<1>4. RequestOk'
  BY <1>2 DEF TypedInv, RequestOk
<1>5. outside' \subseteq {"rules", "switch", "litter", "mixed"}
  BY <1>2 DEF TypedInv, HistoryOk
<1>6. HistoryOk'
  BY <1>2, <1>5 DEF TypedInv, HistoryOk
<1> QED BY <1>3, <1>4, <1>6 DEF TypedInv

LEMMA TypedStep == TypedInv /\ [Next]_vars => TypedInv'
<1> SUFFICES ASSUME TypedInv, [Next]_vars PROVE TypedInv'
  OBVIOUS
<1>1. CASE UNCHANGED vars
  BY <1>1 DEF TypedInv, StoresOk, BuffersOk, RequestOk, HistoryOk, vars, system
<1>2. CASE Next
  BY <1>2, PushTyped, ClearTyped, ConfTyped, ApplyTyped, AckTyped, RollbackTyped, RestartTyped,
     HandlersTyped
     DEF Next, Handlers
<1> QED BY <1>1, <1>2

LEMMA TypedHolds == Spec => []TypedInv
BY InitTyped, TypedStep, PTL DEF Spec

\* Every variable stays within its type: in particular init_pf_cache and
\* set_portmap_conf, which check no index against PORTMAP_CACHE_SIZE, never fill
\* more slots than MaxEntries rules in each table take, and no store ever comes
\* to a count above MaxEntries, the bound up to which TR-181 handlers add rows.
THEOREM PfTypes == Spec => []TypeOK
BY TypedHolds, TypedIsTypeOK, PTL

----------------------------------------------------------------------------
(* Buffers with the same pairs, and stores with the same rule keys.         *)

\* Setting the buffer leaves these rules, whatever the store.
Restores(arr, n, rules) == \A d \in Store : RulesIn(SetPairs(d, arr, n)) = rules

LEMMA SameFacts ==
    ASSUME NEW n \in Nat, NEW arr, NEW old, \A i \in 1 .. n : arr[i] = old[i]
    PROVE  /\ Sound(arr, n) <=> Sound(old, n)
           /\ Neat(arr, n) <=> Neat(old, n)
           /\ \A rules : Restores(arr, n, rules) <=> Restores(old, n, rules)
           /\ \A d : Covers(d, arr, n) <=> Covers(d, old, n)
           /\ \A d : Tracks(d, arr, n) <=> Tracks(d, old, n)
<1>1. /\ \A k : Listed(k, arr, n) <=> Listed(k, old, n)
      /\ \A d : SetPairs(d, arr, n) = SetPairs(d, old, n)
  BY SameSlots
<1>2. \A d : Covers(d, arr, n) <=> Covers(d, old, n)
  <2>1. \A t : Listed(Count(t), arr, n) <=> Listed(Count(t), old, n)
    BY <1>1
  <2> QED BY <2>1 DEF Covers
<1>3. \A d : Tracks(d, arr, n) <=> Tracks(d, old, n)
  BY <1>1 DEF Tracks
<1>4. \A rules : Restores(arr, n, rules) <=> Restores(old, n, rules)
  BY <1>1 DEF Restores
<1>5. Sound(arr, n) <=> Sound(old, n)
  <2>1. Closed(arr, n) <=> Closed(old, n)
    BY <1>1 DEF Closed
  <2>2. \A d : (Covers(d, arr, n) => Complete(SetPairs(d, arr, n)))
           <=> (Covers(d, old, n) => Complete(SetPairs(d, old, n)))
    BY <1>1, <1>2
  <2> QED BY <2>1, <2>2 DEF Sound
<1>6. Neat(arr, n) <=> Neat(old, n)
  BY <1>1, <1>3 DEF Neat
<1> QED BY <1>2, <1>3, <1>4, <1>5, <1>6

LEMMA SameRules ==
    ASSUME NEW d \in Store, NEW e \in Store, \A k \in RuleKeys : e[k] = d[k]
    PROVE  /\ RulesIn(e) = RulesIn(d)
           /\ Complete(d) => Complete(e)
           /\ Whole(d) => Whole(e)
           /\ \A arr, n : Covers(d, arr, n) => Covers(e, arr, n)
           /\ \A arr, n : Tracks(d, arr, n) => Tracks(e, arr, n)
<1>1. ASSUME NEW t \in Tables
      PROVE  /\ e[Count(t)] = d[Count(t)]
             /\ Atoi(d[Count(t)]) \in 0 .. MaxEntries
             /\ \A j \in 1 .. MaxEntries : e[Alias(t, j)] = d[Alias(t, j)]
                                           /\ Atoi(d[Alias(t, j)]) \in 0 .. MaxEntries
             /\ \A i \in 0 .. MaxEntries : e[Attrs(t, i)] = d[Attrs(t, i)]
  <2>1. \A j \in 1 .. MaxEntries : d[Alias(t, j)] \in -2 .. MaxEntries
    BY StoreParts
  <2>2. \A v \in -2 .. MaxEntries : Atoi(v) \in 0 .. MaxEntries
    BY DEF Atoi
  <2>3. Atoi(d[Count(t)]) \in 0 .. MaxEntries
    BY StoreParts
  <2> QED BY <2>1, <2>2, <2>3, KeyTypes
<1>2. ASSUME NEW t \in Tables, NEW j \in 1 .. Atoi(d[Count(t)])
      PROVE  /\ e[Alias(t, j)] = d[Alias(t, j)]
             /\ e[Attrs(t, Atoi(e[Alias(t, j)]))] = d[Attrs(t, Atoi(d[Alias(t, j)]))]
  <2>1. j \in 1 .. MaxEntries
    BY <1>1
  <2> QED BY <1>1, <2>1
<1>3. RulesIn(e) = RulesIn(d)
  <2>1. ASSUME NEW t \in Tables
        PROVE  [j \in 1 .. Atoi(e[Count(t)]) |-> e[Attrs(t, Atoi(e[Alias(t, j)]))]]
               = [j \in 1 .. Atoi(d[Count(t)]) |-> d[Attrs(t, Atoi(d[Alias(t, j)]))]]
    BY <1>1, <1>2
  <2> QED BY <2>1 DEF RulesIn
<1>4. \A t \in Tables : CompleteAt(d, t) => CompleteAt(e, t)
  BY <1>1, SameTable
<1>5. ASSUME Whole(d), NEW t \in Tables
      PROVE  /\ \A j \in 1 .. MaxEntries : e[Alias(t, j)] # -2 => j <= Atoi(e[Count(t)])
             /\ \A i \in 0 .. MaxEntries : e[Attrs(t, i)] # -2 =>
                   \E j \in 1 .. Atoi(e[Count(t)]) : Atoi(e[Alias(t, j)]) = i
  <2>1. \A j \in 1 .. MaxEntries : e[Alias(t, j)] # -2 => j <= Atoi(e[Count(t)])
    BY <1>1, <1>5 DEF Whole
  <2>2. ASSUME NEW i \in 0 .. MaxEntries, e[Attrs(t, i)] # -2
        PROVE  \E j \in 1 .. Atoi(e[Count(t)]) : Atoi(e[Alias(t, j)]) = i
    <3>1. d[Attrs(t, i)] # -2
      BY <1>1, <2>2
    <3>2. PICK j \in 1 .. Atoi(d[Count(t)]) : Atoi(d[Alias(t, j)]) = i
      BY <1>5, <3>1 DEF Whole
    <3> QED BY <1>1, <1>2, <3>2
  <2> QED BY <2>1, <2>2
<1>6. Whole(d) => Whole(e)
  BY <1>5 DEF Whole
<1>7. \A arr, n : Covers(d, arr, n) => Covers(e, arr, n)
  BY <1>4 DEF Covers
<1>8. \A arr, n : Tracks(d, arr, n) => Tracks(e, arr, n)
  BY DEF Tracks
<1>9. Complete(d) => Complete(e)
  BY <1>4 DEF Complete
<1> QED BY <1>3, <1>6, <1>7, <1>8, <1>9

\* Setting a buffer adds no key that the buffer does not have.
LEMMA SetPairsCovered ==
    ASSUME NEW d, NEW arr, NEW n \in Nat, Tracks(d, arr, n)
    PROVE  Tracks(SetPairs(d, arr, n), arr, n)
<1>1. \A k \in Keys : ~Listed(k, arr, n) => SetPairs(d, arr, n)[k] = d[k]
  BY SetPairsRead
<1>2. RuleKeys \subseteq Keys
  BY KeyTypes
<1> QED BY <1>1, <1>2 DEF Tracks

\* Clearing removes the counts, or all the rule keys, that the buffer has.
LEMMA UnsetPairsCovered ==
    ASSUME NEW d \in Store, NEW arr, NEW n \in Nat, NEW k \in 0 .. n
    PROVE  /\ Closed(arr, n) /\ Covers(d, arr, n) =>
                 /\ Covers(UnsetPairs(d, arr, k), arr, n)
                 /\ Complete(UnsetPairs(d, arr, n))
           /\ Tracks(d, arr, n) => Tracks(UnsetPairs(d, arr, k), arr, n)
           /\ Tracks(d, arr, n) =>
                 /\ \A x \in RuleKeys : UnsetPairs(d, arr, n)[x] = Unset
                 /\ Whole(UnsetPairs(d, arr, n))
<1>1. /\ \A x \in Keys : UnsetPairs(d, arr, k)[x] = IF Listed(x, arr, k) THEN -2 ELSE d[x]
      /\ \A x \in Keys : UnsetPairs(d, arr, n)[x] = IF Listed(x, arr, n) THEN -2 ELSE d[x]
  BY UnsetPairsRead
<1>2. \A t \in Tables : Count(t) \in Keys
  BY KeyTypes
<1>3. RuleKeys \subseteq Keys
  BY KeyTypes
<1>4. ASSUME Closed(arr, n), NEW t \in Tables, ~Listed(Count(t), arr, n), NEW m \in {k, n},
             CompleteAt(d, t)
      PROVE  CompleteAt(UnsetPairs(d, arr, m), t)
  <2> DEFINE e == UnsetPairs(d, arr, m)
  <2>1. \A x : ~Listed(x, arr, n) => ~Listed(x, arr, m)
    <3>1. 1 .. m \subseteq 1 .. n
      OBVIOUS
    <3> QED BY <3>1 DEF Listed
  <2>2. \A x \in Keys : ~Listed(x, arr, m) => e[x] = d[x]
    BY <1>1
  <2> HIDE DEF e
  <2>3. e[Count(t)] = d[Count(t)]
    BY <1>2, <1>4, <2>1, <2>2
  <2>4. ASSUME NEW j \in 1 .. MaxEntries PROVE e[Alias(t, j)] = d[Alias(t, j)]
    <3>1. Alias(t, j) \in Keys /\ ~Listed(Alias(t, j), arr, n)
      BY <1>4, KeyTypes DEF Closed
    <3> QED BY <2>1, <2>2, <3>1
  <2>5. ASSUME NEW i \in 0 .. MaxEntries PROVE e[Attrs(t, i)] = d[Attrs(t, i)]
    <3>1. Attrs(t, i) \in Keys /\ ~Listed(Attrs(t, i), arr, n)
      BY <1>4, KeyTypes DEF Closed
    <3> QED BY <2>1, <2>2, <3>1
  <2> QED BY <1>4, <2>3, <2>4, <2>5, SameTable DEF e
<1>5. Tracks(d, arr, n) => Tracks(UnsetPairs(d, arr, k), arr, n)
  BY <1>1, <1>3 DEF Tracks
<1>6. ASSUME Closed(arr, n), Covers(d, arr, n)
      PROVE  Covers(UnsetPairs(d, arr, k), arr, n) /\ Complete(UnsetPairs(d, arr, n))
  <2>1. Covers(UnsetPairs(d, arr, k), arr, n)
    BY <1>4, <1>6 DEF Covers
  <2>2. ASSUME NEW t \in Tables PROVE CompleteAt(UnsetPairs(d, arr, n), t)
    <3>1. CASE Listed(Count(t), arr, n)
      <4>1. UnsetPairs(d, arr, n)[Count(t)] = -2
        BY <1>1, <1>2, <3>1
      <4> QED BY <4>1, CompleteCovers
    <3>2. CASE ~Listed(Count(t), arr, n)
      BY <1>4, <1>6, <3>2 DEF Covers
    <3> QED BY <3>1, <3>2
  <2> QED BY <2>1, <2>2 DEF Complete
<1>7. ASSUME Tracks(d, arr, n) PROVE \A x \in RuleKeys : UnsetPairs(d, arr, n)[x] = -2
  BY <1>1, <1>3, <1>7 DEF Tracks
<1>8. ASSUME Tracks(d, arr, n) PROVE Whole(UnsetPairs(d, arr, n))
  <2>1. \A t \in Tables : /\ \A j \in 1 .. MaxEntries : UnsetPairs(d, arr, n)[Alias(t, j)] = -2
                          /\ \A i \in 0 .. MaxEntries : UnsetPairs(d, arr, n)[Attrs(t, i)] = -2
    BY <1>7, <1>8, KeyTypes
  <2> QED BY <2>1 DEF Whole
<1> QED BY <1>5, <1>6, <1>7, <1>8

\* Setting the buffer of a blob leaves the rules of the blob, whatever the
\* store was.
LEMMA ConfRestores ==
    ASSUME NEW b \in Blob
    PROVE  Restores(ConfSlots(b), Len(ConfSlots(b)), RulesOf(b))
<1> DEFINE s == ConfSlots(b)
           n == Len(s)
           c == CountsOf(b)
           a == AliasesOf(b)
<1> SUFFICES ASSUME NEW d \in Store PROVE RulesIn(SetPairs(d, s, n)) = RulesOf(b)
  BY DEF Restores
<1> DEFINE e == SetPairs(d, s, n)
<1>1. /\ n \in Nat /\ OfPairs(s, n) /\ Describes(s, n, c, a)
      /\ \A m \in 1 .. n : \A t \in Tables, k \in 1 .. Len(b) :
            s[m].cmd = Attrs(t, k) => s[m].val = b[k].r
  BY ConfDescribes, BlobParts
<1>2. c \in Counts /\ a \in Aliases
  BY TablesOfBlob
<1> HIDE DEF s, n, c, a
<1>3. ASSUME NEW t \in Tables
      PROVE  /\ Atoi(e[Count(t)]) = Rank(b, t, Len(b))
             /\ \A j \in 1 .. Rank(b, t, Len(b)) : e[Alias(t, j)] = Nth(b, t, j)
  <2>1. /\ c[t] = Rank(b, t, Len(b)) /\ Atoi(c[t]) = Rank(b, t, Len(b))
        /\ \A j \in 1 .. Rank(b, t, Len(b)) : a[t][j] = Nth(b, t, j)
    BY TablesOfBlob DEF c, a
  <2>2. Rank(b, t, Len(b)) \in 0 .. MaxEntries
    BY NthEntry
  <2>3. /\ e[Count(t)] = IF c[t] = -2 THEN d[Count(t)] ELSE c[t]
        /\ \A j \in 1 .. MaxEntries :
              e[Alias(t, j)] = IF j \in 1 .. Atoi(c[t]) THEN a[t][j] ELSE d[Alias(t, j)]
    BY <1>1, <1>2, DescribedRead
  <2> HIDE DEF e
  <2>4. c[t] # -2
    BY <2>1, <2>2
  <2>5. e[Count(t)] = c[t]
    BY <2>3, <2>4
  <2>6. \A j \in 1 .. Rank(b, t, Len(b)) : e[Alias(t, j)] = a[t][j]
    BY <2>1, <2>2, <2>3
  <2> QED BY <2>1, <2>5, <2>6
<1>4. ASSUME NEW t \in Tables, NEW j \in 1 .. Rank(b, t, Len(b))
      PROVE  e[Attrs(t, Atoi(e[Alias(t, j)]))] = b[Nth(b, t, j)].r
  <2> DEFINE i == Nth(b, t, j)
  <2>1. /\ i \in 1 .. Len(b) /\ Len(b) \in 0 .. MaxEntries /\ b[i].t = t
        /\ Rank(b, t, i) = j /\ Rank(b, t, Len(b)) \in 0 .. MaxEntries
    BY NthEntry, BlobParts
  <2>2. Atoi(c[t]) = Rank(b, t, Len(b)) /\ a[t][j] = i
    BY TablesOfBlob DEF c, a
  <2>3. e[Alias(t, j)] = i
    BY <1>3
  <2> HIDE DEF i, e
  <2>4. i \in 1 .. MaxEntries /\ Atoi(i) = i
    BY <2>1 DEF Atoi
  <2>5. Attrs(t, i) \in Keys
    BY <2>4, KeyTypes
  <2>6. Named(i, t, c, a)
    BY <2>2, <2>4 DEF Named
  <2>7. Listed(Attrs(t, i), s, n)
    BY <1>1, <1>2, <2>6, DescribedKeys
  <2>8. PICK m \in 1 .. n : s[m].cmd = Attrs(t, i) /\ e[Attrs(t, i)] = s[m].val
    BY <1>1, <2>5, <2>7, SetPairsRead DEF e
  <2>9. s[m].val = b[i].r
    BY <1>1, <2>1, <2>8
  <2> QED BY <2>3, <2>4, <2>8, <2>9 DEF i
<1>5. ASSUME NEW t \in Tables
      PROVE  [j \in 1 .. Atoi(e[Count(t)]) |-> e[Attrs(t, Atoi(e[Alias(t, j)]))]]
             = [j \in 1 .. Rank(b, t, Len(b)) |-> b[Nth(b, t, j)].r]
  <2> HIDE DEF e
  <2> QED BY <1>3, <1>4
<1>6. RulesOf(b) = [t \in Tables |-> [j \in 1 .. Rank(b, t, Len(b)) |-> b[Nth(b, t, j)].r]]
  BY DEF RulesOf, Nth
<1>7. RulesIn(e) = [t \in Tables |->
                       [j \in 1 .. Atoi(e[Count(t)]) |-> e[Attrs(t, Atoi(e[Alias(t, j)]))]]]
  BY DEF RulesIn
<1> HIDE DEF e
<1>8. RulesIn(e) = RulesOf(b)
  BY <1>5, <1>6, <1>7
<1> QED BY <1>8 DEF e

\* A buffer with the pairs of a blob.
LEMMA BlobBuffer ==
    ASSUME NEW b \in Blob, NEW arr, NEW n, n = Len(ConfSlots(b)),
           \A i \in 1 .. n : arr[i] = ConfSlots(b)[i]
    PROVE  /\ Restores(arr, n, RulesOf(b)) /\ Sound(arr, n) /\ Neat(arr, n)
           /\ \A d \in Store : Covers(d, arr, n)
<1> DEFINE s == ConfSlots(b)
           c == CountsOf(b)
           a == AliasesOf(b)
<1>1. /\ n \in Nat /\ OfPairs(s, n) /\ Describes(s, n, c, a)
  BY ConfDescribes, BlobParts
<1>2. c \in Counts /\ a \in Aliases /\ \A t \in Tables : c[t] # -2
  <2>1. \A t \in Tables : c[t] \in 0 .. MaxEntries
    BY TablesOfBlob, NthEntry
  <2>2. c \in Counts /\ a \in Aliases
    BY TablesOfBlob
  <2> HIDE DEF c
  <2> QED BY <2>1, <2>2
<1>3. Restores(s, n, RulesOf(b))
  BY ConfRestores
<1> HIDE DEF s, c, a
<1>4. Sound(s, n) /\ Neat(s, n)
  BY <1>1, <1>2, DescribedSound, DescribedNeat
<1>5. \A t \in Tables : Listed(Count(t), s, n)
  BY <1>1, <1>2, DescribedKeys
<1>6. \A d \in Store : Covers(d, s, n)
  BY <1>5 DEF Covers
<1>7. \A i \in 1 .. n : arr[i] = s[i]
  BY DEF s
<1> QED BY <1>1, <1>3, <1>4, <1>6, <1>7, SameFacts

\* A buffer with the pairs that init_pf_cache reads from a store.
LEMMA StoreBuffer ==
    ASSUME NEW d \in Store, NEW arr, NEW n, n = Len(InitSlots(d)),
           \A i \in 1 .. n : arr[i] = InitSlots(d)[i]
    PROVE  /\ Sound(arr, n) /\ Neat(arr, n) /\ Covers(d, arr, n)
           /\ Whole(d) => Tracks(d, arr, n)
<1> DEFINE s == InitSlots(d)
           c == CountsIn(d)
           a == AliasesIn(d)
<1>1. n \in Nat /\ OfPairs(s, n) /\ Describes(s, n, c, a)
  BY InitDescribes
<1>2. c \in Counts /\ a \in Aliases /\ \A t \in Tables : c[t] = d[Count(t)]
  BY TablesOfStore
<1>3. \A t \in Tables, j \in 1 .. MaxEntries : Atoi(a[t][j]) = Atoi(d[Alias(t, j)])
  BY DEF AliasesIn, Atoi
<1> HIDE DEF s, c, a
<1>4. Sound(s, n) /\ Neat(s, n)
  BY <1>1, <1>2, DescribedSound, DescribedNeat
<1>5. ASSUME NEW t \in Tables
      PROVE  /\ Listed(Count(t), s, n) <=> d[Count(t)] # -2
             /\ \A j : Listed(Alias(t, j), s, n) <=> j \in 1 .. Atoi(d[Count(t)])
             /\ \A i : Listed(Attrs(t, i), s, n) <=> Named(i, t, c, a)
  <2>1. /\ Listed(Count(t), s, n) <=> c[t] # -2
        /\ \A j : Listed(Alias(t, j), s, n) <=> j \in 1 .. Atoi(c[t])
        /\ \A i : Listed(Attrs(t, i), s, n) <=> Named(i, t, c, a)
    BY <1>1, <1>2, DescribedKeys
  <2>2. c[t] = d[Count(t)]
    BY <1>2
  <2> QED BY <2>1, <2>2
<1>6. Covers(d, s, n)
  <2>1. \A t \in Tables : d[Count(t)] # -2 => Listed(Count(t), s, n)
    BY <1>5
  <2> QED BY <2>1, CompleteCovers DEF Covers
<1>7. ASSUME Whole(d), NEW k \in RuleKeys, d[k] # -2 PROVE Listed(k, s, n)
  <2>1. PICK t \in Tables : \/ k = Count(t)
                            \/ \E j \in 1 .. MaxEntries : k = Alias(t, j)
                            \/ \E i \in 0 .. MaxEntries : k = Attrs(t, i)
    BY RuleKeyCases
  <2>2. Atoi(d[Count(t)]) \in 0 .. MaxEntries
    BY StoreParts
  <2>3. CASE k = Count(t)
    BY <1>5, <1>7, <2>3
  <2>4. ASSUME NEW j \in 1 .. MaxEntries, k = Alias(t, j) PROVE Listed(k, s, n)
    <3>1. j <= Atoi(d[Count(t)])
      BY <1>7, <2>4 DEF Whole
    <3> QED BY <1>5, <2>2, <2>4, <3>1
  <2>5. ASSUME NEW i \in 0 .. MaxEntries, k = Attrs(t, i) PROVE Listed(k, s, n)
    <3>1. PICK j \in 1 .. Atoi(d[Count(t)]) : Atoi(d[Alias(t, j)]) = i
      BY <1>7, <2>5 DEF Whole
    <3>2. j \in 1 .. MaxEntries
      BY <2>2
    <3>3. Named(i, t, c, a)
      BY <1>2, <1>3, <3>1, <3>2 DEF Named
    <3> QED BY <1>5, <2>5, <3>3
  <2> QED BY <2>1, <2>3, <2>4, <2>5
<1>8. Whole(d) => Tracks(d, s, n)
  BY <1>7 DEF Tracks
<1>9. \A i \in 1 .. n : arr[i] = s[i]
  BY DEF s
<1> QED BY <1>1, <1>4, <1>6, <1>8, <1>9, SameFacts

\* The buffer of a process that has found nothing in syscfg.
LEMMA EmptyBuffer ==
    ASSUME NEW arr
    PROVE  Sound(arr, 0) /\ Neat(arr, 0)
<1> DEFINE c == [t \in Tables |-> -2]
           a == [t \in Tables |-> [j \in 1 .. MaxEntries |-> 0]]
<1>1. c \in Counts /\ a \in Aliases
  BY DEF Counts, Aliases
<1>2. \A t \in Tables : c[t] = -2 /\ 1 .. Atoi(c[t]) = {}
  BY DEF Atoi
<1> HIDE DEF c, a
<1>3. Describes(arr, 0, c, a)
  BY <1>2 DEF Describes
<1>4. OfPairs(arr, 0) /\ 0 \in Nat
  BY DEF OfPairs
<1> QED BY <1>1, <1>3, <1>4, DescribedSound, DescribedNeat

----------------------------------------------------------------------------
(* The buffer that holds what a failure would put back.                     *)

\* From the clearing to the end of a request it is the backup.
Held     == IF pc \in {"conf", "rollback"} THEN bkup ELSE cache
HeldSize == IF pc \in {"conf", "rollback"} THEN bsize ELSE size

\* What apply_pf_cache_ToDB finds in pf_cache.
ReadyInv ==
    pc = "apply" =>
        /\ size = Len(ConfSlots(Blobs[blob]))
        /\ \A i \in 1 .. size : cache[i] = ConfSlots(Blobs[blob])[i]

\* The size by which rollback_PortForwarding copies the backup back is that of
\* the backup, unless an apply has failed.
SizeInv == pc \in {"conf", "rollback"} /\ (clean \/ ~strayed) => size = bsize

BufferInv == TypedInv /\ ReadyInv /\ SizeInv

LEMMA InitBuffer == Init => BufferInv
BY InitTyped DEF Init, BufferInv, ReadyInv, SizeInv

LEMMA ReadyStep == TypedInv /\ ReadyInv /\ [Next]_vars => ReadyInv'
<1> SUFFICES ASSUME TypedInv, ReadyInv, [Next]_vars, pc' = "apply"
             PROVE  /\ size' = Len(ConfSlots(Blobs[blob']))
                    /\ \A i \in 1 .. size' : cache'[i] = ConfSlots(Blobs[blob'])[i]
  BY DEF ReadyInv
<1>1. CASE UNCHANGED vars
  BY <1>1 DEF ReadyInv, vars, system
<1>2. CASE Handlers
  <2>1. UNCHANGED <<buffers, pc, blob>>
    BY <1>2, HandlerParts DEF TypedInv, StoresOk
  <2> QED BY <2>1 DEF ReadyInv, buffers
<1>3. CASE Next /\ ~Handlers
  <2>1. Conf
    <3>1. ~Push /\ ~Ack /\ ~Rollback /\ ~Restart /\ ~PowerCut
      BY DEF Push, Ack, Rollback, Restart, PowerCut, InitCache
    <3>2. ~Apply
      BY DEF Apply, ApplyOk, ApplyFail
    <3>3. ~Clear
      BY DEF Clear
    <3> QED BY <1>3, <3>1, <3>2, <3>3 DEF Next, Handlers
  <2>2. ConfOk
    BY <2>1 DEF Conf, ConfBad
  <2>3. blob \in Versions /\ blob' = blob /\ cache \in Buffers
    BY <2>1 DEF Conf, TypedInv, RequestOk, BuffersOk
  <2> DEFINE s == ConfSlots(Blobs[blob])
  <2>4. s \in Seq(Pairs) /\ Len(s) \in Sizes
    BY <2>3, BlobOfVersion, ConfFits
  <2>5. cache' = Overwrite(cache, s) /\ size' = Len(s)
    BY <2>2 DEF ConfOk
  <2>6. \A i \in 1 .. Len(s) : Overwrite(cache, s)[i] = s[i]
    <3> HIDE DEF s
    <3> QED BY <2>3, <2>4, OverwrittenBuffer
  <2> QED BY <2>3, <2>5, <2>6
<1> QED BY <1>1, <1>2, <1>3

LEMMA SizeStep == TypedInv /\ SizeInv /\ [Next]_vars => SizeInv'
<1> SUFFICES ASSUME TypedInv, SizeInv, [Next]_vars, pc' \in {"conf", "rollback"}, clean' \/ ~strayed'
             PROVE  size' = bsize'
  BY DEF SizeInv
<1>1. CASE UNCHANGED vars
  BY <1>1 DEF SizeInv, vars, system
<1>2. CASE Clear
  BY <1>2 DEF Clear
<1>3. CASE Conf
  BY <1>3 DEF Conf, ConfOk, ConfBad, SizeInv
<1>4. CASE Apply
  BY <1>4 DEF Apply, ApplyOk, ApplyFail
<1>5. CASE Push \/ Ack \/ Rollback \/ Restart \/ PowerCut
  BY <1>5 DEF Push, Ack, Rollback, Restart, PowerCut, InitCache
<1>6. CASE Handlers
  <2>1. clean' = FALSE /\ strayed' = (strayed \/ pc # "idle") /\ pc' = pc
    BY <1>6, HandlerParts DEF TypedInv, StoresOk
  <2> QED BY <2>1
<1> QED BY <1>1, <1>2, <1>3, <1>4, <1>5, <1>6 DEF Next, Handlers

LEMMA BufferStep == BufferInv /\ [Next]_vars => BufferInv'
BY TypedStep, ReadyStep, SizeStep DEF BufferInv

\* What an apply does, by how it ends.
LEMMA ApplyParts ==
    ASSUME BufferInv, Apply
    PROVE  \/ /\ pc' = "ack" /\ applied' = blob /\ strayed' = strayed
              /\ gpf' = Enable(Blobs[blob])
              /\ \E d \in Store : /\ \A k \in RuleKeys : d[k] = db[k]
                                  /\ Atoi(db[Flag]) = gpf => Atoi(d[Flag]) = gpf'
                                  /\ db' = SetPairs(d, cache, size)
              /\ flash' = db'
           \/ pc' = "rollback" /\ clean' = FALSE /\ strayed' = TRUE
<1>1. Enable(Blobs[blob]) \in Nat /\ db \in Store
  BY BlobOfVersion DEF Apply, BufferInv, TypedInv, StoresOk, RequestOk
<1>2. PICK w \in ApplyEnds(cache, size, Enable(Blobs[blob])) :
          Write(w) /\ IF w.ok THEN ApplyOk ELSE ApplyFail
  BY DEF Apply
<1>3. w.ok \in BOOLEAN /\ (w.ok => w.d = SetPairs(Flagged(Enable(Blobs[blob])), cache, size))
  BY <1>1, ApplyEndsParts DEF BufferInv, TypedInv, StoresOk, BuffersOk
<1>4. /\ Flagged(Enable(Blobs[blob])) \in Store
      /\ \A k \in RuleKeys : Flagged(Enable(Blobs[blob]))[k] = db[k]
      /\ Atoi(db[Flag]) = gpf => Atoi(Flagged(Enable(Blobs[blob]))[Flag]) = Enable(Blobs[blob])
  BY <1>1, FlaggedStore
<1>5. CASE w.ok
  <2>1. /\ pc' = "ack" /\ applied' = blob /\ strayed' = strayed
        /\ gpf' = Enable(Blobs[blob])
    BY <1>2, <1>5 DEF ApplyOk
  <2>2. db' = SetPairs(Flagged(Enable(Blobs[blob])), cache, size) /\ flash' = db'
    BY <1>2, <1>3, <1>5 DEF Write
  <2> QED BY <1>4, <2>1, <2>2
<1>6. CASE ~w.ok
  BY <1>2, <1>6 DEF ApplyFail
<1> QED BY <1>3, <1>5, <1>6

LEMMA RollbackParts ==
    ASSUME BufferInv, Rollback
    PROVE  \/ /\ outcome' = "restored" /\ strayed' = strayed
              /\ \E d \in Store : /\ \A k \in RuleKeys : d[k] = db[k]
                                  /\ Atoi(db[Flag]) = gpf => Atoi(d[Flag]) = gpf
                                  /\ db' = SetPairs(d, bkup, bsize)
              /\ flash' = db'
           \/ outcome' = "failed" /\ strayed' = TRUE
<1>1. gpf \in Nat /\ db \in Store
  BY DEF BufferInv, TypedInv, StoresOk, RequestOk
<1>2. PICK w \in ApplyEnds(bkup, bsize, gpf) :
          /\ Write(w)
          /\ outcome' = IF w.ok THEN "restored" ELSE "failed"
          /\ strayed' = (strayed \/ ~w.ok)
  BY DEF Rollback
<1>3. w.ok \in BOOLEAN /\ (w.ok => w.d = SetPairs(Flagged(gpf), bkup, bsize))
  BY <1>1, ApplyEndsParts DEF BufferInv, TypedInv, StoresOk, BuffersOk
<1>4. /\ Flagged(gpf) \in Store /\ \A k \in RuleKeys : Flagged(gpf)[k] = db[k]
      /\ Atoi(db[Flag]) = gpf => Atoi(Flagged(gpf)[Flag]) = gpf
  BY <1>1, FlaggedStore
<1>5. CASE w.ok
  <2>1. outcome' = "restored"
    BY <1>2, <1>5
  <2>2. strayed' = strayed
    BY <1>2, <1>5 DEF BufferInv, TypedInv, HistoryOk
  <2>3. db' = SetPairs(Flagged(gpf), bkup, bsize) /\ flash' = db'
    BY <1>2, <1>3, <1>5 DEF Write
  <2> QED BY <1>4, <2>1, <2>2, <2>3
<1>6. CASE ~w.ok
  BY <1>2, <1>6
<1> QED BY <1>3, <1>5, <1>6

\* No step of a request changes what is held, but the check that accepts a blob
\* and an apply that fails.
LEMMA HeldStep ==
    ASSUME BufferInv,
           \/ Push \/ Clear \/ Ack \/ Handlers \/ UNCHANGED vars
           \/ Conf /\ ConfBad
           \/ Apply /\ pc' = "ack"
           \/ Rollback /\ (clean \/ ~strayed)
    PROVE  /\ HeldSize' = HeldSize /\ HeldSize \in Nat
           /\ \A i \in 1 .. HeldSize : Held'[i] = Held[i]
<1>1. /\ cache \in Buffers /\ bkup \in Buffers /\ size \in Sizes /\ bsize \in Sizes
      /\ size \in Nat /\ bsize \in Nat
  BY SlotsOfSize DEF BufferInv, TypedInv, BuffersOk
<1>2. CASE Push
  BY <1>1, <1>2 DEF Push, buffers, Held, HeldSize
<1>3. CASE Clear
  <2>1. \A i \in 1 .. size : Copied(cache, bkup, size)[i] = cache[i]
    BY <1>1, CopiedBuffer
  <2>2. /\ pc = "clear" /\ pc' \in {"conf", "rollback"}
        /\ bkup' = Copied(cache, bkup, size) /\ bsize' = size
    BY <1>3 DEF Clear
  <2> QED BY <1>1, <2>1, <2>2 DEF Held, HeldSize
<1>4. CASE Conf /\ ConfBad
  BY <1>1, <1>4 DEF Conf, ConfBad, Held, HeldSize
<1>5. CASE Apply /\ pc' = "ack"
  BY <1>1, <1>5 DEF Apply, buffers, Held, HeldSize
<1>6. CASE Ack
  BY <1>1, <1>6 DEF Ack, buffers, Held, HeldSize
<1>7. CASE Rollback /\ (clean \/ ~strayed)
  <2>1. size = bsize
    BY <1>7 DEF Rollback, BufferInv, SizeInv
  <2>2. \A i \in 1 .. bsize : Copied(bkup, cache, bsize)[i] = bkup[i]
    BY <1>1, CopiedBuffer
  <2>3. pc = "rollback" /\ pc' = "idle" /\ cache' = Copied(bkup, cache, size) /\ size' = bsize
    BY <1>7 DEF Rollback
  <2> QED BY <1>1, <2>1, <2>2, <2>3 DEF Held, HeldSize
<1>8. CASE UNCHANGED vars
  BY <1>1, <1>8 DEF vars, system, Held, HeldSize
<1>9. CASE Handlers
  <2>1. UNCHANGED <<buffers, pc>>
    BY <1>9, HandlerParts DEF BufferInv, TypedInv, StoresOk
  <2> QED BY <1>1, <2>1 DEF buffers, Held, HeldSize
<1> QED BY <1>2, <1>3, <1>4, <1>5, <1>6, <1>7, <1>8, <1>9

LEMMA HeldFacts ==
    ASSUME HeldSize' = HeldSize, HeldSize \in Nat, \A i \in 1 .. HeldSize : Held'[i] = Held[i]
    PROVE  /\ Sound(Held, HeldSize) => Sound(Held', HeldSize')
           /\ Neat(Held, HeldSize) => Neat(Held', HeldSize')
           /\ \A rules : Restores(Held, HeldSize, rules) => Restores(Held', HeldSize', rules)
           /\ \A d : Covers(d, Held, HeldSize) => Covers(d, Held', HeldSize')
           /\ \A d : Tracks(d, Held, HeldSize) => Tracks(d, Held', HeldSize')
BY SameFacts

\* pf_cache when the check has accepted the blob.
LEMMA ReadyFacts ==
    ASSUME BufferInv, pc = "apply"
    PROVE  /\ blob \in Versions
           /\ Restores(cache, size, RulesOf(Blobs[blob]))
           /\ Sound(cache, size) /\ Neat(cache, size)
           /\ \A d \in Store : Covers(d, cache, size)
<1>1. blob \in Versions
  BY DEF BufferInv, TypedInv, RequestOk
<1>2. size = Len(ConfSlots(Blobs[blob])) /\ \A i \in 1 .. size : cache[i] = ConfSlots(Blobs[blob])[i]
  BY DEF BufferInv, ReadyInv
<1>3. Blobs[blob] \in Blob
  BY <1>1, BlobOfVersion
<1> QED BY <1>1, <1>2, <1>3, BlobBuffer

\* The same of pf_cache after the check.
LEMMA ReadyNext ==
    ASSUME BufferInv', pc' = "apply"
    PROVE  /\ Sound(cache', size') /\ Neat(cache', size')
           /\ \A d \in Store : Covers(d, cache', size')
<1>1. blob' \in Versions
  BY DEF BufferInv, TypedInv, RequestOk
<1>2. size' = Len(ConfSlots(Blobs[blob']))
      /\ \A i \in 1 .. size' : cache'[i] = ConfSlots(Blobs[blob'])[i]
  BY DEF BufferInv, ReadyInv
<1>3. Blobs[blob'] \in Blob
  BY <1>1, BlobOfVersion
<1> QED BY <1>1, <1>2, <1>3, BlobBuffer

\* A start of the process holds what the store it starts from has.
LEMMA StartFacts ==
    ASSUME BufferInv, Restart \/ PowerCut
    PROVE  /\ pc' = "idle" /\ clean' = FALSE /\ flash' = flash /\ strayed' = strayed
           /\ gpf' = Atoi(db'[Flag]) /\ outside' = outside \cap {"litter"}
           /\ (db' = db /\ (pc = "idle" \/ "crash" \in faults)) \/ db' = flash
           /\ Sound(Held', HeldSize') /\ Neat(Held', HeldSize')
           /\ Covers(db', Held', HeldSize')
           /\ Whole(db') => Tracks(db', Held', HeldSize')
<1>1. PICK d \in {db, flash} :
          /\ InitCache(d) /\ db' = d /\ flash' = flash /\ strayed' = strayed
          /\ (d = db /\ (pc = "idle" \/ "crash" \in faults)) \/ d = flash
  BY DEF Restart, PowerCut
<1>2. d \in Store
  BY DEF BufferInv, TypedInv, StoresOk
<1>3. /\ pc' = "idle" /\ clean' = FALSE /\ gpf' = Atoi(d[Flag])
      /\ outside' = outside \cap {"litter"}
      /\ size' = Len(InitSlots(d)) /\ \A i \in 1 .. size' : cache'[i] = InitSlots(d)[i]
  BY <1>1, <1>2, InitCacheTyped
<1>4. Held' = cache' /\ HeldSize' = size'
  BY <1>3 DEF Held, HeldSize
<1>5. /\ Sound(cache', size') /\ Neat(cache', size') /\ Covers(d, cache', size')
      /\ Whole(d) => Tracks(d, cache', size')
  BY <1>2, <1>3, StoreBuffer
<1> QED BY <1>1, <1>3, <1>4, <1>5

----------------------------------------------------------------------------
(* A refused blob leaves the rules of the last one.                         *)

RestInv ==
    clean /\ pc # "apply" =>
        applied \in Versions /\ Restores(Held, HeldSize, RulesApplied)
RulesInv ==
    clean /\ (pc = "ack" \/ (pc = "idle" /\ outcome # "failed")) => RulesIn(db) = RulesApplied

LEMMA RulesOfVersion ==
    ASSUME NEW v \in Versions, applied' = v
    PROVE  RulesApplied' = RulesOf(Blobs[v])
BY BlobsAssumption DEF RulesApplied

LEMMA RestStep == BufferInv /\ RestInv /\ [Next]_vars => RestInv'
<1> SUFFICES ASSUME BufferInv, RestInv, [Next]_vars, clean', pc' # "apply"
             PROVE  applied' \in Versions /\ Restores(Held', HeldSize', RulesApplied')
  BY DEF RestInv
<1>1. ASSUME HeldSize' = HeldSize, HeldSize \in Nat, \A i \in 1 .. HeldSize : Held'[i] = Held[i],
             clean, pc # "apply", applied' = applied
      PROVE  applied' \in Versions /\ Restores(Held', HeldSize', RulesApplied')
  <2>1. applied \in Versions /\ Restores(Held, HeldSize, RulesApplied)
    BY <1>1 DEF RestInv
  <2>2. RulesApplied' = RulesApplied
    BY <1>1 DEF RulesApplied
  <2> QED BY <1>1, <2>1, <2>2, HeldFacts
<1>2. CASE UNCHANGED vars
  <2>1. clean /\ pc # "apply" /\ applied' = applied
    BY <1>2 DEF vars, system
  <2> QED BY <1>1, <1>2, <2>1, HeldStep
<1>3. CASE Push \/ Clear \/ Ack
  <2>1. clean /\ pc # "apply" /\ applied' = applied
    BY <1>3 DEF Push, Clear, Ack
  <2> QED BY <1>1, <1>3, <2>1, HeldStep
<1>4. CASE Conf
  <2>1. ConfBad /\ clean /\ pc # "apply" /\ applied' = applied
    BY <1>4 DEF Conf, ConfOk
  <2> QED BY <1>1, <1>4, <2>1, HeldStep
<1>5. CASE Apply
  <2>1. pc' = "ack" /\ applied' = blob
    BY <1>5, ApplyParts
  <2>2. pc = "apply"
    BY <1>5 DEF Apply
  <2>3. Held' = cache /\ HeldSize' = size
    BY <1>5, <2>1 DEF Apply, buffers, Held, HeldSize
  <2>4. blob \in Versions /\ Restores(cache, size, RulesOf(Blobs[blob]))
    BY <2>2, ReadyFacts
  <2>5. RulesApplied' = RulesOf(Blobs[blob])
    BY <2>1, <2>4, RulesOfVersion
  <2> QED BY <2>1, <2>3, <2>4, <2>5
<1>6. CASE Rollback
  <2>1. clean /\ pc # "apply" /\ applied' = applied
    BY <1>6 DEF Rollback
  <2> QED BY <1>1, <1>6, <2>1, HeldStep
<1>7. CASE Restart \/ PowerCut
  BY <1>7, StartFacts
<1>8. CASE Handlers
  BY <1>8, HandlerParts DEF BufferInv, TypedInv, StoresOk
<1> QED BY <1>2, <1>3, <1>4, <1>5, <1>6, <1>7, <1>8 DEF Next, Handlers

LEMMA RulesStep == BufferInv /\ RestInv /\ RulesInv /\ [Next]_vars => RulesInv'
<1> SUFFICES ASSUME BufferInv, RestInv, RulesInv, [Next]_vars, clean',
                    pc' = "ack" \/ (pc' = "idle" /\ outcome' # "failed")
             PROVE  RulesIn(db') = RulesApplied'
  BY DEF RulesInv
<1>1. CASE UNCHANGED vars
  BY <1>1 DEF RulesInv, RulesApplied, vars, system
<1>2. CASE Push \/ Clear \/ Conf
  BY <1>2 DEF Push, Clear, Conf, ConfOk, ConfBad
<1>3. CASE Apply
  <2>1. PICK d \in Store : pc' = "ack" /\ applied' = blob /\ db' = SetPairs(d, cache, size)
    BY <1>3, ApplyParts
  <2>2. blob \in Versions /\ Restores(cache, size, RulesOf(Blobs[blob]))
    BY <1>3, ReadyFacts DEF Apply
  <2>3. RulesApplied' = RulesOf(Blobs[blob])
    BY <2>1, <2>2, RulesOfVersion
  <2> QED BY <2>1, <2>2, <2>3 DEF Restores
<1>4. CASE Ack
  <2>1. PICK d \in Store, ok \in BOOLEAN :
            Write([d |-> d, ok |-> ok]) /\ \A k \in RuleKeys : d[k] = db[k]
    BY <1>4, AckStore DEF BufferInv
  <2>2. db' = d
    BY <2>1 DEF Write
  <2>3. RulesIn(d) = RulesIn(db)
    BY <2>1, SameRules DEF BufferInv, TypedInv, StoresOk
  <2>4. RulesIn(db) = RulesApplied
    BY <1>4 DEF Ack, RulesInv
  <2>5. RulesApplied' = RulesApplied
    BY <1>4 DEF Ack, RulesApplied
  <2> QED BY <2>2, <2>3, <2>4, <2>5
<1>5. CASE Rollback
  <2>1. clean /\ pc = "rollback" /\ pc' = "idle" /\ applied' = applied
    BY <1>5 DEF Rollback
  <2>2. PICK d \in Store : db' = SetPairs(d, bkup, bsize)
    BY <1>5, <2>1, RollbackParts
  <2>3. Held = bkup /\ HeldSize = bsize
    BY <2>1 DEF Held, HeldSize
  <2>4. Restores(bkup, bsize, RulesApplied)
    BY <2>1, <2>3 DEF RestInv
  <2>5. RulesApplied' = RulesApplied
    BY <2>1 DEF RulesApplied
  <2> QED BY <2>2, <2>4, <2>5 DEF Restores
<1>6. CASE Restart \/ PowerCut
  BY <1>6, StartFacts
<1>7. CASE Handlers
  BY <1>7, HandlerParts DEF BufferInv, TypedInv, StoresOk
<1> QED BY <1>1, <1>2, <1>3, <1>4, <1>5, <1>6, <1>7 DEF Next, Handlers

\* While the last writer of the rules was a blob of this process, handled while
\* no TR-181 handler wrote, a later blob that is refused, or whose old rules
\* could not be cleared, leaves exactly the rules of that blob, unless the
\* rollback itself reports a failure.  What is proved on the way is stronger: the pairs held back by backup_pf_cache leave
\* those rules in whatever store rollback_PortForwarding finds.
THEOREM PfRefusalKeepsRules == Spec => []RefusalKeepsRules
<1>1. Init => BufferInv /\ RestInv /\ RulesInv
  BY InitBuffer DEF Init, RestInv, RulesInv
<1>2. BufferInv /\ RestInv /\ RulesInv /\ [Next]_vars => (BufferInv /\ RestInv /\ RulesInv)'
  BY BufferStep, RestStep, RulesStep
<1>3. RulesInv => RefusalKeepsRules
  BY DEF RulesInv, RefusalKeepsRules
<1> QED BY <1>1, <1>2, <1>3, PTL DEF Spec

----------------------------------------------------------------------------
(* The committed state names no rule that is not there.                     *)

\* Nobody commits what a process left when it died in the middle of a blob.
NoOrphans == ~({"crash", "clients"} \subseteq faults)
AtRest    == pc = "ack" \/ (pc = "idle" /\ "crash" \notin faults)

SoundInv ==
    ~strayed /\ NoOrphans =>
        /\ Sound(Held, HeldSize) /\ Covers(db, Held, HeldSize)
        /\ Complete(flash)
        /\ AtRest => Complete(db)

LEMMA InitSound == Init => SoundInv
<1> SUFFICES ASSUME Init PROVE SoundInv
  OBVIOUS
<1>1. Sound(Held, HeldSize)
  BY EmptyBuffer DEF Init, Held, HeldSize
<1>2. \A t \in Tables : db[Count(t)] = -2 /\ flash[Count(t)] = -2
  BY KeyTypes DEF Init
<1>3. Complete(db) /\ Complete(flash)
  BY <1>2, CompleteCovers DEF Complete
<1> QED BY <1>1, <1>3, CompleteCovers DEF Init, SoundInv

LEMMA SoundStep == BufferInv /\ SoundInv /\ [Next]_vars => SoundInv'
<1> SUFFICES ASSUME BufferInv, SoundInv, [Next]_vars, ~strayed', NoOrphans'
             PROVE  /\ Sound(Held', HeldSize') /\ Covers(db', Held', HeldSize')
                    /\ Complete(flash')
                    /\ AtRest' => Complete(db')
  BY DEF SoundInv
<1>0. faults' = faults /\ NoOrphans
  <2>1. faults' = faults
    BY DEF Next, vars
  <2> QED BY <2>1 DEF NoOrphans
<1>1. db \in Store /\ flash \in Store /\ HeldSize \in Nat
  BY SlotsOfSize DEF BufferInv, TypedInv, StoresOk, BuffersOk, HeldSize
<1>2. ~strayed =>
        /\ Sound(Held, HeldSize) /\ Covers(db, Held, HeldSize)
        /\ Complete(flash)
        /\ AtRest => Complete(db)
  BY <1>0 DEF SoundInv
<1>3. ASSUME HeldSize' = HeldSize, HeldSize \in Nat, \A i \in 1 .. HeldSize : Held'[i] = Held[i],
             ~strayed, Covers(db', Held, HeldSize)
      PROVE  Sound(Held', HeldSize') /\ Covers(db', Held', HeldSize')
  BY <1>2, <1>3, HeldFacts
<1>4. CASE UNCHANGED vars
  <2>1. ~strayed /\ db' = db /\ flash' = flash /\ pc' = pc
    BY <1>4 DEF vars, system
  <2>2. AtRest' = AtRest
    BY <1>0, <2>1 DEF AtRest
  <2> QED BY <1>2, <1>3, <1>4, <2>1, <2>2, HeldStep
<1>5. CASE Push
  <2>1. ~strayed /\ db' = db /\ flash' = flash /\ ~AtRest'
    BY <1>5 DEF Push, AtRest
  <2> QED BY <1>2, <1>3, <1>5, <2>1, HeldStep
<1>6. CASE Clear
  <2>1. PICK k \in 0 .. size, ok \in BOOLEAN :
            /\ Write([d |-> UnsetPairs(db, cache, k), ok |-> ok])
            /\ ok => k = size
            /\ pc' = IF ok THEN "conf" ELSE "rollback"
    BY <1>6, ClearParts DEF BufferInv
  <2>2. ~strayed /\ Held = cache /\ HeldSize = size
    BY <1>6 DEF Clear, Held, HeldSize
  <2>3. db' = UnsetPairs(db, cache, k) /\ flash' = (IF ok THEN db' ELSE flash) /\ ~AtRest'
    BY <2>1 DEF Write, AtRest
  <2>4. Covers(UnsetPairs(db, cache, k), cache, size) /\ Complete(UnsetPairs(db, cache, size))
    <3>1. Closed(cache, size) /\ Covers(db, cache, size) /\ size \in Nat
      BY <1>1, <1>2, <2>2 DEF Sound
    <3> QED BY <1>1, <3>1, UnsetPairsCovered
  <2>5. Complete(flash')
    BY <1>2, <2>1, <2>2, <2>3, <2>4
  <2> QED BY <1>3, <1>6, <2>2, <2>3, <2>4, <2>5, HeldStep
<1>7. CASE Conf
  <2>1. ~strayed /\ db' = db /\ flash' = flash /\ ~AtRest'
    BY <1>7 DEF Conf, ConfOk, ConfBad, AtRest
  <2>2. CASE ConfBad
    BY <1>2, <1>3, <1>7, <2>1, <2>2, HeldStep
  <2>3. CASE ConfOk
    <3>1. pc' = "apply"
      BY <2>3 DEF ConfOk
    <3>2. Held' = cache' /\ HeldSize' = size'
      BY <3>1 DEF Held, HeldSize
    <3>3. BufferInv'
      BY BufferStep
    <3>4. Sound(cache', size') /\ \A d \in Store : Covers(d, cache', size')
      BY <3>1, <3>3, ReadyNext
    <3> QED BY <1>1, <1>2, <2>1, <3>2, <3>4
  <2> QED BY <1>7, <2>2, <2>3 DEF Conf
<1>8. CASE Apply
  <2>1. PICK d \in Store :
            /\ pc' = "ack" /\ strayed' = strayed /\ flash' = db'
            /\ db' = SetPairs(d, cache, size)
    BY <1>8, ApplyParts
  <2>2. pc = "apply" /\ Held = cache /\ HeldSize = size
    BY <1>8 DEF Apply, Held, HeldSize
  <2>3. Sound(cache, size) /\ Covers(d, cache, size)
    BY <2>2, ReadyFacts
  <2>4. Complete(db')
    BY <2>1, <2>3 DEF Sound
  <2>5. Covers(db', cache, size)
    BY <2>4, CompleteCovers
  <2> QED BY <1>3, <1>8, <2>1, <2>2, <2>4, <2>5, HeldStep
<1>9. CASE Ack
  <2>1. PICK d \in Store, ok \in BOOLEAN :
            Write([d |-> d, ok |-> ok]) /\ \A k \in RuleKeys : d[k] = db[k]
    BY <1>9, AckStore DEF BufferInv
  <2>2. db' = d /\ flash' = IF ok THEN d ELSE flash
    BY <2>1 DEF Write
  <2>3. ~strayed /\ pc = "ack" /\ pc' = "idle"
    BY <1>9 DEF Ack
  <2>4. Complete(d) /\ Covers(d, Held, HeldSize)
    BY <1>1, <1>2, <2>1, <2>3, SameRules DEF AtRest
  <2>5. Complete(flash')
    BY <1>2, <2>2, <2>3, <2>4
  <2> QED BY <1>3, <1>9, <2>2, <2>3, <2>4, <2>5, HeldStep
<1>10. CASE Rollback
  <2>1. PICK d \in Store :
            /\ strayed' = strayed /\ flash' = db'
            /\ \A k \in RuleKeys : d[k] = db[k]
            /\ db' = SetPairs(d, bkup, bsize)
    BY <1>10, RollbackParts
  <2>2. pc' = "idle" /\ Held = bkup /\ HeldSize = bsize
    BY <1>10 DEF Rollback, Held, HeldSize
  <2>3. Sound(bkup, bsize) /\ Covers(d, bkup, bsize)
    BY <1>1, <1>2, <2>1, <2>2, SameRules
  <2>4. Complete(db')
    BY <2>1, <2>3 DEF Sound
  <2>5. Covers(db', bkup, bsize)
    BY <2>4, CompleteCovers
  <2> QED BY <1>3, <1>10, <2>1, <2>2, <2>4, <2>5, HeldStep
<1>11. CASE Restart \/ PowerCut
  <2>1. strayed' = strayed /\ flash' = flash
    BY <1>11, StartFacts
  <2>2. Complete(flash) /\ (AtRest => Complete(db))
    BY <1>2, <2>1
  <2>3. AtRest' => Complete(db')
    <3>1. (db' = db /\ (pc = "idle" \/ "crash" \in faults)) \/ db' = flash
      BY <1>11, StartFacts
    <3>2. pc' = "idle"
      BY <1>11, StartFacts
    <3> QED BY <1>0, <2>2, <3>1, <3>2 DEF AtRest
  <2> QED BY <1>11, <2>1, <2>2, <2>3, StartFacts
<1>12. CASE Handlers
  <2>1. /\ "clients" \in faults /\ Keeps(db, db') /\ flash' = db'
        /\ strayed' = (strayed \/ pc # "idle")
    BY <1>1, <1>12, HandlerParts
  <2>2. ~strayed /\ pc = "idle"
    BY <2>1
  <2>3. AtRest
    BY <1>0, <2>1, <2>2 DEF NoOrphans, AtRest
  <2>4. Complete(db')
    BY <1>2, <2>1, <2>2, <2>3 DEF Keeps
  <2>5. Covers(db', Held, HeldSize)
    BY <2>4, CompleteCovers
  <2> QED BY <1>3, <1>12, <2>1, <2>2, <2>4, <2>5, HeldStep
<1> QED BY <1>4, <1>5, <1>6, <1>7, <1>8, <1>9, <1>10, <1>11, <1>12 DEF Next, Handlers

\* As long as no apply and no rollback has failed halfway, a power cut never
\* finds a committed state whose counts name a rule that is not there, although
\* clear_pf_cache_DB, apply_pf_cache_ToDB and rollback_PortForwarding write the
\* keys of a rule one by one, and although TR-181 handlers change the rules
\* behind the back of pf_cache.  Excluded are handlers that write during a
\* request or after the process died in one: they commit what they find.
THEOREM PfFlashComplete == Spec => []FlashComplete
<1>1. Init => BufferInv /\ SoundInv
  BY InitBuffer, InitSound
<1>2. BufferInv /\ SoundInv /\ [Next]_vars => (BufferInv /\ SoundInv)'
  BY BufferStep, SoundStep
<1>3. SoundInv => FlashComplete
  BY DEF SoundInv, NoOrphans, FlashComplete, Complete, CompleteAt
<1> QED BY <1>1, <1>2, <1>3, PTL DEF Spec

----------------------------------------------------------------------------
(* pf_cache lists every rule in syscfg.                                     *)

NeatInv ==
    ~strayed /\ "crash" \notin faults /\ "litter" \notin outside =>
        /\ Neat(Held, HeldSize)
        /\ "rules" \notin outside => Tracks(db, Held, HeldSize)
        /\ pc # "idle" => "rules" \notin outside
        /\ Whole(flash)
        /\ pc \in {"idle", "ack"} => Whole(db)
        /\ pc \in {"conf", "apply"} => \A k \in RuleKeys : db[k] = Unset

LEMMA InitNeat == Init => NeatInv
<1> SUFFICES ASSUME Init PROVE NeatInv
  OBVIOUS
<1>1. Neat(Held, HeldSize)
  BY EmptyBuffer DEF Init, Held, HeldSize
<1>2. \A k \in RuleKeys : db[k] = -2 /\ flash[k] = -2
  BY KeyTypes DEF Init
<1>3. Tracks(db, Held, HeldSize)
  BY <1>2 DEF Tracks
<1>4. Whole(db) /\ Whole(flash)
  BY <1>2, KeyTypes DEF Whole
<1> QED BY <1>1, <1>3, <1>4 DEF Init, NeatInv

LEMMA NeatStep == BufferInv /\ SoundInv /\ NeatInv /\ [Next]_vars => NeatInv'
<1> SUFFICES ASSUME BufferInv, SoundInv, NeatInv, [Next]_vars, ~strayed', "crash" \notin faults',
                    "litter" \notin outside'
             PROVE  /\ Neat(Held', HeldSize')
                    /\ "rules" \notin outside' => Tracks(db', Held', HeldSize')
                    /\ pc' # "idle" => "rules" \notin outside'
                    /\ Whole(flash')
                    /\ pc' \in {"idle", "ack"} => Whole(db')
                    /\ pc' \in {"conf", "apply"} => \A k \in RuleKeys : db'[k] = -2
  BY DEF NeatInv
<1>0. "crash" \notin faults
  BY DEF Next, vars
<1>1. db \in Store /\ flash \in Store /\ HeldSize \in Nat
  BY SlotsOfSize DEF BufferInv, TypedInv, StoresOk, BuffersOk, HeldSize
<1>2. ~strayed /\ "litter" \notin outside =>
        /\ Neat(Held, HeldSize)
        /\ "rules" \notin outside => Tracks(db, Held, HeldSize)
        /\ pc # "idle" => "rules" \notin outside
        /\ Whole(flash)
        /\ pc \in {"idle", "ack"} => Whole(db)
        /\ pc \in {"conf", "apply"} => \A k \in RuleKeys : db[k] = -2
  BY <1>0 DEF NeatInv
<1>3. ASSUME HeldSize' = HeldSize, HeldSize \in Nat, \A i \in 1 .. HeldSize : Held'[i] = Held[i],
             ~strayed, "litter" \notin outside
      PROVE  /\ Neat(Held', HeldSize')
             /\ Tracks(db', Held, HeldSize) => Tracks(db', Held', HeldSize')
  BY <1>2, <1>3, HeldFacts
<1>4. CASE UNCHANGED vars
  <2>1. ~strayed /\ db' = db /\ flash' = flash /\ pc' = pc /\ outside' = outside
    BY <1>4 DEF vars, system
  <2> QED BY <1>2, <1>3, <1>4, <2>1, HeldStep
<1>5. CASE Push
  <2>1. ~strayed /\ db' = db /\ flash' = flash /\ pc' = "clear"
    BY <1>5 DEF Push
  <2>2. outside' = (outside \ {"mixed"}) \cup (IF "rules" \in outside THEN {"litter"} ELSE {})
    BY <1>5 DEF Push
  <2>3. "litter" \notin outside /\ "rules" \notin outside /\ "rules" \notin outside'
    BY <2>2
  <2> QED BY <1>2, <1>3, <1>5, <2>1, <2>3, HeldStep
<1>6. CASE Clear
  <2>1. PICK k \in 0 .. size, ok \in BOOLEAN :
            /\ Write([d |-> UnsetPairs(db, cache, k), ok |-> ok])
            /\ ok => k = size
            /\ pc' = IF ok THEN "conf" ELSE "rollback"
    BY <1>6, ClearParts DEF BufferInv
  <2>2. ~strayed /\ Held = cache /\ HeldSize = size /\ outside' = outside /\ pc = "clear"
    BY <1>6 DEF Clear, Held, HeldSize
  <2>3. db' = UnsetPairs(db, cache, k) /\ flash' = (IF ok THEN db' ELSE flash)
    BY <2>1 DEF Write
  <2>4. /\ Tracks(UnsetPairs(db, cache, k), cache, size)
        /\ Whole(UnsetPairs(db, cache, size))
        /\ \A x \in RuleKeys : UnsetPairs(db, cache, size)[x] = -2
    BY <1>1, <1>2, <2>2, UnsetPairsCovered
  <2>5. Whole(flash')
    BY <1>2, <2>1, <2>2, <2>3, <2>4
  <2>6. pc' \in {"conf", "rollback"} /\ (pc' = "conf" => db' = UnsetPairs(db, cache, size))
    BY <2>1, <2>3
  <2>7. "litter" \notin outside /\ "rules" \notin outside'
    BY <1>2, <2>2
  <2>8. Neat(Held', HeldSize') /\ Tracks(db', Held', HeldSize')
    <3>1. Tracks(db', Held, HeldSize)
      BY <2>2, <2>3, <2>4
    <3> QED BY <1>3, <1>6, <2>2, <2>7, <3>1, HeldStep
  <2>9. pc' = "conf" => \A x \in RuleKeys : db'[x] = -2
    BY <2>4, <2>6
  <2> QED BY <2>5, <2>6, <2>7, <2>8, <2>9
<1>7. CASE Conf
  <2>1. /\ ~strayed /\ db' = db /\ flash' = flash /\ pc = "conf" /\ pc' \in {"apply", "rollback"}
        /\ outside' = outside
    BY <1>7 DEF Conf, ConfOk, ConfBad
  <2>2. CASE ConfBad
    BY <1>2, <1>3, <1>7, <2>1, <2>2, HeldStep
  <2>3. CASE ConfOk
    <3>1. pc' = "apply"
      BY <2>3 DEF ConfOk
    <3>2. Held' = cache' /\ HeldSize' = size'
      BY <3>1 DEF Held, HeldSize
    <3>3. BufferInv'
      BY BufferStep
    <3>4. Neat(cache', size')
      BY <3>1, <3>3, ReadyNext
    <3>5. \A k \in RuleKeys : db'[k] = -2
      BY <1>2, <2>1
    <3>6. Tracks(db', cache', size')
      BY <3>5 DEF Tracks
    <3> QED BY <1>2, <2>1, <3>1, <3>2, <3>4, <3>5, <3>6
  <2> QED BY <1>7, <2>2, <2>3 DEF Conf
<1>8. CASE Apply
  <2>1. PICK d \in Store :
            /\ pc' = "ack" /\ strayed' = strayed /\ flash' = db'
            /\ \A k \in RuleKeys : d[k] = db[k]
            /\ db' = SetPairs(d, cache, size)
    BY <1>8, ApplyParts
  <2>2. pc = "apply" /\ Held = cache /\ HeldSize = size /\ outside' = outside
    BY <1>8 DEF Apply, Held, HeldSize
  <2>3. Neat(cache, size) /\ Tracks(d, cache, size)
    BY <1>1, <1>2, <2>1, <2>2, SameRules
  <2>4. Whole(db')
    BY <2>1, <2>3 DEF Neat
  <2>5. Tracks(db', cache, size)
    BY <1>1, <2>1, <2>2, <2>3, SetPairsCovered
  <2>6. ~strayed
    BY <2>1
  <2>7. "litter" \notin outside /\ "rules" \notin outside'
    BY <1>2, <2>2, <2>6
  <2>8. Neat(Held', HeldSize') /\ Tracks(db', Held', HeldSize')
    <3>1. Tracks(db', Held, HeldSize)
      BY <2>2, <2>5
    <3> QED BY <1>3, <1>8, <2>1, <2>6, <2>7, <3>1, HeldStep
  <2>9. pc' = "ack" /\ Whole(flash')
    BY <2>1, <2>4
  <2> QED BY <2>4, <2>7, <2>8, <2>9
<1>9. CASE Ack
  <2>1. PICK d \in Store, ok \in BOOLEAN :
            Write([d |-> d, ok |-> ok]) /\ \A k \in RuleKeys : d[k] = db[k]
    BY <1>9, AckStore DEF BufferInv
  <2>2. db' = d /\ flash' = IF ok THEN d ELSE flash
    BY <2>1 DEF Write
  <2>3. ~strayed /\ pc = "ack" /\ pc' = "idle" /\ outside' = outside
    BY <1>9 DEF Ack
  <2>4. Whole(d) /\ Tracks(d, Held, HeldSize)
    BY <1>1, <1>2, <2>1, <2>3, SameRules
  <2>5. Whole(flash')
    BY <1>2, <2>2, <2>3, <2>4
  <2> QED BY <1>3, <1>9, <2>2, <2>3, <2>4, <2>5, HeldStep
<1>10. CASE Rollback
  <2>1. PICK d \in Store :
            /\ strayed' = strayed /\ flash' = db'
            /\ \A k \in RuleKeys : d[k] = db[k]
            /\ db' = SetPairs(d, bkup, bsize)
    BY <1>10, RollbackParts
  <2>2. /\ pc = "rollback" /\ pc' = "idle" /\ Held = bkup /\ HeldSize = bsize
        /\ outside' = outside
    BY <1>10 DEF Rollback, Held, HeldSize
  <2>3. Neat(bkup, bsize) /\ Tracks(d, bkup, bsize)
    BY <1>1, <1>2, <2>1, <2>2, SameRules
  <2>4. Whole(db')
    BY <2>1, <2>3 DEF Neat
  <2>5. Tracks(db', bkup, bsize)
    BY <1>1, <2>1, <2>2, <2>3, SetPairsCovered
  <2> QED BY <1>3, <1>10, <2>1, <2>2, <2>4, <2>5, HeldStep
<1>11. CASE Restart \/ PowerCut
  <2>1. ~strayed /\ flash' = flash /\ pc' = "idle" /\ "litter" \notin outside
    <3>1. strayed' = strayed /\ flash' = flash /\ pc' = "idle"
          /\ outside' = outside \cap {"litter"}
      BY <1>11, StartFacts
    <3> QED BY <3>1
  <2>2. Whole(db')
    BY <1>0, <1>2, <1>11, <2>1, StartFacts
  <2> QED BY <1>2, <1>11, <2>1, <2>2, StartFacts
<1>12. CASE Handlers
  <2>1. /\ Keeps(db, db') /\ flash' = db' /\ outside \subseteq outside' /\ pc' = pc
        /\ strayed' = (strayed \/ pc # "idle")
        /\ "rules" \notin outside' => (Complete(db) => \A k \in RuleKeys : db'[k] # -2 => db[k] # -2)
    BY <1>1, <1>12, HandlerParts
  <2>2. ~strayed /\ pc = "idle" /\ "litter" \notin outside
    BY <2>1
  <2>3. Complete(db)
    BY <1>0, <2>2 DEF SoundInv, NoOrphans, AtRest
  <2>4. Whole(db')
    BY <1>2, <2>1, <2>2 DEF Keeps
  <2>5. ASSUME "rules" \notin outside' PROVE Tracks(db', Held, HeldSize)
    <3>1. "rules" \notin outside /\ \A k \in RuleKeys : db'[k] # -2 => db[k] # -2
      BY <2>1, <2>3, <2>5
    <3>2. Tracks(db, Held, HeldSize)
      BY <1>2, <2>2, <3>1
    <3> QED BY <3>1, <3>2 DEF Tracks
  <2> QED BY <1>3, <1>12, <2>1, <2>2, <2>4, <2>5, HeldStep
<1> QED BY <1>4, <1>5, <1>6, <1>7, <1>8, <1>9, <1>10, <1>11, <1>12 DEF Next, Handlers

\* As long as no apply and no rollback has failed halfway, the process has not
\* died in the middle of a blob, and no TR-181 handler has changed the rules
\* since pf_cache was loaded, pf_cache lists every rule key in syscfg, so that
\* clear_pf_cache_DB removes all the old rules.  A start of the process finds
\* them, also those of the handlers, because every alias and every attribute in
\* syscfg is one that the counts lead init_pf_cache to; a blob that was handled
\* while pf_cache did not know of rules ends that ("litter").  A handler that
\* only writes the switch adds no key, since every row has its attributes.
THEOREM PfStoreTracked == Spec => []StoreTracked
<1>1. Init => BufferInv /\ SoundInv /\ NeatInv
  BY InitBuffer, InitSound, InitNeat
<1>2. BufferInv /\ SoundInv /\ NeatInv /\ [Next]_vars => (BufferInv /\ SoundInv /\ NeatInv)'
  BY BufferStep, SoundStep, NeatStep
<1>3. NeatInv => StoreTracked
  BY DEF NeatInv, StoreTracked, Tracks, Listed, Held, HeldSize
<1> QED BY <1>1, <1>2, <1>3, PTL DEF Spec

----------------------------------------------------------------------------
(* The enable flag and its copy.                                            *)

FlagInv == ~strayed /\ "switch" \notin outside => Atoi(db[Flag]) = gpf
CopyInv == clean => gpf = Enable(Blobs[applied])

LEMMA FlagStep == BufferInv /\ FlagInv /\ [Next]_vars => FlagInv'
<1> SUFFICES ASSUME BufferInv, FlagInv, [Next]_vars, ~strayed', "switch" \notin outside'
             PROVE  Atoi(db'[Flag]) = gpf'
  BY DEF FlagInv
<1>1. cache \in Buffers /\ bkup \in Buffers /\ size \in Sizes /\ bsize \in Sizes
  BY DEF BufferInv, TypedInv, BuffersOk
<1>2. CASE UNCHANGED vars
  BY <1>2 DEF FlagInv, vars, system
<1>3. CASE Push \/ Conf
  BY <1>3 DEF Push, Conf, ConfOk, ConfBad, FlagInv
<1>4. CASE Clear
  <2>1. PICK k \in 0 .. size, ok \in BOOLEAN : Write([d |-> UnsetPairs(db, cache, k), ok |-> ok])
    BY <1>4, ClearParts DEF BufferInv
  <2>2. db' = UnsetPairs(db, cache, k)
    BY <2>1 DEF Write
  <2>3. OfPairs(cache, k) /\ k \in Nat
    BY <1>1, BufferPairs
  <2>4. UnsetPairs(db, cache, k)[Flag] = db[Flag]
    BY <2>3, FlagKept
  <2> QED BY <1>4, <2>2, <2>4 DEF Clear, FlagInv
<1>5. CASE Apply
  <2>1. PICK d \in Store : /\ strayed' = strayed
                           /\ Atoi(db[Flag]) = gpf => Atoi(d[Flag]) = gpf'
                           /\ db' = SetPairs(d, cache, size)
    BY <1>5, ApplyParts
  <2>2. OfPairs(cache, size) /\ size \in Nat
    <3>1. size \in 0 .. size
      BY <1>1, SlotsOfSize
    <3> QED BY <1>1, <3>1, BufferPairs
  <2>3. db'[Flag] = d[Flag]
    BY <2>1, <2>2, FlagKept
  <2>4. outside' = outside
    BY <1>5 DEF Apply
  <2> QED BY <2>1, <2>3, <2>4 DEF FlagInv
<1>6. CASE Ack
  <2>1. PICK d \in Store, ok \in BOOLEAN : Write([d |-> d, ok |-> ok]) /\ d[Flag] = db[Flag]
    BY <1>6, AckStore DEF BufferInv
  <2>2. db' = d
    BY <2>1 DEF Write
  <2> QED BY <1>6, <2>1, <2>2 DEF Ack, FlagInv
<1>7. CASE Rollback
  <2>1. PICK d \in Store : /\ strayed' = strayed
                           /\ Atoi(db[Flag]) = gpf => Atoi(d[Flag]) = gpf
                           /\ db' = SetPairs(d, bkup, bsize)
    BY <1>7, RollbackParts
  <2>2. OfPairs(bkup, bsize) /\ bsize \in Nat
    <3>1. bsize \in 0 .. bsize
      BY <1>1, SlotsOfSize
    <3> QED BY <1>1, <3>1, BufferPairs
  <2>3. db'[Flag] = d[Flag] /\ gpf' = gpf /\ outside' = outside
    BY <1>7, <2>1, <2>2, FlagKept DEF Rollback
  <2> QED BY <2>1, <2>3 DEF FlagInv
<1>8. CASE Restart \/ PowerCut
  BY <1>8, StartFacts
<1>9. CASE Handlers
  <2>1. /\ db'[Flag] = db[Flag] /\ gpf' = gpf /\ outside \subseteq outside'
        /\ strayed' = (strayed \/ pc # "idle")
    BY <1>9, HandlerParts DEF BufferInv, TypedInv, StoresOk
  <2>2. ~strayed /\ "switch" \notin outside
    BY <2>1
  <2> QED BY <2>1, <2>2 DEF FlagInv
<1> QED BY <1>2, <1>3, <1>4, <1>5, <1>6, <1>7, <1>8, <1>9 DEF Next, Handlers

LEMMA CopyStep == BufferInv /\ CopyInv /\ [Next]_vars => CopyInv'
<1> SUFFICES ASSUME BufferInv, CopyInv, [Next]_vars, clean'
             PROVE  gpf' = Enable(Blobs[applied'])
  BY DEF CopyInv
<1>1. CASE UNCHANGED vars
  BY <1>1 DEF CopyInv, vars, system
<1>2. CASE Push \/ Clear \/ Conf \/ Ack \/ Rollback
  BY <1>2 DEF CopyInv, Push, Clear, Conf, ConfOk, ConfBad, Ack, Rollback
<1>3. CASE Apply
  <2>1. applied' = blob /\ gpf' = Enable(Blobs[blob])
    BY <1>3, ApplyParts
  <2> QED BY <2>1
<1>4. CASE Restart \/ PowerCut
  BY <1>4, StartFacts
<1>5. CASE Handlers
  BY <1>5, HandlerParts DEF BufferInv, TypedInv, StoresOk
<1> QED BY <1>1, <1>2, <1>3, <1>4, <1>5 DEF Next, Handlers

\* As long as no apply and no rollback has failed halfway, and no TR-181 handler
\* has written the switch since the process was started, forwarding is on
\* exactly when the last blob this process applied has rules: gpfEnable, by which
\* apply_pf_cache_ToDB decides whether to write the flag, is what syscfg has.
\* The handlers of the table leave the flag alone.
THEOREM PfFlagFollowsBlob == Spec => []FlagFollowsBlob
<1>1. Init => BufferInv /\ FlagInv /\ CopyInv
  <2>1. Init => db[Flag] = -2 /\ gpf = 0 /\ ~clean
    BY KeyTypes DEF Init
  <2>2. Init => FlagInv /\ CopyInv
    BY <2>1 DEF FlagInv, CopyInv, Atoi
  <2> QED BY <2>2, InitBuffer
<1>2. BufferInv /\ FlagInv /\ CopyInv /\ [Next]_vars => (BufferInv /\ FlagInv /\ CopyInv)'
  BY BufferStep, FlagStep, CopyStep
<1>3. FlagInv /\ CopyInv => FlagFollowsBlob
  BY DEF FlagInv, CopyInv, FlagFollowsBlob
<1> QED BY <1>1, <1>2, <1>3, PTL DEF Spec

=============================================================================
