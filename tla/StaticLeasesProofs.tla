-------------------------- MODULE StaticLeasesProofs --------------------------
(***************************************************************************)
(* The two threads that write the static leases and the LAN settings, for   *)
(* every number of hosts, blobs and clients and whatever fails.             *)
(***************************************************************************)
EXTENDS StaticLeases, FiniteSetTheorems, TLAPS

----------------------------------------------------------------------------
(* Keys and values.                                                         *)

\* The keys of the store are the count, the LAN settings, those of hosts and
\* the comments.
LEMMA KeyCases ==
    ASSUME NEW k \in Keys
    PROVE  \/ k = Count \/ k = Lan
           \/ \E i \in 1 .. MaxHosts : k = Host(i)
           \/ \E i \in 1 .. MaxHosts : k = Ins(i)
           \/ k \in Comments
BY DEF Keys

LEMMA KeysOfHosts ==
    /\ Count \in Keys /\ Lan \in Keys /\ Comments \subseteq Keys
    /\ \A i \in 1 .. MaxHosts : Host(i) \in Keys /\ Ins(i) \in Keys
BY DEF Keys

\* No two of them are the same.
LEMMA KeysDiffer ==
    /\ Count # Lan /\ Count[1] = "count" /\ Lan[1] = "lan"
    /\ \A i : /\ Host(i)[1] = "host" /\ Host(i)[2] = i /\ Ins(i)[1] = "ins" /\ Ins(i)[2] = i
              /\ Host(i) # Count /\ Host(i) # Lan /\ Ins(i) # Count /\ Ins(i) # Lan
    /\ \A i, j : /\ Host(i) # Ins(j)
                 /\ Host(i) = Host(j) => i = j
                 /\ Ins(i) = Ins(j) => i = j
BY DEF Count, Lan, Host, Ins

LEMMA CommentsDiffer ==
    ASSUME NEW c \in Comments
    PROVE  /\ c[1] \in {"notes", "note", "comment"}
           /\ c # Count /\ c # Lan /\ \A i : c # Host(i) /\ c # Ins(i)
<1>1. c[1] \in {"notes", "note", "comment"}
  BY DEF Comments, Notes, Note, Comment
<1> QED BY <1>1, KeysDiffer

\* What a key may be set to.
ValuesOf(k) ==
    CASE k[1] = "count" -> 0 .. MaxHosts
      [] k[1] = "host"  -> Leases
      [] OTHER -> Nat

StoreOk(d)  == d \in [Keys -> Int] /\ \A k \in Keys : d[k] = Unset \/ d[k] \in ValuesOf(k)
BufferOk(b) == DOMAIN b \subseteq Keys /\ b \in [DOMAIN b -> Nat]
               /\ \A k \in DOMAIN b : b[k] \in ValuesOf(k)

USE BoundsAssumption, LeasesAssumption, BlobsAssumption, LanAssumption DEF Unset

LEMMA ValuesOfKeys ==
    /\ ValuesOf(Count) = 0 .. MaxHosts
    /\ ValuesOf(Lan) = Nat
    /\ \A i : ValuesOf(Host(i)) = Leases /\ ValuesOf(Ins(i)) = Nat
    /\ \A c \in Comments : ValuesOf(c) = Nat
BY KeysDiffer, CommentsDiffer DEF ValuesOf

LEMMA ValuesAreNat ==
    ASSUME NEW k \in Keys
    PROVE  ValuesOf(k) \subseteq Nat
BY KeyCases, ValuesOfKeys

\* Reading a store.
LEMMA StoreValues ==
    ASSUME NEW d, StoreOk(d)
    PROVE  /\ Atoi(d[Count]) \in 0 .. MaxHosts
           /\ d[Lan] \in Nat \cup {Unset}
           /\ \A i \in 1 .. MaxHosts :
                 d[Host(i)] \in Leases \cup {Unset} /\ d[Ins(i)] \in Nat \cup {Unset}
           /\ d \in [Keys -> {v \in Int : v >= Unset}]
<1>1. \A k \in Keys : d[k] >= Unset
  BY ValuesAreNat DEF StoreOk
<1> QED
  BY <1>1, KeysOfHosts, ValuesOfKeys DEF StoreOk, Atoi

\* Writing a key.
LEMMA StoreWrite ==
    ASSUME NEW d, StoreOk(d), NEW k \in Keys, NEW v, v = Unset \/ v \in ValuesOf(k)
    PROVE  StoreOk([d EXCEPT ![k] = v])
BY ValuesAreNat DEF StoreOk

----------------------------------------------------------------------------
(* What Utopia and the rollback make of a store.                            *)

\* A host has a lease and a number, under two keys of its own.
LEMMA StoreByKeys ==
    ASSUME NEW d \in [Keys -> Int],
           d[Count] \in 0 .. MaxHosts \cup {Unset}, d[Lan] \in Nat \cup {Unset},
           \A i \in 1 .. MaxHosts :
              d[Host(i)] \in Leases \cup {Unset} /\ d[Ins(i)] \in Nat \cup {Unset},
           \A c \in Comments : d[c] \in Nat \cup {Unset}
    PROVE  StoreOk(d)
<1> SUFFICES ASSUME NEW k \in Keys PROVE d[k] = Unset \/ d[k] \in ValuesOf(k)
  BY DEF StoreOk
<1> QED BY KeyCases, ValuesOfKeys

LEMMA UnsetHostsOk ==
    ASSUME StoreOk(db), NEW I
    PROVE  StoreOk(UnsetHosts(I))
BY DEF UnsetHosts, StoreOk

LEMMA DelSaddrOk ==
    ASSUME StoreOk(db), NEW id, HostOf(id) # {}
    PROVE  /\ StoreOk(DelSaddr(id))
           /\ DelSaddr(id)[Lan] = db[Lan]
<1> DEFINE n     == Atoi(db[Count])
           gap   == CHOOSE i \in HostOf(id) : \A j \in HostOf(id) : i <= j
           at(i) == IF i < gap THEN i ELSE i + 1
           d     == DelSaddr(id)
<1>1. n \in 1 .. MaxHosts
  BY StoreValues DEF HostOf, Hosts
<1>2. \A k \in Keys : d[k] = IF k = Count THEN n - 1
                             ELSE IF k[1] \in {"host", "ins"} /\ k[2] < n THEN db[<<k[1], at(k[2])>>]
                             ELSE IF k[1] \in {"host", "ins"} THEN Unset ELSE db[k]
  BY DEF DelSaddr
<1>3. d[Count] = n - 1 /\ d[Lan] = db[Lan]
  BY <1>2, KeysOfHosts, KeysDiffer
<1>4. ASSUME NEW i \in 1 .. MaxHosts
      PROVE  d[Host(i)] \in Leases \cup {Unset} /\ d[Ins(i)] \in Nat \cup {Unset}
  <2>1. /\ d[Host(i)] = IF i < n THEN db[Host(at(i))] ELSE Unset
        /\ d[Ins(i)] = IF i < n THEN db[Ins(at(i))] ELSE Unset
    BY <1>2, KeysOfHosts, KeysDiffer DEF Host, Ins
  <2>2. i < n => at(i) \in 1 .. MaxHosts
    BY <1>1
  <2> QED BY <2>1, <2>2, StoreValues
<1>8. ASSUME NEW c \in Comments PROVE d[c] \in Nat \cup {Unset}
  <2>1. c \in Keys /\ c # Count /\ c[1] \notin {"host", "ins"}
    BY KeysOfHosts, CommentsDiffer
  <2>2. d[c] = db[c]
    BY <1>2, <2>1
  <2> QED BY <2>1, <2>2, ValuesOfKeys DEF StoreOk
<1>5. d \in [Keys -> Int]
  <2>1. ASSUME NEW k \in Keys PROVE d[k] \in Int
    BY <1>1, <1>3, <1>4, <1>8, KeyCases, StoreValues
  <2>2. d = [k \in Keys |-> d[k]]
    BY DEF DelSaddr
  <2> QED BY <2>1, <2>2
<1>6. d[Count] \in 0 .. MaxHosts \cup {Unset} /\ d[Lan] \in Nat \cup {Unset}
  BY <1>1, <1>3, StoreValues
<1> HIDE DEF d
<1>7. StoreOk(d)
  BY <1>4, <1>5, <1>6, <1>8, StoreByKeys
<1> QED BY <1>3, <1>7 DEF d

LEMMA AddSaddrOk ==
    ASSUME StoreOk(db), NEW r \in Row, Addable(r)
    PROVE  /\ StoreOk(AddSaddr(r))
           /\ AddSaddr(r)[Lan] = db[Lan]
<1> DEFINE n == Atoi(db[Count]) + 1
           d == [db EXCEPT ![Count] = n]
           e == [d EXCEPT ![Host(n)] = r.lease]
           f == [e EXCEPT ![Ins(n)] = r.id]
<1>1. n \in 1 .. MaxHosts /\ r.lease \in Leases /\ r.id \in Nat
  BY StoreValues DEF Addable, Row
<1>2. Count \in Keys /\ Lan \in Keys /\ Host(n) \in Keys /\ Ins(n) \in Keys
  BY <1>1, KeysOfHosts
<1>3. n \in ValuesOf(Count) /\ r.lease \in ValuesOf(Host(n)) /\ r.id \in ValuesOf(Ins(n))
  BY <1>1, ValuesOfKeys
<1>4. AddSaddr(r) = f
  BY DEF AddSaddr
<1>5. f[Lan] = db[Lan]
  BY <1>2, KeysDiffer DEF StoreOk
<1> HIDE DEF n
<1>6. StoreOk(d)
  BY <1>2, <1>3, StoreWrite
<1> HIDE DEF d
<1>7. StoreOk(e)
  BY <1>2, <1>3, <1>6, StoreWrite
<1> HIDE DEF e
<1>8. StoreOk(f)
  BY <1>2, <1>3, <1>7, StoreWrite
<1> QED BY <1>4, <1>5, <1>8

LEMMA SetSaddrOk ==
    ASSUME StoreOk(db), NEW r \in Row, r.lease # 0
    PROVE  /\ StoreOk(SetSaddr(r))
           /\ SetSaddr(r)[Lan] = db[Lan]
<1>1. r.lease \in Leases
  BY DEF Row
<1>2. ASSUME NEW k \in Keys
      PROVE  SetSaddr(r)[k] = db[k] \/ (k[1] = "host" /\ SetSaddr(r)[k] = r.lease)
  BY <1>2, KeysDiffer DEF SetSaddr
<1>3. \A k \in Keys : k[1] = "host" => ValuesOf(k) = Leases
  BY DEF ValuesOf
<1>4. SetSaddr(r) = [k \in Keys |-> SetSaddr(r)[k]]
  BY DEF SetSaddr
<1>5. SetSaddr(r) \in [Keys -> Int]
  BY <1>1, <1>2, <1>4 DEF StoreOk
<1> QED BY <1>1, <1>2, <1>3, <1>5, KeysOfHosts, KeysDiffer DEF StoreOk

----------------------------------------------------------------------------
(* Buffers, and how many parameters they hold.                              *)

LEMMA StaticKeysAreKeys ==
    ASSUME NEW n \in 0 .. MaxHosts
    PROVE  StaticKeys(n) \subseteq Keys
BY DEF StaticKeys, Keys

LEMMA CommentKeysAreComments ==
    ASSUME StoreOk(db)
    PROVE  CommentKeys(db) \subseteq Comments
<1>1. Atoi(db[Count]) \in 0 .. MaxHosts
  BY StoreValues
<1>2. LeasesIn(db) \subseteq Leases
  BY StoreValues DEF LeasesIn, Hosts
<1> QED BY <1>1, <1>2 DEF CommentKeys, Comments

\* What is backed up from a store can be written back.
LEMMA BackupOk ==
    ASSUME StoreOk(db), NEW doc
    PROVE  BufferOk(BackupFromDb(doc))
<1> DEFINE visited == IF doc = "lan" THEN {Lan} ELSE StaticKeys(Atoi(db[Count])) \cup CommentKeys(db)
           K == {l \in visited : db[l] # Unset}
           b == BackupFromDb(doc)
<1>1. K \subseteq Keys
  BY KeysOfHosts, StaticKeysAreKeys, CommentKeysAreComments, StoreValues
<1>2. b = [k \in K |-> db[k]]
  BY DEF BackupFromDb
<1> HIDE DEF K
<1>3. DOMAIN b = K /\ \A k \in K : b[k] = db[k]
  BY <1>2
<1>4. \A k \in K : db[k] \in ValuesOf(k) /\ db[k] \in Nat
  BY <1>1, ValuesAreNat DEF StoreOk, K
<1> QED BY <1>1, <1>2, <1>3, <1>4 DEF BufferOk

\* A macbinding blob asks for its leases, in the order of its entries.
LEMMA ConfTable ==
    ASSUME NEW b, b.doc # "lan"
    PROVE  LET n == Len(b.leases)
               c == UpdateConfToCache(b)
           IN  /\ DOMAIN c = StaticKeys(n) /\ c = [k \in StaticKeys(n) |-> c[k]]
               /\ c[Count] = n
               /\ \A i \in 1 .. n : c[Host(i)] = b.leases[i] /\ c[Ins(i)] = i
<1>1. UpdateConfToCache(b) = [k \in StaticKeys(Len(b.leases)) |->
                                 CASE k[1] = "count" -> Len(b.leases)
                                   [] k[1] = "host"  -> b.leases[k[2]]
                                   [] k[1] = "ins"   -> k[2]]
  BY DEF UpdateConfToCache
<1> QED BY <1>1, KeysDiffer DEF StaticKeys

\* What a blob asks for can be written.
LEMMA ConfOk ==
    ASSUME NEW v \in Versions
    PROVE  BufferOk(UpdateConfToCache(Blobs[v]))
<1> DEFINE b == Blobs[v]
           n == Len(b.leases)
           c == UpdateConfToCache(b)
<1>1. b.leases \in Seq(Leases) /\ n \in 0 .. MaxHosts /\ b.lan \in Nat
      /\ \A i \in 1 .. n : b.leases[i] \in Leases
  BY DEF Blob
<1>2. CASE b.doc = "lan"
  BY <1>1, <1>2, KeysOfHosts, ValuesOfKeys DEF UpdateConfToCache, BufferOk
<1>3. CASE b.doc # "lan"
  <2>1. /\ DOMAIN c = StaticKeys(n) /\ c = [k \in StaticKeys(n) |-> c[k]]
        /\ c[Count] = n
        /\ \A i \in 1 .. n : c[Host(i)] = b.leases[i] /\ c[Ins(i)] = i
    BY <1>3, ConfTable
  <2> HIDE DEF c
  <2>2. ASSUME NEW k \in StaticKeys(n) PROVE c[k] \in ValuesOf(k)
    <3>1. CASE k = Count
      BY <1>1, <2>1, <3>1, ValuesOfKeys
    <3>2. ASSUME NEW i \in 1 .. n, k = Host(i) PROVE c[k] \in ValuesOf(k)
      BY <1>1, <2>1, <3>2, ValuesOfKeys
    <3>3. ASSUME NEW i \in 1 .. n, k = Ins(i) PROVE c[k] \in ValuesOf(k)
      <4>1. i \in Nat
        BY <1>1
      <4>2. c[k] = i
        BY <2>1, <3>3
      <4> QED BY <3>3, <4>1, <4>2, ValuesOfKeys
    <3> QED BY <3>1, <3>2, <3>3 DEF StaticKeys
  <2>3. StaticKeys(n) \subseteq Keys
    BY <1>1, StaticKeysAreKeys
  <2>4. \A k \in StaticKeys(n) : c[k] \in Nat
    BY <2>2, <2>3, ValuesAreNat
  <2> QED BY <2>1, <2>2, <2>3, <2>4 DEF BufferOk, c
<1> QED BY <1>2, <1>3

LEMMA KeysFinite == IsFiniteSet(Keys)
<1> DEFINE H == {Host(i) : i \in 1 .. MaxHosts}
           I == {Ins(i) : i \in 1 .. MaxHosts}
<1>1. IsFiniteSet(1 .. MaxHosts)
  BY FS_Interval
<1>2. [i \in 1 .. MaxHosts |-> Host(i)] \in Surjection(1 .. MaxHosts, H)
  BY DEF Surjection
<1>3. [i \in 1 .. MaxHosts |-> Ins(i)] \in Surjection(1 .. MaxHosts, I)
  BY DEF Surjection
<1>4. IsFiniteSet(H)
  BY <1>1, <1>2, FS_Surjection
<1>5. IsFiniteSet(I)
  BY <1>1, <1>3, FS_Surjection
<1>6. IsFiniteSet({Count, Lan})
  <2>1. IsFiniteSet({Count}) /\ IsFiniteSet({Lan})
    BY FS_Singleton
  <2>2. {Count, Lan} = {Count} \cup {Lan}
    OBVIOUS
  <2>3. IsFiniteSet({Count} \cup {Lan})
    BY <2>1, FS_Union
  <2> QED BY <2>2, <2>3
<1>7. IsFiniteSet({Count, Lan} \cup H)
  BY <1>4, <1>6, FS_Union
<1>8. IsFiniteSet({Count, Lan} \cup H \cup I)
  BY <1>5, <1>7, FS_Union
<1>9. IsFiniteSet(Comments)
  <2> DEFINE N == {Note(i) : i \in 1 .. MaxHosts}
             C == {Comment(l) : l \in Leases}
  <2>1. [i \in 1 .. MaxHosts |-> Note(i)] \in Surjection(1 .. MaxHosts, N)
    BY DEF Surjection
  <2>2. [l \in Leases |-> Comment(l)] \in Surjection(Leases, C)
    BY DEF Surjection
  <2> HIDE DEF N, C
  <2>6. IsFiniteSet(Leases)
    OBVIOUS
  <2>7. IsFiniteSet(N)
    BY <1>1, <2>1, FS_Surjection
  <2>8. IsFiniteSet(C)
    BY <2>2, <2>6, FS_Surjection
  <2>3. IsFiniteSet(N) /\ IsFiniteSet(C) /\ IsFiniteSet({Notes})
    BY <2>7, <2>8, FS_Singleton
  <2>4. IsFiniteSet({Notes} \cup N)
    BY <2>3, FS_Union
  <2>5. IsFiniteSet({Notes} \cup N \cup C)
    BY <2>3, <2>4, FS_Union
  <2> QED BY <2>5 DEF Comments, N, C
<1>10. IsFiniteSet({Count, Lan} \cup H \cup I \cup Comments)
  BY <1>8, <1>9, FS_Union
<1> QED BY <1>10 DEF Keys

\* The keys of a buffer that have one slot at least.
Slots(b) == {k \in DOMAIN b : k[1] # "comment"}

LEMMA NumOfParamType ==
    ASSUME NEW b, DOMAIN b \in SUBSET Keys
    PROVE  /\ IsFiniteSet(Slots(b))
           /\ Cardinality(Slots(b)) \in Nat
           /\ NumOfParam(b) \in Nat
           /\ NumOfParam(b) >= Cardinality(Slots(b))
<1> DEFINE K == DOMAIN b
           S == {k \in K : k[1] # "comment"}
           I == {k \in K : k[1] = "ins"}
           L == K \cap {Lan}
           C == {k \in K : k[1] = "host" /\ Comment(b[k]) \in K}
<1>1. IsFiniteSet(K)
  BY KeysFinite, FS_Subset
<1>2. IsFiniteSet(S) /\ IsFiniteSet(I) /\ IsFiniteSet(L) /\ IsFiniteSet(C)
  BY <1>1, FS_Subset
<1>3. Cardinality(S) \in Nat /\ Cardinality(I) \in Nat /\ Cardinality(L) \in Nat /\ Cardinality(C) \in Nat
  BY <1>2, FS_CardinalityType
<1>4. NumOfParam(b) = Cardinality(S) + Cardinality(I) + 5 * Cardinality(L) + Cardinality(C)
  BY DEF NumOfParam
<1>5. Slots(b) = S
  BY DEF Slots
<1> HIDE DEF S, I, L, C
<1> QED BY <1>2, <1>3, <1>4, <1>5

\* A buffer with a count and n hosts holds more than n parameters.
LEMMA MoreThanHosts ==
    ASSUME NEW b, DOMAIN b \in SUBSET Keys, NEW n \in 0 .. MaxHosts,
           Count \in DOMAIN b, \A i \in 1 .. n : Host(i) \in DOMAIN b
    PROVE  NumOfParam(b) > n
<1> DEFINE f == [i \in 0 .. n |-> IF i = 0 THEN Count ELSE Host(i)]
<1>1. f \in Injection(0 .. n, Slots(b))
  <2>1. Count \in Slots(b) /\ \A i \in 1 .. n : Host(i) \in Slots(b)
    BY KeysDiffer DEF Slots
  <2> QED BY <2>1, KeysDiffer DEF Injection, IsInjective
<1>2. IsFiniteSet(Slots(b))
  BY NumOfParamType
<1>3. Cardinality(0 .. n) <= Cardinality(Slots(b))
  BY <1>1, <1>2, FS_Injection
<1>4. Cardinality(0 .. n) = n + 1
  BY FS_Interval
<1> QED BY <1>3, <1>4, NumOfParamType

----------------------------------------------------------------------------
(* Types.                                                                   *)

\* The WebConfig thread: what it is about to write can be written.
TypeWeb ==
    /\ locked \subseteq Docs
    /\ BufferOk(bkup) /\ pending \subseteq Keys /\ received \in Nat
    /\ pc \in {"idle", "start", "clear", "apply", "rollback", "restore", "unused"}
    /\ blob \in {0} \cup Versions
    /\ pc # "idle" => blob \in Versions
    /\ pc = "apply" => pending \subseteq DOMAIN UpdateConfToCache(Blobs[blob])
    /\ pc = "restore" => pending \subseteq DOMAIN bkup
    /\ requests \in 0 .. scenario.requests
    /\ origin \in {"none", "bridge", "invalid", "failed"}
    /\ before \in [leases : SUBSET Leases, hosts : {"uncounted", "all", "some"}]
    /\ intact \in BOOLEAN

\* The data-model thread: no number beyond the last one is in use, and nothing
\* is staged while the table is read back.
RowsOk ==
    /\ rows \subseteq Row /\ \A r, s \in rows : r.id = s.id => r = s
    /\ maxIns \in Nat /\ \A r \in rows : r.id <= maxIns

SessionOk ==
    /\ spos \in 0 .. MaxHosts + 1 /\ scount \in 0 .. MaxHosts
    /\ phase \in {"set", "validate", "commit", "rollback"}
    /\ touched \subseteq {r.id : r \in rows} /\ todo \subseteq touched
    /\ phase = "set" => todo = {}
    /\ spos > 0 => phase = "set" /\ touched = {}

TypeRows == RowsOk /\ SessionOk

TypeRest ==
    /\ failures \in 0 .. scenario.failures
    /\ sync \in BOOLEAN
    /\ lanRow \in {v \in Int : v >= Unset} /\ lanOpen \in BOOLEAN
    /\ unread \in BOOLEAN /\ bridge \in BOOLEAN
    /\ scenario \in Scenarios

TypedInv == StoreOk(db) /\ TypeWeb /\ TypeRows /\ TypeRest

LEMMA TypedIsTypeOK == TypedInv => TypeOK
BY StoreValues DEF TypedInv, TypeWeb, TypeRows, RowsOk, SessionOk, TypeRest, TypeOK, BufferOk

LEMMA ScenarioTypes ==
    ASSUME NEW x \in Scenarios
    PROVE  /\ x \in Scenario /\ x.blobs \subseteq Versions
           /\ x.requests \in Nat /\ x.failures \in Nat /\ x.maxIns \in Nat
BY DEF Scenario

LEMMA NoBackupOk == BufferOk(NoBackup) /\ DOMAIN NoBackup = {}
BY DEF BufferOk, NoBackup

LEMMA TableInType ==
    /\ NoTable \in [leases : SUBSET Leases, hosts : {"uncounted", "all", "some"}]
    /\ \A d : StoreOk(d) => TableIn(d) \in [leases : SUBSET Leases, hosts : {"uncounted", "all", "some"}]
<1>1. ASSUME NEW d, StoreOk(d) PROVE LeasesIn(d) \subseteq Leases
  BY <1>1, StoreValues DEF LeasesIn, Hosts
<1> QED BY <1>1 DEF NoTable, TableIn

LEMMA InitTyped == Init => TypedInv
<1> SUFFICES ASSUME Init PROVE TypedInv
  OBVIOUS
<1>1. PICK s \in Tables :
         /\ db = [k \in Keys |->
                     CASE k = Count -> Len(s)
                       [] k = Lan -> 0
                       [] k \in Comments -> IF k \in scenario.comments THEN 0 ELSE Unset
                       [] OTHER -> IF k[2] \notin DOMAIN s THEN Unset
                                   ELSE IF k[1] = "host" THEN s[k[2]] ELSE k[2]]
         /\ rows = {[id |-> i, lease |-> s[i], bNew |-> FALSE, bEnabled |-> TRUE,
                       ActiveFlag |-> TRUE] : i \in DOMAIN s}
         /\ maxIns = Len(s)
  BY DEF Init
<1>2. PICK n \in 0 .. MaxHosts : s \in [1 .. n -> Leases]
  BY DEF Tables
<1>3. Len(s) = n /\ DOMAIN s = 1 .. n
  BY <1>2
<1>4. StoreOk(db)
  <2>1. db[Count] = n /\ db[Lan] = 0
    <3>1. Count \notin Comments /\ Lan \notin Comments
      BY CommentsDiffer
    <3> QED BY <1>1, <1>3, <3>1, KeysOfHosts, KeysDiffer
  <2>2. ASSUME NEW i \in 1 .. MaxHosts
        PROVE  /\ db[Host(i)] = IF i \notin 1 .. n THEN Unset ELSE s[i]
               /\ db[Ins(i)] = IF i \notin 1 .. n THEN Unset ELSE i
    <3>1. Host(i) \notin Comments /\ Ins(i) \notin Comments
      BY CommentsDiffer
    <3> QED BY <1>1, <1>3, <3>1, KeysOfHosts, KeysDiffer
  <2>6. ASSUME NEW c \in Comments PROVE db[c] \in Nat \cup {Unset}
    <3>1. c \in Keys /\ c # Count /\ c # Lan
      BY KeysOfHosts, CommentsDiffer
    <3>2. db[c] = IF c \in scenario.comments THEN 0 ELSE Unset
      BY <1>1, <3>1
    <3> QED BY <3>2
  <2>3. ASSUME NEW i \in 1 .. MaxHosts
        PROVE  db[Host(i)] \in Leases \cup {Unset} /\ db[Ins(i)] \in Nat \cup {Unset}
    BY <1>2, <2>2
  <2>4. ASSUME NEW k \in Keys PROVE db[k] \in Int
    <3>1. CASE k \in Comments
      BY <2>6, <3>1
    <3>2. CASE k \notin Comments
      BY <2>1, <2>3, <3>2, KeyCases
    <3> QED BY <3>1, <3>2
  <2>5. db \in [Keys -> Int]
    BY <1>1, <2>4
  <2> QED BY <2>1, <2>3, <2>5, <2>6, StoreByKeys
<1>5. TypeRows
  <2>1. ASSUME NEW r \in rows
        PROVE  \E i \in 1 .. n : r = [id |-> i, lease |-> s[i], bNew |-> FALSE, bEnabled |-> TRUE,
                                    ActiveFlag |-> TRUE]
    BY <1>1, <1>3
  <2>2. ASSUME NEW r \in rows PROVE r \in Row /\ r.id <= maxIns
    <3>1. PICK i \in 1 .. n : r = [id |-> i, lease |-> s[i], bNew |-> FALSE, bEnabled |-> TRUE,
                                    ActiveFlag |-> TRUE]
      BY <2>1
    <3>2. s[i] \in Leases /\ i \in Nat \ {0} /\ i <= n
      BY <1>2
    <3> QED BY <1>1, <1>3, <3>1, <3>2 DEF Row
  <2>3. ASSUME NEW r \in rows, NEW t \in rows, r.id = t.id PROVE r = t
    <3>1. PICK i \in 1 .. n : r = [id |-> i, lease |-> s[i], bNew |-> FALSE, bEnabled |-> TRUE,
                                    ActiveFlag |-> TRUE]
      BY <2>1
    <3>2. PICK j \in 1 .. n : t = [id |-> j, lease |-> s[j], bNew |-> FALSE, bEnabled |-> TRUE,
                                    ActiveFlag |-> TRUE]
      BY <2>1
    <3> QED BY <2>3, <3>1, <3>2
  <2>4. maxIns \in Nat
    BY <1>1, <1>3
  <2> QED BY <2>2, <2>3, <2>4 DEF Init, TypeRows, RowsOk, SessionOk
<1>6. TypeWeb
  BY NoBackupOk, TableInType, ScenarioTypes DEF Init, TypeWeb
<1>7. TypeRest
  <2>1. failures \in 0 .. scenario.failures /\ lanRow \in {v \in Int : v >= Unset}
    BY ScenarioTypes DEF Init
  <2> QED BY <2>1 DEF Init, TypeRest
<1> QED BY <1>4, <1>5, <1>6, <1>7 DEF TypedInv

----------------------------------------------------------------------------
(* Types, the WebConfig thread.                                             *)

LEMMA RowsKept ==
    ASSUME TypeRows, UNCHANGED dataModel
    PROVE  TypeRows'
BY DEF TypeRows, RowsOk, SessionOk, dataModel, reading, session

LanTypes ==
    lanRow \in {v \in Int : v >= Unset} /\ lanOpen \in BOOLEAN /\ unread \in BOOLEAN

\* The entry is left alone, read or not.
LEMMA EntryTyped ==
    ASSUME TypedInv, UNCHANGED lanOpen \/ lanOpen' = FALSE,
           ReadEntry \/ LeaveEntry \/ UNCHANGED <<lanRow, unread>>
    PROVE  LanTypes'
<1>1. lanRow' \in {v \in Int : v >= Unset}
  <2>1. lanRow' = db[Lan] \/ lanRow' = lanRow
    BY DEF ReadEntry, LeaveEntry
  <2>2. db[Lan] \in {v \in Int : v >= Unset}
    BY StoreValues DEF TypedInv
  <2> QED BY <2>1, <2>2 DEF TypedInv, TypeRest
<1>2. unread' \in BOOLEAN
  BY DEF ReadEntry, LeaveEntry, TypedInv, TypeRest
<1>3. lanOpen' \in BOOLEAN
  BY DEF TypedInv, TypeRest
<1> QED BY <1>1, <1>2, <1>3 DEF LanTypes

LEMMA SynchronizeTyped ==
    ASSUME TypedInv, Synchronize
    PROVE  LanTypes' /\ sync' \in BOOLEAN
<1>1. LanTypes'
  BY EntryTyped DEF Synchronize
<1>2. sync' = TRUE \/ sync' = sync
  BY DEF Synchronize
<1>3. sync' \in BOOLEAN
  BY <1>2 DEF TypedInv, TypeRest
<1> QED BY <1>1, <1>3

\* Whatever loop a call fails in.
LEMMA FailTyped ==
    ASSUME TypedInv, blob \in Versions, Fail, LanTypes',
           UNCHANGED <<scenario, dataModel, bkup, received, blob, before, intact>>
    PROVE  TypedInv'
<1>1. scenario' = scenario /\ scenario \in Scenarios /\ bridge' = bridge /\ requests' = requests
  BY DEF TypedInv, TypeRest, dataModel
<1>2. failures' \in 0 .. scenario.failures
  BY <1>1, ScenarioTypes DEF Fail, TypedInv, TypeRest
<1>3. UNCHANGED sync
  BY DEF Fail
<1>4. TypeRest'
  BY <1>1, <1>2, <1>3, Zenon DEF TypedInv, TypeRest, LanTypes
<1>5. TypeWeb'
  BY <1>1 DEF Fail, TypedInv, TypeWeb
<1>6. TypeRows'
  BY RowsKept DEF TypedInv
<1>7. StoreOk(db)'
  BY DEF Fail, TypedInv
<1> QED BY <1>4, <1>5, <1>6, <1>7 DEF TypedInv

\* Whatever loop is the last one.
LEMMA EndsTyped ==
    ASSUME TypedInv, Ends, UNCHANGED <<scenario, dataModel, bkup, pending>>,
           LanTypes', sync' \in BOOLEAN,
           StoreOk(db)', received' \in Nat, intact' \in BOOLEAN,
           failures' \in 0 .. scenario.failures
    PROVE  TypedInv'
<1>1. scenario' = scenario /\ bridge' = bridge /\ requests' = requests
  BY DEF dataModel
<1>4. TypeRest'
  BY <1>1, Zenon DEF TypedInv, TypeRest, LanTypes
<1>5. TypeWeb'
  BY <1>1, TableInType DEF Ends, TypedInv, TypeWeb
<1>6. TypeRows'
  BY RowsKept DEF TypedInv
<1> QED BY <1>4, <1>5, <1>6 DEF TypedInv

LEMMA PushTyped ==
    ASSUME TypedInv, UNCHANGED scenario, Push
    PROVE  TypedInv'
<1>1. scenario \in Scenario
  BY DEF TypedInv, TypeRest
<1>2. TypeWeb'
  BY <1>1 DEF Push, TypedInv, TypeWeb, Scenario
<1>3. StoreOk(db)' /\ TypeRest'
  BY DEF Push, TypedInv, TypeRest, lan
<1>4. TypeRows'
  BY DEF Push, TypedInv, TypeRows, RowsOk, SessionOk, reading, session
<1> QED BY <1>2, <1>3, <1>4 DEF TypedInv

LEMMA StartTyped ==
    ASSUME TypedInv, UNCHANGED scenario, RefuseInBridgeMode \/ RefuseInvalid \/ Backup
    PROVE  TypedInv'
<1>1. /\ StoreOk(db)' /\ TypeRows' /\ TypeRest'
      /\ requests' = requests /\ blob' = blob /\ blob \in Versions /\ intact' = intact
  BY RowsKept DEF RefuseInBridgeMode, RefuseInvalid, Backup, TypedInv, TypeRest, TypeWeb, lan,
                  dataModel
<1>2. CASE RefuseInBridgeMode
  BY <1>1, <1>2 DEF RefuseInBridgeMode, TypedInv, TypeWeb
<1>3. CASE RefuseInvalid
  BY <1>1, <1>3, NoBackupOk DEF RefuseInvalid, TypedInv, TypeWeb
<1>4. CASE Backup
  <2>1. /\ BufferOk(bkup)' /\ pending' \subseteq Keys
        /\ before' \in [leases : SUBSET Leases, hosts : {"uncounted", "all", "some"}]
    BY <1>4, BackupOk, TableInType DEF Backup, BufferOk, TypedInv
  <2>2. locked' \subseteq Docs
    BY <1>1, <1>4 DEF Backup, TypedInv, TypeWeb, Doc, Blob
  <2> QED BY <1>1, <1>4, <2>1, <2>2 DEF Backup, TypedInv, TypeWeb
<1> QED BY <1>2, <1>3, <1>4

\* The keys of both loops are keys of the store.
LEMMA LoopTyped ==
    ASSUME TypedInv, UNCHANGED scenario, ClearKey \/ ApplyKey \/ RestoreKey
    PROVE  TypedInv'
<1>0. LanTypes'
  BY EntryTyped DEF ClearKey, ApplyKey, RestoreKey, lan
<1>1. /\ TypeRows' /\ requests' = requests /\ blob' = blob /\ blob \in Versions /\ before' = before
      /\ bkup' = bkup /\ received' = received
  BY RowsKept DEF ClearKey, ApplyKey, RestoreKey, TypedInv, TypeWeb, dataModel
<1>2. StoreOk(db) /\ BufferOk(bkup) /\ BufferOk(UpdateConfToCache(Blobs[blob])) /\ pending \subseteq Keys
  BY <1>1, ConfOk DEF TypedInv, TypeWeb
<1>3. CASE ClearKey
  <2>1. CASE Fail
    BY <1>0, <1>1, <1>3, <2>1, FailTyped DEF ClearKey
  <2>2. ASSUME NEW k \in pending, Unsets(k),
               UNCHANGED <<locked, pc, origin, failures, sync>>
        PROVE  TypedInv'
    <3>1. StoreOk(db)'
      BY <1>2, <2>2, StoreWrite DEF Unsets
    <3>2. TypeWeb' /\ TypeRest'
      BY <1>1, <1>2, <1>3, <2>2 DEF ClearKey, Unsets, TypedInv, TypeWeb, TypeRest, lan, dataModel
    <3> QED BY <1>1, <3>1, <3>2 DEF TypedInv
  <2> QED BY <1>3, <2>1, <2>2 DEF ClearKey
<1>4. CASE ApplyKey
  <2>1. CASE Fail
    BY <1>0, <1>1, <1>4, <2>1, FailTyped DEF ApplyKey
  <2>2. ASSUME NEW k \in pending, Sets(k, UpdateConfToCache(Blobs[blob])),
               UNCHANGED <<locked, pc, origin, failures, sync>>
        PROVE  TypedInv'
    <3>1. k \in DOMAIN UpdateConfToCache(Blobs[blob])
      BY <1>4 DEF ApplyKey, TypedInv, TypeWeb
    <3>2. StoreOk(db)'
      BY <1>2, <2>2, <3>1, StoreWrite DEF Sets, BufferOk
    <3>3. TypeWeb' /\ TypeRest'
      BY <1>1, <1>2, <1>4, <2>2 DEF ApplyKey, Sets, TypedInv, TypeWeb, TypeRest, lan, dataModel
    <3> QED BY <1>1, <3>2, <3>3 DEF TypedInv
  <2> QED BY <1>4, <2>1, <2>2 DEF ApplyKey
<1>5. CASE RestoreKey
  <2>1. StoreOk(db)'
    <3>1. ASSUME NEW k \in pending, Sets(k, bkup) PROVE StoreOk(db)'
      <4>1. k \in DOMAIN bkup
        BY <1>5 DEF RestoreKey, TypedInv, TypeWeb
      <4> QED BY <1>2, <3>1, <4>1, StoreWrite DEF Sets, BufferOk
    <3> QED BY <1>2, <1>5, <3>1 DEF RestoreKey
  <2>2. pending' \subseteq pending /\ pc' \in {"restore", "unused"} /\ intact' \in BOOLEAN
    BY <1>5 DEF RestoreKey, Sets, TypedInv, TypeWeb
  <2>4. failures' \in 0 .. scenario.failures
    BY <1>5, ScenarioTypes DEF RestoreKey, TypedInv, TypeRest
  <2>3. TypeWeb' /\ TypeRest'
    BY <1>1, <1>2, <1>5, <2>2, <2>4 DEF RestoreKey, TypedInv, TypeWeb, TypeRest, lan, dataModel
  <2> QED BY <1>1, <2>1, <2>3 DEF TypedInv
<1> QED BY <1>3, <1>4, <1>5

\* From one loop to the next, and out of them.
LEMMA TurnTyped ==
    ASSUME TypedInv, UNCHANGED scenario, Cleared \/ Applied \/ Rollback \/ Restored
    PROVE  TypedInv'
<1>1. /\ TypeRows' /\ requests' = requests /\ blob \in Versions /\ bkup' = bkup /\ intact' = intact
      /\ UNCHANGED dataModel /\ db' = db /\ StoreOk(db)' /\ received \in Nat
      /\ intact \in BOOLEAN /\ failures \in 0 .. scenario.failures
  BY RowsKept DEF Cleared, Applied, Rollback, Restored, Fail, TypedInv, TypeWeb, TypeRest, dataModel
<1>2. CASE Cleared
  <2>1. CASE Synchronize /\ Ends /\ UNCHANGED <<db, pending, received, failures>>
    BY <1>1, <1>2, <2>1, SynchronizeTyped, EndsTyped
  <2>2. CASE /\ pending' = DOMAIN UpdateConfToCache(Blobs[blob])
             /\ received' = NumOfParam(UpdateConfToCache(Blobs[blob]))
             /\ pc' = "apply"
             /\ UNCHANGED <<db, locked, blob, origin, before, failures, sync, lan>>
    <3>1. pending' \in SUBSET Keys
      BY <1>1, <2>2, ConfOk DEF BufferOk
    <3>2. received' \in Nat
      BY <2>2, <3>1, NumOfParamType
    <3>3. TypeWeb'
      BY <1>1, <2>2, <3>1, <3>2 DEF TypedInv, TypeWeb
    <3>4. TypeRest'
      BY <1>1, <2>2, Zenon DEF TypedInv, TypeRest, dataModel, lan
    <3> QED BY <1>1, <3>3, <3>4 DEF TypedInv
  <2>3. CASE Fail /\ UNCHANGED <<blob, received, before, lan>>
    <3>1. LanTypes'
      BY <2>3, EntryTyped DEF lan
    <3> QED BY <1>1, <2>3, <3>1, FailTyped
  <2> QED BY <1>2, <2>1, <2>2, <2>3 DEF Cleared
<1>3. CASE Applied
  <2>1. CASE Synchronize /\ Ends
    BY <1>1, <1>3, <2>1, SynchronizeTyped, EndsTyped DEF Applied, Fail, Ends
  <2>2. CASE Fail
    <3>1. LanTypes'
      BY <1>3, <2>2, EntryTyped DEF Applied, Fail, Ends
    <3> QED BY <1>1, <1>3, <2>2, <3>1, FailTyped DEF Applied, Fail, Ends
  <2> QED BY <1>3, <2>1, <2>2 DEF Applied
<1>4. CASE Rollback
  <2>1. TypeWeb'
    BY <1>1, <1>4 DEF Rollback, TypedInv, TypeWeb, BufferOk, Doc, Blob
  <2>2. TypeRest'
    BY <1>4, Zenon DEF Rollback, TypedInv, TypeRest, dataModel, lan
  <2> QED BY <1>1, <2>1, <2>2 DEF TypedInv
<1>5. CASE Restored
  <2>1. TypeWeb'
    BY <1>1, <1>5 DEF Restored, TypedInv, TypeWeb
  <2>2. TypeRest'
    BY <1>5, Zenon DEF Restored, TypedInv, TypeRest, dataModel, lan
  <2> QED BY <1>1, <2>1, <2>2 DEF TypedInv
<1> QED BY <1>2, <1>3, <1>4, <1>5

LEMMA RollbackEndsTyped ==
    ASSUME TypedInv, UNCHANGED scenario, RollbackEnds
    PROVE  TypedInv'
<1>1. scenario \in Scenarios /\ failures \in 0 .. scenario.failures /\ StoreOk(db) /\ received \in Nat
      /\ intact \in BOOLEAN /\ sync \in BOOLEAN
  BY DEF TypedInv, TypeRest, TypeWeb
<1>2. \A I : StoreOk(UnsetHosts(I))
  BY <1>1, UnsetHostsOk
<1>3. StoreOk(db)'
  BY <1>1, <1>2 DEF RollbackEnds
<1>4. failures' \in 0 .. scenario.failures /\ intact' \in BOOLEAN
  <2>1. CASE UNCHANGED <<intact, failures>>
    BY <1>1, <2>1
  <2>2. CASE failures < scenario.failures /\ failures' = failures + 1 /\ intact' = FALSE
    <3>1. scenario.failures \in Nat
      BY <1>1, ScenarioTypes
    <3>2. failures' \in 0 .. scenario.failures
      BY <1>1, <2>2, <3>1
    <3> QED BY <2>2, <3>2
  <2> QED BY <2>1, <2>2 DEF RollbackEnds
<1>5. LanTypes' /\ sync' \in BOOLEAN
  <2>1. CASE Synchronize
    BY <2>1, SynchronizeTyped
  <2>2. CASE LeaveEntry /\ UNCHANGED <<sync, lanOpen>>
    BY <1>1, <2>2, EntryTyped
  <2> QED BY <2>1, <2>2 DEF RollbackEnds
<1> QED BY <1>1, <1>3, <1>4, <1>5, EndsTyped DEF RollbackEnds

----------------------------------------------------------------------------
(* Types, the data-model thread.                                            *)

LEMMA WebKept ==
    ASSUME TypeWeb, UNCHANGED <<scenario, locked, web>>
    PROVE  TypeWeb'
BY DEF TypeWeb, web

LEMMA RestKept ==
    ASSUME TypeRest, UNCHANGED <<scenario, failures, sync, lan, bridge>>
    PROVE  TypeRest'
BY Zenon DEF TypeRest, lan

\* A row that is written keeps its number.
LEMMA RowWritten ==
    ASSUME RowsOk, NEW r \in rows, NEW w \in Row, w.id = r.id,
           rows' = (rows \ {r}) \cup {w}, maxIns' = maxIns
    PROVE  /\ RowsOk'
           /\ {s.id : s \in rows'} = {s.id : s \in rows}
BY DEF RowsOk

\* The engine goes on to the next row or the next phase.
LEMMA DoneTyped ==
    ASSUME TypeRows, NEW id, NEW nxt \in {"commit", "set"}, phase # "set",
           Done(id, nxt) \/ RollBack(touched) \/ RollBack(todo \ {id}),
           {s.id : s \in rows'} = {s.id : s \in rows}, UNCHANGED reading
    PROVE  SessionOk'
<1>1. spos = 0 /\ spos' = 0 /\ scount' = scount /\ todo \subseteq touched
  BY DEF TypeRows, SessionOk, reading
<1>2. CASE Done(id, nxt)
  BY <1>1, <1>2 DEF Done, TypeRows, SessionOk
<1>3. ASSUME NEW rest, rest \subseteq touched, RollBack(rest)
      PROVE  SessionOk'
  BY <1>1, <1>3 DEF RollBack, TypeRows, SessionOk
<1> QED BY <1>1, <1>2, <1>3

LEMMA SyncTyped ==
    ASSUME TypedInv, UNCHANGED scenario, SyncBegins \/ SyncReads
    PROVE  TypedInv'
<1>1. TypeWeb' /\ StoreOk(db)
  BY WebKept DEF TypedInv, SyncBegins, SyncReads
<1>2. UNCHANGED <<failures, lan, bridge>> /\ sync' \in {sync, FALSE}
  BY DEF SyncBegins, SyncReads
<1>3. TypeRest'
  <2>1. sync' \in BOOLEAN
    BY <1>2 DEF TypedInv, TypeRest
  <2> QED BY <1>2, <2>1, Zenon DEF TypedInv, TypeRest, lan
<1>4. CASE SyncBegins
  <2>1. Atoi(db[Count]) \in 0 .. MaxHosts
    BY <1>1, StoreValues
  <2>2. TypeRows'
    BY <1>4, <2>1 DEF SyncBegins, Free, TypedInv, TypeRows, RowsOk, SessionOk, session
  <2>3. StoreOk(db)'
    BY <1>1, <1>4 DEF SyncBegins
  <2> QED BY <1>1, <1>3, <2>2, <2>3 DEF TypedInv
<1>5. CASE SyncReads
  <2> DEFINE id == IF Atoi(db[Ins(spos)]) = 0 THEN maxIns + 1 ELSE db[Ins(spos)]
             w  == [id |-> id, lease |-> db[Host(spos)], bEnabled |-> TRUE, ActiveFlag |-> TRUE,
                    bNew |-> \A s \in rows : s.id # id]
  <2>1. CASE spos <= scount /\ db[Host(spos)] # Unset
    <3>1. spos \in 1 .. MaxHosts /\ maxIns \in Nat
      BY <1>5, <2>1 DEF SyncReads, TypedInv, TypeRows, RowsOk, SessionOk
    <3>2. db[Host(spos)] \in Leases /\ id \in Nat \ {0}
      BY <1>1, <2>1, <3>1, StoreValues DEF Atoi
    <3>3. /\ rows' = {s \in rows : s.id # id} \cup {w}
          /\ maxIns' = Raised(id)
          /\ db' = IF Atoi(db[Ins(spos)]) = 0 THEN [db EXCEPT ![Ins(spos)] = id] ELSE db
          /\ spos' = spos + 1 /\ scount' = scount
      BY <1>5, <2>1 DEF SyncReads
    <3>4. StoreOk(db)'
      <4>1. Ins(spos) \in Keys /\ id \in ValuesOf(Ins(spos))
        BY <3>1, <3>2, KeysOfHosts, ValuesOfKeys
      <4> QED BY <1>1, <3>3, <4>1, StoreWrite
    <3>5. w \in Row /\ w.id = id
      BY <3>2 DEF Row
    <3> HIDE DEF w, id
    <3>6. RowsOk'
      <4>1. maxIns' \in Nat /\ id <= maxIns' /\ maxIns <= maxIns'
        BY <3>1, <3>2, <3>3 DEF Raised
      <4>2. \A s \in rows : s \in Row /\ s.id \in Nat /\ s.id <= maxIns
        BY DEF TypedInv, TypeRows, RowsOk, Row
      <4>3. \A s \in rows' : s \in Row /\ s.id <= maxIns'
        BY <3>1, <3>3, <3>5, <4>1, <4>2
      <4>4. \A s, t \in rows' : s.id = t.id => s = t
        BY <3>3, <3>5 DEF TypedInv, TypeRows, RowsOk
      <4> QED BY <4>1, <4>3, <4>4 DEF RowsOk
    <3>7. SessionOk'
      BY <1>5, <3>1, <3>3 DEF SyncReads, TypedInv, TypeRows, SessionOk, session
    <3> QED BY <1>1, <1>3, <3>4, <3>6, <3>7 DEF TypedInv, TypeRows
  <2>2. CASE ~(spos <= scount /\ db[Host(spos)] # Unset)
    <3>1. UNCHANGED <<db, rows, maxIns, session>> /\ spos' = 0 /\ scount' = 0
      BY <1>5, <2>2 DEF SyncReads
    <3>2. TypeRows'
      BY <3>1 DEF TypedInv, TypeRows, RowsOk, SessionOk, session
    <3> QED BY <1>1, <1>3, <3>1, <3>2 DEF TypedInv
  <2> QED BY <2>1, <2>2
<1> QED BY <1>4, <1>5

LEMMA TableTyped ==
    ASSUME TypedInv, UNCHANGED scenario, AddEntry \/ DelEntry \/ SetParamValue \/ BeginCommit
    PROVE  TypedInv'
<1>1. TypeWeb' /\ TypeRest'
  BY WebKept, RestKept DEF TypedInv, AddEntry, DelEntry, SetParamValue, BeginCommit
<1>2. CASE AddEntry
  <2>1. DefaultRow(maxIns + 1) \in Row /\ DefaultRow(maxIns + 1).id = maxIns + 1
    BY DEF DefaultRow, Row, TypedInv, TypeRows, RowsOk
  <2>2. \A s \in rows : s.id \in Nat
    BY DEF TypedInv, TypeRows, RowsOk, Row
  <2>3. RowsOk'
    BY <1>2, <2>1, <2>2 DEF AddEntry, TypedInv, TypeRows, RowsOk
  <2>4. SessionOk'
    BY <1>2 DEF AddEntry, TypedInv, TypeRows, SessionOk, reading, session
  <2> QED BY <1>1, <1>2, <2>3, <2>4 DEF TypedInv, TypeRows, AddEntry
<1>3. CASE DelEntry
  <2>1. PICK r \in rows :
          /\ \/ r.bNew /\ UNCHANGED db
             \/ ~r.bNew /\ HostOf(r.id) # {} /\ db' = DelSaddr(r.id)
          /\ rows' = rows \ {r}
          /\ touched' = touched \ {r.id}
    BY <1>3 DEF DelEntry
  <2>2. StoreOk(db)'
    BY <2>1, DelSaddrOk DEF TypedInv
  <2>3. RowsOk'
    BY <1>3, <2>1 DEF DelEntry, TypedInv, TypeRows, RowsOk
  <2>4. todo = {} /\ spos = 0 /\ todo' = {} /\ phase' = "set" /\ UNCHANGED reading
    BY <1>3 DEF DelEntry, Free, TypedInv, TypeRows, SessionOk
  <2>5. touched' \subseteq {s.id : s \in rows'}
    BY <2>1 DEF TypedInv, TypeRows, SessionOk
  <2>6. SessionOk'
    BY <2>4, <2>5 DEF TypedInv, TypeRows, SessionOk, reading
  <2> QED BY <1>1, <2>2, <2>3, <2>6 DEF TypedInv, TypeRows
<1>4. CASE SetParamValue
  <2>1. PICK r \in rows, l \in Leases, on \in BOOLEAN :
          /\ rows' = (rows \ {r}) \cup {[r EXCEPT !.lease = l, !.bEnabled = on]}
          /\ touched' = touched \cup {r.id}
    BY <1>4 DEF SetParamValue
  <2> DEFINE w == [r EXCEPT !.lease = l, !.bEnabled = on]
  <2>2. w \in Row /\ w.id = r.id
    BY DEF Row, TypedInv, TypeRows, RowsOk
  <2>3. RowsOk' /\ {s.id : s \in rows'} = {s.id : s \in rows}
    BY <1>4, <2>1, <2>2, RowWritten DEF SetParamValue, TypedInv, TypeRows
  <2>4. spos = 0 /\ UNCHANGED <<db, phase, todo, reading>>
    BY <1>4 DEF SetParamValue, Free
  <2>5. SessionOk'
    <3>1. touched' \subseteq {s.id : s \in rows'} /\ todo' \subseteq touched'
      BY <2>1, <2>3, <2>4 DEF TypedInv, TypeRows, SessionOk
    <3> QED BY <2>4, <3>1 DEF TypedInv, TypeRows, SessionOk, reading
  <2> QED BY <1>1, <2>3, <2>4, <2>5 DEF TypedInv, TypeRows
<1>5. CASE BeginCommit
  BY <1>1, <1>5 DEF BeginCommit, Free, TypedInv, TypeRows, RowsOk, SessionOk, reading
<1> QED BY <1>2, <1>3, <1>4, <1>5

\* A row that is committed keeps its number and leaves a store that is as it
\* should be.
LEMMA OutcomeOk ==
    ASSUME StoreOk(db), NEW r \in Row
    PROVE  LET o == Outcome(r)
           IN  /\ o.r \in Row /\ o.r.id = r.id
               /\ o.ok => StoreOk(o.d) /\ o.d[Lan] = db[Lan]
<1> DEFINE o == Outcome(r)
<1>1. /\ r.bEnabled \in BOOLEAN /\ r.bNew \in BOOLEAN /\ r.ActiveFlag \in BOOLEAN
      /\ [r EXCEPT !.bNew = FALSE, !.ActiveFlag = TRUE] \in Row
      /\ [r EXCEPT !.bNew = FALSE, !.ActiveFlag = TRUE].id = r.id
      /\ [r EXCEPT !.ActiveFlag = FALSE] \in Row
      /\ [r EXCEPT !.ActiveFlag = FALSE].id = r.id
  BY DEF Row
<1>2. CASE r.bEnabled /\ (r.bNew \/ ~r.ActiveFlag)
  <2>1. CASE Addable(r)
    <3>1. o = [d |-> AddSaddr(r), r |-> [r EXCEPT !.bNew = FALSE, !.ActiveFlag = TRUE], ok |-> TRUE]
      BY <1>2, <2>1 DEF Outcome
    <3>2. StoreOk(AddSaddr(r)) /\ AddSaddr(r)[Lan] = db[Lan]
      BY <2>1, AddSaddrOk
    <3>3. o.d = AddSaddr(r) /\ o.r = [r EXCEPT !.bNew = FALSE, !.ActiveFlag = TRUE]
      BY <3>1
    <3> QED BY <1>1, <3>2, <3>3, Zenon
  <2>2. CASE ~Addable(r)
    BY <1>2, <2>2 DEF Outcome
  <2> QED BY <2>1, <2>2
<1>3. CASE r.bEnabled /\ ~(r.bNew \/ ~r.ActiveFlag)
  <2>1. o = [d |-> SetSaddr(r), r |-> r, ok |-> r.lease # 0 /\ HostOf(r.id) # {}]
    BY <1>3 DEF Outcome
  <2>2. r.lease # 0 => StoreOk(SetSaddr(r)) /\ SetSaddr(r)[Lan] = db[Lan]
    BY SetSaddrOk
  <2>3. o.d = SetSaddr(r) /\ o.r = r
    BY <2>1
  <2>4. o.ok = (r.lease # 0 /\ HostOf(r.id) # {})
    BY <2>1
  <2> QED BY <2>2, <2>3, <2>4, Zenon
<1>4. CASE ~r.bEnabled /\ ~r.bNew /\ r.ActiveFlag
  <2>1. CASE HostOf(r.id) # {}
    <3>1. o = [d |-> DelSaddr(r.id), r |-> [r EXCEPT !.ActiveFlag = FALSE], ok |-> TRUE]
      BY <1>4, <2>1 DEF Outcome
    <3>2. StoreOk(DelSaddr(r.id)) /\ DelSaddr(r.id)[Lan] = db[Lan]
      BY <2>1, DelSaddrOk
    <3>3. o.d = DelSaddr(r.id) /\ o.r = [r EXCEPT !.ActiveFlag = FALSE]
      BY <3>1
    <3> QED BY <1>1, <3>2, <3>3, Zenon
  <2>2. CASE ~(HostOf(r.id) # {})
    BY <1>4, <2>2 DEF Outcome
  <2> QED BY <2>1, <2>2
<1>5. CASE ~r.bEnabled /\ ~(~r.bNew /\ r.ActiveFlag)
  <2>1. o = [d |-> db, r |-> [r EXCEPT !.ActiveFlag = FALSE], ok |-> TRUE]
    BY <1>5 DEF Outcome
  <2>2. o.d = db /\ o.r = [r EXCEPT !.ActiveFlag = FALSE]
    BY <2>1
  <2> QED BY <1>1, <2>2, Zenon
<1> QED BY <1>2, <1>3, <1>4, <1>5

LEMMA SessionTyped ==
    ASSUME TypedInv, UNCHANGED scenario, Validate \/ Commit \/ RollbackRow
    PROVE  TypedInv'
<1>1. TypeWeb' /\ TypeRest' /\ UNCHANGED reading /\ UNCHANGED maxIns /\ phase # "set"
  BY WebKept, RestKept DEF TypedInv, Validate, Commit, RollbackRow
<1>2. CASE Validate
  <2>1. UNCHANGED <<db, rows, maxIns>>
    BY <1>2 DEF Validate
  <2>2. SessionOk'
    BY <1>1, <1>2, <2>1, DoneTyped DEF Validate, TypedInv
  <2> QED BY <1>1, <2>1, <2>2 DEF TypedInv, TypeRows, RowsOk
<1>3. CASE Commit
  <2>1. PICK r \in rows :
          LET o == IF "macbinding" \in locked THEN [d |-> db, r |-> r, ok |-> FALSE] ELSE Outcome(r)
          IN  /\ db' = IF o.ok THEN o.d ELSE db
              /\ rows' = (rows \ {r}) \cup {o.r}
              /\ IF o.ok THEN Done(r.id, "set") ELSE Done(r.id, "set") \/ RollBack(todo \ {r.id})
    BY <1>3 DEF Commit
  <2> DEFINE o == IF "macbinding" \in locked THEN [d |-> db, r |-> r, ok |-> FALSE] ELSE Outcome(r)
  <2>2. r \in Row
    BY DEF TypedInv, TypeRows, RowsOk
  <2>3. o.r \in Row /\ o.r.id = r.id /\ (o.ok => StoreOk(o.d))
    BY <2>2, OutcomeOk DEF TypedInv
  <2>4. /\ db' = IF o.ok THEN o.d ELSE db
        /\ rows' = (rows \ {r}) \cup {o.r}
        /\ Done(r.id, "set") \/ RollBack(todo \ {r.id})
    BY <2>1
  <2> HIDE DEF o
  <2>5. StoreOk(db)'
    BY <2>3, <2>4 DEF TypedInv
  <2>6. RowsOk' /\ {s.id : s \in rows'} = {s.id : s \in rows}
    BY <1>1, <2>3, <2>4, RowWritten DEF TypedInv, TypeRows
  <2>7. SessionOk'
    BY <1>1, <2>4, <2>6, DoneTyped DEF TypedInv
  <2> QED BY <1>1, <2>5, <2>6, <2>7 DEF TypedInv, TypeRows
<1>4. CASE RollbackRow
  <2>1. PICK r \in rows :
          /\ rows' = (rows \ {r}) \cup
                {IF r.bNew THEN DefaultRow(r.id)
                 ELSE IF HostOf(r.id) = {} THEN r
                 ELSE [r EXCEPT !.lease = db[Host(CHOOSE i \in HostOf(r.id) : TRUE)],
                                !.ActiveFlag = TRUE, !.bEnabled = TRUE]}
          /\ Done(r.id, "set")
    BY <1>4 DEF RollbackRow
  <2> DEFINE i == CHOOSE i \in HostOf(r.id) : TRUE
             w == IF r.bNew THEN DefaultRow(r.id)
                  ELSE IF HostOf(r.id) = {} THEN r
                  ELSE [r EXCEPT !.lease = db[Host(i)], !.ActiveFlag = TRUE, !.bEnabled = TRUE]
  <2>2. r \in Row /\ StoreOk(db)
    BY DEF TypedInv, TypeRows, RowsOk
  <2>3. w \in Row /\ w.id = r.id
    <3>1. HostOf(r.id) # {} => db[Host(i)] \in Leases
      BY <2>2, StoreValues DEF HostOf, Hosts
    <3> HIDE DEF i
    <3> QED BY <2>2, <3>1 DEF Row, DefaultRow
  <2>4. rows' = (rows \ {r}) \cup {w}
    BY <2>1
  <2> HIDE DEF w
  <2>5. RowsOk' /\ {s.id : s \in rows'} = {s.id : s \in rows}
    BY <1>1, <2>3, <2>4, RowWritten DEF TypedInv, TypeRows
  <2>6. SessionOk'
    BY <1>1, <2>1, <2>5, DoneTyped DEF TypedInv
  <2>7. StoreOk(db)'
    BY <1>4, <2>2 DEF RollbackRow
  <2> QED BY <1>1, <2>5, <2>6, <2>7 DEF TypedInv, TypeRows
<1> QED BY <1>2, <1>3, <1>4

LEMMA LanTyped ==
    ASSUME TypedInv, UNCHANGED scenario, LanSet \/ LanCommit \/ LanRevert \/ SetBridgeMode
    PROVE  TypedInv'
<1>1. TypeWeb' /\ UNCHANGED <<sync, rows, maxIns, reading, session>>
  BY WebKept DEF TypedInv, LanSet, LanCommit, LanRevert, SetBridgeMode
<1>2. TypeRows'
  BY <1>1 DEF TypedInv, TypeRows, RowsOk, SessionOk, reading, session
<1>3. /\ db[Lan] \in Nat \cup {Unset} /\ lanRow \in {v \in Int : v >= Unset}
      /\ Atoi(lanRow) \in Nat /\ StoreOk(db)
  BY StoreValues DEF TypedInv, TypeRest, Atoi
<1>4. StoreOk(db)'
  BY <1>3, KeysOfHosts, ValuesOfKeys, StoreWrite DEF LanSet, LanCommit, LanRevert, SetBridgeMode
<1>5. lanRow' \in {v \in Int : v >= Unset}
  BY <1>3 DEF LanSet, LanCommit, LanRevert, ReadEntry, LeaveEntry, SetBridgeMode, lan
<1>6. lanOpen' \in BOOLEAN /\ bridge' \in BOOLEAN
  BY Zenon DEF LanSet, LanCommit, LanRevert, SetBridgeMode, lan, TypedInv, TypeRest
<1>8. unread' \in BOOLEAN
  BY DEF LanSet, LanCommit, LanRevert, ReadEntry, LeaveEntry, SetBridgeMode, lan, TypedInv, TypeRest
<1>9. failures' \in 0 .. scenario.failures
  <2>1. failures' = failures \/ (failures < scenario.failures /\ failures' = failures + 1)
    BY DEF LanSet, LanCommit, LanRevert, SetBridgeMode
  <2> QED BY <2>1, ScenarioTypes DEF TypedInv, TypeRest
<1>7. TypeRest'
  BY <1>1, <1>5, <1>6, <1>8, <1>9, Zenon DEF TypedInv, TypeRest
<1> QED BY <1>1, <1>2, <1>4, <1>7 DEF TypedInv

LEMMA TypedInductive == TypedInv /\ [Next]_vars => TypedInv'
<1> SUFFICES ASSUME TypedInv, [Next]_vars PROVE TypedInv'
  OBVIOUS
<1>1. CASE UNCHANGED vars
  <2>1. UNCHANGED <<scenario, db, locked, web, failures, sync, lan, bridge>> /\ UNCHANGED dataModel
    BY <1>1 DEF vars, system, dataModel, web
  <2>2. TypeRest' /\ TypeWeb' /\ TypeRows'
    BY <2>1, WebKept, RestKept, RowsKept DEF TypedInv
  <2> QED BY <2>1, <2>2 DEF TypedInv
<1>2. CASE Next
  BY <1>2, PushTyped, StartTyped, LoopTyped, TurnTyped, RollbackEndsTyped, SyncTyped, TableTyped,
     SessionTyped, LanTyped DEF Next, Blobwork
<1> QED BY <1>1, <1>2

\* The two threads never write a host beyond the bound, an unset value into a
\* buffer, or a second row of the same number, and nobody waits for a row that
\* is gone, whatever their interleaving and whatever calls fail
\* (cosa_dhcpv4_webconfig_apis.c, StaticAddress_Synchronize, StaticAddress_Commit).
THEOREM LeaseTypes == Spec => []TypeOK
<1>1. TypedInv => TypeOK
  BY TypedIsTypeOK
<1> QED BY <1>1, InitTyped, TypedInductive, PTL DEF Spec

----------------------------------------------------------------------------
(* The request in hand.                                                     *)

\* The mutex of the sub-document is held from the backup to the end of the
\* loops, and again for the rollback; no other is.
Locks ==
    locked = IF pc \in {"clear", "apply", "restore", "unused"} THEN {Doc} ELSE {}

\* What a rollback may be for, and what a refused blob leaves in the buffers.
Origins ==
    /\ origin = "none" <=> pc \in {"idle", "start", "clear", "apply"}
    /\ origin = "invalid" => DOMAIN bkup = {} /\ received = 0
    /\ pc \in {"idle", "start", "rollback", "unused"} => pending = {}

\* The backup is the one of the request in hand.
BackedUp == pc \in {"clear", "apply"} \/ (pc \in {"rollback", "restore", "unused"} /\ origin = "failed")

\* Without "table" among the clients nobody touches a row.
NoSession == "table" \notin scenario.clients => phase = "set" /\ touched = {}

KeysOf(doc) == IF doc = "lan" THEN {Lan} ELSE Keys \ {Lan}

\* A request reads and writes the keys of its own sub-document.
OwnKeys ==
    BackedUp => DOMAIN bkup \subseteq KeysOf(Doc) /\ pending \subseteq KeysOf(Doc)

RequestInv == Locks /\ Origins /\ NoSession /\ OwnKeys

\* The steps of the data-model thread.
Clients ==
    \/ SyncBegins \/ SyncReads \/ AddEntry \/ DelEntry \/ SetParamValue
    \/ BeginCommit \/ Validate \/ Commit \/ RollbackRow
    \/ LanSet \/ LanCommit \/ LanRevert \/ SetBridgeMode

LEMMA ClientsLeave ==
    ASSUME Clients
    PROVE  UNCHANGED <<web, locked>>
BY DEF Clients, SyncBegins, SyncReads, AddEntry, DelEntry, SetParamValue, BeginCommit, Validate,
       Commit, RollbackRow, LanSet, LanCommit, LanRevert, SetBridgeMode

LEMMA BackupKeys ==
    ASSUME StoreOk(db), NEW doc \in Docs
    PROVE  DOMAIN BackupFromDb(doc) \subseteq KeysOf(doc)
<1>1. CASE doc = "lan"
  BY <1>1 DEF BackupFromDb, KeysOf
<1>2. CASE doc # "lan"
  <2>1. DOMAIN BackupFromDb(doc) \subseteq StaticKeys(Atoi(db[Count])) \cup Comments
    BY <1>2, CommentKeysAreComments DEF BackupFromDb
  <2>2. StaticKeys(Atoi(db[Count])) \subseteq Keys /\ Comments \subseteq Keys
    BY StaticKeysAreKeys, StoreValues, KeysOfHosts
  <2>3. Lan \notin StaticKeys(Atoi(db[Count])) /\ Lan \notin Comments
    BY KeysDiffer, CommentsDiffer DEF StaticKeys
  <2> QED BY <1>2, <2>1, <2>2, <2>3 DEF KeysOf
<1> QED BY <1>1, <1>2

LEMMA ConfKeys ==
    ASSUME NEW v \in Versions
    PROVE  DOMAIN UpdateConfToCache(Blobs[v]) \subseteq KeysOf(Blobs[v].doc)
<1>1. CASE Blobs[v].doc = "lan"
  BY <1>1 DEF UpdateConfToCache, KeysOf
<1>2. CASE Blobs[v].doc # "lan"
  <2>1. Lan \notin StaticKeys(Len(Blobs[v].leases))
    BY KeysDiffer DEF StaticKeys
  <2> QED BY <1>2, <2>1, ConfTable, ConfOk DEF KeysOf, BufferOk
<1> QED BY <1>1, <1>2

LEMMA SessionKept ==
    ASSUME NoSession, [Next]_vars
    PROVE  NoSession'
<1>1. scenario' = scenario
  BY DEF Next, vars
<1>2. CASE UNCHANGED session
  BY <1>1, <1>2 DEF NoSession, session
<1>3. CASE ~UNCHANGED session
  <2>1. CASE DelEntry \/ SetParamValue
    BY <1>1, <2>1 DEF DelEntry, SetParamValue, NoSession
  <2>2. CASE BeginCommit \/ Validate \/ Commit \/ RollbackRow
    BY <1>1, <2>2 DEF BeginCommit, Validate, Commit, RollbackRow, NoSession
  <2>3. CASE Push \/ Blobwork
    BY <1>3, <2>3 DEF Push, Blobwork, RefuseInBridgeMode, RefuseInvalid, Backup, ClearKey, Cleared,
                      ApplyKey, Applied, Rollback, RestoreKey, Restored, RollbackEnds, dataModel
  <2>4. CASE UNCHANGED vars
    BY <1>3, <2>4 DEF vars, system
  <2> QED BY <1>3, <2>1, <2>2, <2>3, <2>4 DEF Next, SyncBegins, SyncReads, AddEntry, LanSet, LanCommit,
                                          LanRevert, SetBridgeMode
<1> QED BY <1>2, <1>3

LEMMA RequestInit == Init => RequestInv
BY NoBackupOk DEF Init, RequestInv, Locks, Origins, NoSession, OwnKeys, BackedUp

LEMMA RequestInductive ==
    ASSUME TypedInv, RequestInv, [Next]_vars
    PROVE  RequestInv'
<1> USE DEF RequestInv
<1>1. /\ pc # "idle" => blob \in Versions /\ Doc \in Docs
      /\ pc = "restore" => pending \subseteq DOMAIN bkup
  BY DEF TypedInv, TypeWeb, Doc, Blob
<1>2. NoSession'
  BY SessionKept
<1>3. CASE UNCHANGED <<web, locked>>
  BY <1>2, <1>3 DEF web, Locks, Origins, OwnKeys, BackedUp, Doc
<1>4. CASE Push
  BY <1>2, <1>4 DEF Push, Locks, Origins, OwnKeys, BackedUp
<1>5. CASE RefuseInBridgeMode
  BY <1>2, <1>5 DEF RefuseInBridgeMode, Locks, Origins, OwnKeys, BackedUp
<1>6. CASE RefuseInvalid
  BY <1>2, <1>6, NoBackupOk DEF RefuseInvalid, Locks, Origins, OwnKeys, BackedUp
<1>7. CASE Backup
  <2>1. DOMAIN bkup' \subseteq KeysOf(Doc)
    BY <1>1, <1>7, BackupKeys DEF Backup, TypedInv
  <2> QED BY <1>2, <1>7, <2>1 DEF Backup, Locks, Origins, OwnKeys, BackedUp, Doc
<1>8. ASSUME Fail, pc \in {"clear", "apply"}, UNCHANGED <<blob, bkup, received>>
      PROVE  RequestInv'
  BY <1>2, <1>8 DEF Fail, Locks, Origins, OwnKeys, BackedUp, Doc
<1>9. ASSUME Ends, pc \in {"clear", "apply", "unused"}, pending = {}, UNCHANGED <<bkup, pending>>
      PROVE  RequestInv'
  BY <1>2, <1>9 DEF Ends, Locks, Origins, OwnKeys, BackedUp
<1>10. ASSUME UNCHANGED <<locked, blob, bkup, received, origin>>, pending' \subseteq pending,
              pc \in {"clear", "apply", "restore"}, pc' = pc \/ (pc' = "unused" /\ pending' = {}),
              pc' # pc => pc = "restore"
       PROVE  RequestInv'
  BY <1>2, <1>10 DEF Locks, Origins, OwnKeys, BackedUp, Doc
<1>11. CASE ClearKey
  BY <1>8, <1>10, <1>11 DEF ClearKey, Unsets
<1>12. CASE ApplyKey
  BY <1>8, <1>10, <1>12 DEF ApplyKey, Sets
<1>13. CASE RestoreKey
  BY <1>10, <1>13 DEF RestoreKey, Sets
<1>14. CASE Restored
  BY <1>10, <1>14 DEF Restored
<1>15. CASE Cleared
  <2>1. CASE /\ pending' = DOMAIN UpdateConfToCache(Blobs[blob])
             /\ pc' = "apply"
             /\ UNCHANGED <<locked, blob, origin>>
    <3>1. pending' \subseteq KeysOf(Doc)
      BY <1>1, <1>15, <2>1, ConfKeys DEF Cleared, Doc
    <3> QED BY <1>2, <1>15, <2>1, <3>1 DEF Cleared, Locks, Origins, OwnKeys, BackedUp, Doc
  <2> QED BY <1>8, <1>9, <1>15, <2>1 DEF Cleared
<1>16. CASE Applied
  <2>1. CASE Ends
    BY <1>9, <1>16, <2>1 DEF Applied, Fail, Ends
  <2>2. CASE Fail
    BY <1>8, <1>16, <2>2 DEF Applied, Fail, Ends
  <2> QED BY <1>16, <2>1, <2>2 DEF Applied
<1>17. CASE Rollback
  BY <1>2, <1>17 DEF Rollback, Locks, Origins, OwnKeys, BackedUp, Doc
<1>18. CASE RollbackEnds
  BY <1>9, <1>18 DEF RollbackEnds, Origins
<1>19. CASE Clients
  BY <1>3, <1>19, ClientsLeave
<1>20. CASE UNCHANGED vars
  BY <1>3, <1>20 DEF vars, system
<1> QED BY <1>4, <1>5, <1>6, <1>7, <1>11, <1>12, <1>13, <1>14, <1>15, <1>16, <1>17, <1>18, <1>19, <1>20
        DEF Next, Blobwork, Clients

LEMMA RequestsTyped == Spec => [](TypedInv /\ RequestInv)
<1>1. TypedInv /\ RequestInv /\ [Next]_vars => (TypedInv /\ RequestInv)'
  BY TypedInductive, RequestInductive
<1> QED BY <1>1, InitTyped, RequestInit, PTL DEF Spec

----------------------------------------------------------------------------
(* A blob that was found invalid.                                           *)

\* Hosts and their leases are the same when their keys are.
LEMMA SameLeases ==
    ASSUME NEW d, NEW e,
           \A k \in Keys : k[1] \in {"count", "host"} => e[k] = d[k]
    PROVE  Hosts(e) = Hosts(d) /\ LeasesIn(e) = LeasesIn(d)
<1>1. e[Count] = d[Count] /\ \A i \in 1 .. MaxHosts : e[Host(i)] = d[Host(i)]
  BY KeysOfHosts, KeysDiffer
<1>2. Hosts(e) = Hosts(d)
  BY <1>1 DEF Hosts
<1> QED BY <1>1, <1>2 DEF LeasesIn, Hosts

LEMMA UnsetHostsKeeps ==
    ASSUME StoreOk(db), NEW I
    PROVE  /\ UnsetHosts(I)[Lan] = db[Lan] /\ UnsetHosts(I)[Count] = db[Count]
           /\ \A i \in 1 .. MaxHosts :
                 UnsetHosts(I)[Host(i)] = IF i \in I THEN Unset ELSE db[Host(i)]
           /\ I = {} => UnsetHosts(I) = db
<1>1. \A k \in Keys : UnsetHosts(I)[k] = IF k \in {Host(i) : i \in I} \cup {Ins(i) : i \in I}
                                         THEN Unset ELSE db[k]
  BY DEF UnsetHosts
<1>2. UnsetHosts({}) = db
  BY DEF UnsetHosts, StoreOk
<1>3. UnsetHosts(I)[Lan] = db[Lan] /\ UnsetHosts(I)[Count] = db[Count]
  BY <1>1, KeysOfHosts, KeysDiffer
<1>4. ASSUME NEW i \in 1 .. MaxHosts
      PROVE  UnsetHosts(I)[Host(i)] = IF i \in I THEN Unset ELSE db[Host(i)]
  BY <1>1, KeysOfHosts, KeysDiffer
<1>5. I = {} => UnsetHosts(I) = db
  BY <1>2
<1> QED BY <1>3, <1>4, <1>5

LEMMA NoParameters ==
    ASSUME NEW b, DOMAIN b = {}
    PROVE  NumOfParam(b) = 0
<1>1. Cardinality({}) = 0
  BY FS_EmptySet
<1>2. /\ {k \in DOMAIN b : k[1] # "comment"} = {} /\ {k \in DOMAIN b : k[1] = "ins"} = {}
      /\ DOMAIN b \cap {Lan} = {} /\ {k \in DOMAIN b : k[1] = "host" /\ Comment(b[k]) \in DOMAIN b} = {}
  OBVIOUS
<1> QED BY <1>1, <1>2 DEF NumOfParam

LEMMA InvalidStep ==
    ASSUME TypedInv, RequestInv, [Next]_vars,
           origin = "invalid", pc \in {"restore", "unused"}, <<pc, pending>> # <<pc, pending>>'
    PROVE  LeasesIn(db') = LeasesIn(db) /\ db'[Lan] = db[Lan]
<1>1. DOMAIN bkup = {} /\ received = 0 /\ pending = {}
  BY DEF RequestInv, Origins, TypedInv, TypeWeb
<1>2. NotUsed = {}
  BY <1>1, NoParameters DEF NotUsed
<1>3. Restored \/ RollbackEnds
  BY <1>1, ClientsLeave DEF Next, Blobwork, Clients, Push, RefuseInBridgeMode, RefuseInvalid, Backup,
     ClearKey, Cleared, ApplyKey, Applied, Rollback, RestoreKey, web, vars, system
<1>4. db' = db
  <2>1. CASE Restored
    BY <2>1 DEF Restored
  <2>2. CASE RollbackEnds
    BY <1>2, <2>2, UnsetHostsKeeps DEF RollbackEnds, TypedInv
  <2> QED BY <1>3, <2>1, <2>2
<1> QED BY <1>4

\* The rollback of a blob that was found invalid changes no lease and no LAN
\* setting, whatever both sub-documents left in their common buffers before
\* (Dhcpv4_Reset_Cache, Dhcpv4_StaticClients_UnsetNotUsedParamFromDb).
THEOREM InvalidIsHarmless == Spec => InvalidBlobChangesNothing
<1>1. TypedInv /\ RequestInv /\ [Next]_vars
      => [origin = "invalid" /\ pc \in {"restore", "unused"} /\ <<pc, pending>> # <<pc, pending>>'
            => LeasesIn(db') = LeasesIn(db) /\ db'[Lan] = db[Lan]]_vars
  BY InvalidStep
<1> QED BY <1>1, RequestsTyped, PTL DEF Spec, InvalidBlobChangesNothing

----------------------------------------------------------------------------
(* The LAN entry.                                                           *)

\* Without bridge mode a rollback has the buffers of its own request or empty
\* ones, and only a LAN blob lets the store run ahead of the entry.
LanInv ==
    "bridge" \notin scenario.clients =>
        /\ bridge = FALSE /\ origin # "bridge"
        /\ ~lanOpen /\ ~unread /\ (pc \in {"idle", "start"} \/ Doc = "macbinding") => lanRow = db[Lan]

\* The settings of the LAN are not among the keys of a macbinding request.
LEMMA LoopsKeepLan ==
    ASSUME TypedInv, RequestInv, origin # "bridge", Doc = "macbinding",
           ClearKey \/ ApplyKey \/ RestoreKey
    PROVE  db'[Lan] = db[Lan]
<1>1. BackedUp \/ pending = {}
  BY DEF RequestInv, Origins, ClearKey, ApplyKey, RestoreKey, BackedUp, TypedInv, TypeWeb
<1>2. Lan \notin pending
  BY <1>1 DEF RequestInv, OwnKeys, KeysOf
<1>3. CASE \E k \in pending : db' = [db EXCEPT ![k] = Unset]
  BY <1>2, <1>3, KeysOfHosts DEF TypedInv, StoreOk
<1>4. CASE \E k \in pending : db' = [db EXCEPT ![k] = UpdateConfToCache(Blobs[blob])[k]]
  BY <1>2, <1>4, KeysOfHosts DEF TypedInv, StoreOk
<1>5. CASE \E k \in pending : db' = [db EXCEPT ![k] = bkup[k]]
  BY <1>2, <1>5, KeysOfHosts DEF TypedInv, StoreOk
<1> QED BY <1>3, <1>4, <1>5 DEF ClearKey, ApplyKey, RestoreKey, Unsets, Sets, Fail

\* The handlers of the table leave the LAN settings alone.
LEMMA TableKeepsLan ==
    ASSUME TypedInv, Clients, ~LanSet, ~LanCommit, ~LanRevert
    PROVE  db'[Lan] = db[Lan] /\ UNCHANGED lan
<1>1. CASE SyncBegins \/ AddEntry \/ SetParamValue \/ BeginCommit \/ Validate \/ RollbackRow
           \/ SetBridgeMode
  BY <1>1 DEF SyncBegins, AddEntry, SetParamValue, BeginCommit, Validate, RollbackRow, SetBridgeMode
<1>2. CASE SyncReads
  <2>1. db' = db \/ \E v : db' = [db EXCEPT ![Ins(spos)] = v]
    BY <1>2 DEF SyncReads
  <2> QED BY <1>2, <2>1, KeysOfHosts, KeysDiffer DEF SyncReads, TypedInv, StoreOk
<1>3. CASE DelEntry
  BY <1>3, DelSaddrOk DEF DelEntry, TypedInv
<1>4. CASE Commit
  <2>1. PICK r \in rows :
          LET o == IF "macbinding" \in locked THEN [d |-> db, r |-> r, ok |-> FALSE] ELSE Outcome(r)
          IN  db' = IF o.ok THEN o.d ELSE db
    BY <1>4 DEF Commit
  <2>2. r \in Row
    BY DEF TypedInv, TypeRows, RowsOk
  <2>3. Outcome(r).ok => Outcome(r).d[Lan] = db[Lan]
    BY <2>2, OutcomeOk DEF TypedInv
  <2>4. db' = db \/ (Outcome(r).ok /\ db' = Outcome(r).d)
    BY <2>1
  <2>5. db'[Lan] = db[Lan]
    BY <2>3, <2>4
  <2> QED BY <1>4, <2>5 DEF Commit
<1> QED BY <1>1, <1>2, <1>3, <1>4 DEF Clients

LEMMA LanInductive ==
    ASSUME TypedInv, RequestInv, LanInv, [Next]_vars
    PROVE  LanInv'
<1>1. scenario' = scenario
  BY DEF Next, vars
<1> SUFFICES ASSUME "bridge" \notin scenario.clients
             PROVE  /\ bridge' = FALSE /\ origin' # "bridge"
                    /\ ~lanOpen' /\ ~unread' /\ (pc' \in {"idle", "start"} \/ Doc' = "macbinding")
                         => lanRow' = db'[Lan]
  BY <1>1 DEF LanInv
<1>2. /\ bridge = FALSE /\ origin # "bridge"
      /\ ~lanOpen /\ ~unread /\ (pc \in {"idle", "start"} \/ Doc = "macbinding") => lanRow = db[Lan]
      /\ pc # "idle" => Doc \in Docs
      /\ StoreOk(db)
  BY DEF LanInv, TypedInv, TypeWeb, Doc, Blob
<1> DEFINE Ok == /\ bridge' = FALSE /\ origin' # "bridge"
                 /\ ~lanOpen' /\ ~unread' /\ (pc' \in {"idle", "start"} \/ Doc' = "macbinding")
                      => lanRow' = db'[Lan]
<1>3. ASSUME UNCHANGED <<lan, blob, bridge>> \/ (UNCHANGED <<blob, bridge>> /\ Doc = "lan"), Doc = "macbinding" => db'[Lan] = db[Lan],
             origin' # "bridge", pc # "idle", pc' \notin {"idle", "start"}
      PROVE  Ok
  BY <1>2, <1>3 DEF lan, Doc
<1>4. ASSUME Ends, Synchronize, UNCHANGED bridge, pc # "idle",
             Doc = "lan" => db' = db, Doc = "macbinding" => db'[Lan] = db[Lan]
      PROVE  Ok
  BY <1>2, <1>4 DEF Ends, Synchronize, ReadEntry, Docs
<1>5. ASSUME Fail, UNCHANGED <<blob, bridge>>, UNCHANGED lan \/ Doc = "lan", pc # "idle"
      PROVE  Ok
  BY <1>3, <1>5 DEF Fail
<1>6. CASE Push
  BY <1>2, <1>6 DEF Push, lan
<1>7. CASE RefuseInBridgeMode
  BY <1>2, <1>7 DEF RefuseInBridgeMode
<1>8. CASE RefuseInvalid \/ Backup \/ Rollback \/ Restored
  BY <1>2, <1>3, <1>8 DEF RefuseInvalid, Backup, Rollback, Restored, dataModel
<1>9. CASE ClearKey \/ ApplyKey \/ RestoreKey
  <2>1. Doc = "macbinding" => db'[Lan] = db[Lan]
    BY <1>2, <1>9, LoopsKeepLan
  <2>2. UNCHANGED <<blob, bridge>> /\ pc # "idle" /\ UNCHANGED lan
    BY <1>9 DEF ClearKey, ApplyKey, RestoreKey, Fail, dataModel
  <2>3. pc' \notin {"idle", "start"} /\ origin' # "bridge"
    BY <1>2, <1>9 DEF ClearKey, ApplyKey, RestoreKey, Fail
  <2> QED BY <1>3, <2>1, <2>2, <2>3
<1>10. CASE Cleared \/ Applied
  <2>1. UNCHANGED <<db, bridge>> /\ pc # "idle"
    BY <1>10 DEF Cleared, Applied, Fail, dataModel
  <2>2. CASE Synchronize /\ Ends
    BY <1>4, <2>1, <2>2
  <2>3. CASE ~(Synchronize /\ Ends)
    BY <1>2, <1>3, <1>5, <1>10, <2>1, <2>3 DEF Cleared, Applied, lan
  <2> QED BY <2>2, <2>3
<1>11. CASE RollbackEnds
  <2>1. CASE Synchronize
    BY <1>2, <1>4, <1>11, <2>1, UnsetHostsKeeps DEF RollbackEnds, dataModel, Docs
  <2>2. CASE LeaveEntry
    BY <1>2, <1>11, <2>2 DEF RollbackEnds, LeaveEntry, Ends, dataModel
  <2> QED BY <1>11, <2>1, <2>2 DEF RollbackEnds
<1>12. CASE Clients
  <2>1. UNCHANGED <<pc, blob, origin>> /\ Doc' = Doc
    BY <1>12, ClientsLeave DEF web, Doc
  <2>2. CASE LanSet \/ LanRevert
    BY <1>2, <2>1, <2>2 DEF LanSet, LanRevert, ReadEntry, LeaveEntry
  <2>3. CASE LanCommit
    <3>1. "lan" \in locked => ~(pc \in {"idle", "start"} \/ Doc = "macbinding")
      BY DEF RequestInv, Locks
    <3>2. "lan" \notin locked => db'[Lan] = lanRow'
      BY <1>2, <2>3, KeysOfHosts DEF LanCommit, StoreOk
    <3> QED BY <1>2, <2>1, <2>3, <3>1, <3>2 DEF LanCommit
  <2>4. CASE ~LanSet /\ ~LanCommit /\ ~LanRevert
    <3>1. db'[Lan] = db[Lan] /\ UNCHANGED lan
      BY <1>12, <2>4, TableKeepsLan
    <3>2. bridge' = bridge
      BY <1>12, <2>4 DEF Clients, SyncBegins, SyncReads, AddEntry, DelEntry, SetParamValue, BeginCommit,
                        Validate, Commit, RollbackRow, SetBridgeMode
    <3> QED BY <1>2, <2>1, <3>1, <3>2 DEF lan
  <2> QED BY <2>2, <2>3, <2>4
<1>13. CASE UNCHANGED vars
  BY <1>2, <1>13 DEF vars, system, web, lan, Doc
<1> QED BY <1>6, <1>7, <1>8, <1>9, <1>10, <1>11, <1>12, <1>13 DEF Next, Blobwork, Clients

\* Without bridge mode the LAN entry of the data model is the stored one
\* whenever no blob is in hand, nothing is staged and the last attempt to read
\* the entry did not fail: neither a commit that the mutex refuses nor a blob
\* that fails at any call leaves values of its own in it, and an entry that
\* could not be read is right again after the next commit or blob
\* (LanMngm_Commit, LanMngm_Rollback, Dhcpv4_Lan_Synchronize, rollback_Lan).
THEOREM LanEntryIsStored == Spec => []LanEntryCurrent
<1>1. Init => LanInv
  <2>1. Lan \notin Comments /\ Lan \in Keys /\ Lan # Count
    BY CommentsDiffer, KeysOfHosts, KeysDiffer
  <2>2. Init => db[Lan] = 0
    BY <2>1 DEF Init
  <2> QED BY <2>2 DEF Init, LanInv
<1>2. TypedInv /\ RequestInv /\ LanInv /\ [Next]_vars => LanInv'
  BY LanInductive
<1>3. LanInv => LanEntryCurrent
  BY DEF LanInv, LanEntryCurrent
<1> QED BY <1>1, <1>2, <1>3, RequestsTyped, PTL DEF Spec

----------------------------------------------------------------------------
(* What a macbinding blob leaves.                                           *)

\* The keys of the table that have been written hold what the buffer says, but
\* for the numbers of hosts, which Synchronize may write as well.
Written(buffer) == \A k \in DOMAIN buffer \ pending : k[1] \in {"count", "host"} => db[k] = buffer[k]

ApplyInv ==
    /\ pc = "clear" /\ Doc = "macbinding" => Count \in pending \/ db[Count] = Unset
    /\ pc = "apply" /\ Doc = "macbinding" => Written(UpdateConfToCache(Blobs[blob]))

\* While the mutex is taken, or when nobody touches a row, the count and the
\* leases belong to the WebConfig thread.
LEMMA ClientsKeepHosts ==
    ASSUME TypedInv, Clients, "macbinding" \in locked \/ (phase = "set" /\ touched = {} /\ NoSession
                                                       /\ "table" \notin scenario.clients)
    PROVE  \A k \in Keys : k[1] \in {"count", "host"} => db'[k] = db[k]
<1> SUFFICES ASSUME NEW k \in Keys, k[1] \in {"count", "host"} PROVE db'[k] = db[k]
  OBVIOUS
<1>1. k # Lan /\ \A i : k # Ins(i)
  BY KeysDiffer
<1>2. CASE SyncBegins \/ AddEntry \/ SetParamValue \/ BeginCommit \/ Validate \/ RollbackRow
           \/ LanSet \/ LanRevert \/ SetBridgeMode
  BY <1>2 DEF SyncBegins, AddEntry, SetParamValue, BeginCommit, Validate, RollbackRow, LanSet, LanRevert,
              SetBridgeMode
<1>3. CASE SyncReads
  <2>1. db' = db \/ \E v : db' = [db EXCEPT ![Ins(spos)] = v]
    BY <1>3 DEF SyncReads
  <2> QED BY <1>1, <2>1 DEF TypedInv, StoreOk
<1>4. CASE LanCommit
  BY <1>1, <1>4 DEF LanCommit, TypedInv, StoreOk
<1>5. CASE Commit
  BY <1>5 DEF Commit
<1>6. CASE DelEntry
  BY <1>6 DEF DelEntry
<1> QED BY <1>2, <1>3, <1>4, <1>5, <1>6 DEF Clients

LEMMA WrittenKept ==
    ASSUME NEW buffer, DOMAIN buffer \subseteq KeysOf("macbinding"), Written(buffer), UNCHANGED pending,
           \A k \in Keys : k[1] \in {"count", "host"} => db'[k] = db[k]
    PROVE  \A k \in DOMAIN buffer \ pending' : k[1] \in {"count", "host"} => db'[k] = buffer[k]
<1> SUFFICES ASSUME NEW k \in DOMAIN buffer \ pending, k[1] \in {"count", "host"}
             PROVE  db'[k] = buffer[k]
  OBVIOUS
<1>1. k \in Keys
  BY DEF KeysOf
<1> QED BY <1>1 DEF Written

LEMMA WrittenOn ==
    ASSUME StoreOk(db), NEW buffer, DOMAIN buffer \subseteq Keys, Written(buffer),
           NEW k \in pending, Sets(k, buffer), pending \subseteq DOMAIN buffer
    PROVE  \A l \in DOMAIN buffer \ pending' : l[1] \in {"count", "host"} => db'[l] = buffer[l]
BY DEF Sets, Written, StoreOk

LEMMA ApplyInductive ==
    ASSUME TypedInv, RequestInv, ApplyInv, [Next]_vars
    PROVE  ApplyInv'
<1> DEFINE c == UpdateConfToCache(Blobs[blob])
<1>1. pc # "idle" => blob \in Versions /\ BufferOk(c)
  BY ConfOk DEF TypedInv, TypeWeb
<1>2. ASSUME pc' \notin {"clear", "apply"} PROVE ApplyInv'
  BY <1>2 DEF ApplyInv
<1>3. CASE Backup
  <2>1. Doc = "macbinding" => Count \in StaticKeys(Atoi(db[Count]))
    BY DEF StaticKeys
  <2>2. Doc = "macbinding" => (Count \in pending' \/ db'[Count] = Unset)
    BY <1>3, <2>1 DEF Backup, BackupFromDb
  <2> QED BY <1>3, <2>2 DEF Backup, ApplyInv, Doc
<1>4. CASE ClearKey
  <2>1. CASE \E k \in pending : Unsets(k)
    BY <1>4, <2>1, KeysOfHosts DEF ClearKey, Unsets, ApplyInv, TypedInv, StoreOk, Doc, Fail
  <2>2. CASE Fail
    BY <1>2, <2>2 DEF Fail
  <2> QED BY <1>4, <2>1, <2>2 DEF ClearKey
<1>5. CASE Cleared
  <2>1. CASE /\ pending' = DOMAIN c
             /\ pc' = "apply"
             /\ UNCHANGED blob
    BY <2>1 DEF ApplyInv, Written
  <2> QED BY <1>2, <1>5, <2>1 DEF Cleared, Ends, Fail
<1>6. CASE ApplyKey
  <2>1. ASSUME NEW k \in pending, Sets(k, c), pc' = pc
        PROVE  ApplyInv'
    <3>1. blob' = blob /\ pc = "apply" /\ pending \subseteq DOMAIN c
      BY <1>6 DEF ApplyKey, TypedInv, TypeWeb
    <3>2. Doc = "macbinding" => Written(c)
      BY <3>1 DEF ApplyInv
    <3>3. Doc = "macbinding" => \A l \in DOMAIN c \ pending' : l[1] \in {"count", "host"} => db'[l] = c[l]
      BY <1>1, <2>1, <3>1, <3>2, WrittenOn DEF TypedInv, BufferOk
    <3> QED BY <2>1, <3>1, <3>3 DEF ApplyInv, Written, Doc
  <2>2. CASE Fail
    BY <1>2, <2>2 DEF Fail
  <2> QED BY <1>6, <2>1, <2>2 DEF ApplyKey
<1>7. CASE Clients
  <2>1. UNCHANGED <<pc, blob, pending>>
    BY <1>7, ClientsLeave DEF web
  <2>2. CASE pc \in {"clear", "apply"} /\ Doc = "macbinding"
    <3>1. "macbinding" \in locked
      BY <2>2 DEF RequestInv, Locks
    <3>2. \A k \in Keys : k[1] \in {"count", "host"} => db'[k] = db[k]
      BY <1>7, <3>1, ClientsKeepHosts
    <3>3. db'[Count] = db[Count]
      BY <3>2, KeysOfHosts, KeysDiffer
    <3>4. DOMAIN c \subseteq KeysOf("macbinding")
      BY <1>1, <2>2, ConfKeys DEF Doc
    <3>5. pc = "apply" => \A k \in DOMAIN c \ pending' : k[1] \in {"count", "host"} => db'[k] = c[k]
      BY <2>1, <2>2, <3>2, <3>4, WrittenKept DEF ApplyInv
    <3> QED BY <2>1, <3>3, <3>5 DEF ApplyInv, Written, Doc
  <2> QED BY <2>1, <2>2 DEF ApplyInv, Doc
<1>8. CASE UNCHANGED vars
  BY <1>8 DEF vars, system, web, ApplyInv, Written, Doc
<1> QED BY <1>2, <1>3, <1>4, <1>5, <1>6, <1>7, <1>8
        DEF Next, Blobwork, Clients, Push, RefuseInBridgeMode, RefuseInvalid, Applied, Rollback, RestoreKey,
            Restored, RollbackEnds, Ends, Fail

\* A store with a count and all its hosts has exactly their leases.
LEMMA LeasesOfHosts ==
    ASSUME NEW d, NEW n \in 0 .. MaxHosts,
           d[Count] = n, \A i \in 1 .. n : d[Host(i)] # Unset
    PROVE  LeasesIn(d) = {d[Host(i)] : i \in 1 .. n}
<1>1. Atoi(d[Count]) = n
  BY DEF Atoi
<1>2. Hosts(d) = 1 .. n
  BY <1>1 DEF Hosts
<1> QED BY <1>2 DEF LeasesIn

LEMMA AppliedStep ==
    ASSUME TypedInv, RequestInv, ApplyInv, [Next]_vars,
           pc' = "idle", pc \in {"clear", "apply"}, Doc = "macbinding"
    PROVE  LeasesIn(db') = {Blobs[blob].leases[i] : i \in DOMAIN Blobs[blob].leases}
<1> DEFINE s == Blobs[blob].leases
           n == Len(s)
<1>1. Cleared \/ Applied
  BY ClientsLeave DEF Next, Blobwork, Clients, Push, RefuseInBridgeMode, RefuseInvalid, Backup, ClearKey,
     ApplyKey, Rollback, RestoreKey, Restored, RollbackEnds, Fail, web, vars, system
<1>2. /\ blob \in Versions /\ s \in Seq(Leases) /\ n \in 0 .. MaxHosts /\ DOMAIN s = 1 .. n
      /\ \A i \in 1 .. n : s[i] \in Leases
  BY DEF TypedInv, TypeWeb, Blob
<1>3. db' = db /\ pending = {}
  BY <1>1 DEF Cleared, Applied, Fail
<1>4. CASE Cleared
  <2>1. s = <<>> /\ db[Count] = Unset
    BY <1>3, <1>4 DEF Cleared, Fail, ApplyInv
  <2>2. Hosts(db) = {}
    BY <2>1 DEF Hosts, Atoi
  <2> QED BY <1>3, <2>1, <2>2 DEF LeasesIn
<1>5. CASE Applied
  <2> DEFINE c == UpdateConfToCache(Blobs[blob])
  <2>1. /\ DOMAIN c = StaticKeys(n) /\ c[Count] = n /\ \A i \in 1 .. n : c[Host(i)] = s[i]
    BY ConfTable DEF Doc
  <2>2. \A k \in DOMAIN c : k[1] \in {"count", "host"} => db[k] = c[k]
    BY <1>3, <1>5 DEF Applied, ApplyInv, Written
  <2> HIDE DEF c
  <2>3. db[Count] = n /\ \A i \in 1 .. n : db[Host(i)] = s[i]
    BY <2>1, <2>2, KeysDiffer DEF StaticKeys
  <2>4. \A i \in 1 .. n : s[i] # Unset
    BY <1>2
  <2>5. LeasesIn(db) = {db[Host(i)] : i \in 1 .. n}
    BY <1>2, <2>3, <2>4, LeasesOfHosts
  <2>6. {db[Host(i)] : i \in 1 .. n} = {s[i] : i \in DOMAIN s}
    BY <1>2, <2>3
  <2> QED BY <1>3, <2>5, <2>6
<1> QED BY <1>1, <1>4, <1>5

\* A macbinding blob that is applied leaves exactly its leases, for every
\* table, every blob and every interleaving with the handlers of the table:
\* Add, Set, Validate and Synchronize do not write the keys that it writes
\* (Process_StaticClients_WebConfigRequest, Dhcpv4_StaticClients_MutexTryLock).
THEOREM BlobIsApplied == Spec => AppliedAsAsked
<1>1. Init => ApplyInv
  BY DEF Init, ApplyInv
<1>2. TypedInv /\ RequestInv /\ ApplyInv /\ [Next]_vars => ApplyInv'
  BY ApplyInductive
<1>3. TypedInv /\ RequestInv /\ ApplyInv /\ [Next]_vars
      => [pc' = "idle" /\ pc \in {"clear", "apply"} /\ Doc = "macbinding"
            => LeasesIn(db') = {Blobs[blob].leases[i] : i \in DOMAIN Blobs[blob].leases}]_vars
  BY AppliedStep
<1> QED BY <1>1, <1>2, <1>3, RequestsTyped, PTL DEF Spec, AppliedAsAsked

----------------------------------------------------------------------------
(* What a rollback leaves.                                                  *)

Restoring == BackedUp /\ Doc = "macbinding"

\* The backup of a table with all its hosts has all their leases, the one of a
\* table without a count and of no comments is empty.
BackupInv ==
    Restoring =>
        /\ pc = "clear" => pending \subseteq DOMAIN bkup
        /\ before.hosts = "all" =>
              /\ Count \in DOMAIN bkup /\ \A i \in 1 .. bkup[Count] : Host(i) \in DOMAIN bkup
              /\ before.leases = {bkup[Host(i)] : i \in 1 .. bkup[Count]}
        /\ before.hosts = "uncounted" => DOMAIN bkup = {} /\ before.leases = {}

\* After an empty backup the count of received parameters, which the rollback
\* takes for a number of hosts, is no less than the number of hosts.
CountInv ==
    Restoring =>
        /\ pc = "apply" => Len(Blobs[blob].leases) <= received
        /\ DOMAIN bkup = {} /\ "table" \notin scenario.clients /\ pc # "clear"
             => Atoi(db[Count]) <= received

\* The keys that the rollback has passed hold what the backup says.
RestoredInv ==
    Restoring /\ (pc = "restore" \/ (pc = "unused" /\ intact)) => Written(bkup)

\* Only taking the backup changes what is known of it.
LEMMA BackedUpKept ==
    ASSUME [Next]_vars, BackedUp', ~Backup
    PROVE  /\ BackedUp /\ UNCHANGED <<blob, bkup, before>>
           /\ pc' = "clear" => pc = "clear" /\ pending' \subseteq pending
           /\ pc # "clear" => UNCHANGED received
<1> DEFINE Ok == /\ BackedUp /\ UNCHANGED <<blob, bkup, before>>
                 /\ pc' = "clear" => pc = "clear" /\ pending' \subseteq pending
                 /\ pc # "clear" => UNCHANGED received
<1>1. CASE Push \/ RefuseInBridgeMode \/ RefuseInvalid
  BY <1>1 DEF Push, RefuseInBridgeMode, RefuseInvalid, BackedUp
<1>2. CASE ClearKey \/ ApplyKey
  BY <1>2 DEF ClearKey, ApplyKey, Unsets, Sets, Fail, BackedUp
<1>3. CASE Cleared \/ Applied
  BY <1>3 DEF Cleared, Applied, Fail, Ends, BackedUp
<1>4. CASE Rollback \/ RestoreKey \/ Restored \/ RollbackEnds
  BY <1>4 DEF Rollback, RestoreKey, Restored, RollbackEnds, Ends, BackedUp
<1>5. CASE UNCHANGED web
  BY <1>5 DEF web, BackedUp
<1> QED BY <1>1, <1>2, <1>3, <1>4, <1>5, ClientsLeave DEF Next, Blobwork, Clients, vars, system

LEMMA BackupComplete ==
    ASSUME StoreOk(db), NEW b, b = BackupFromDb("macbinding")
    PROVE  /\ TableIn(db).hosts = "all" =>
                /\ Count \in DOMAIN b /\ \A i \in 1 .. b[Count] : Host(i) \in DOMAIN b
                /\ LeasesIn(db) = {b[Host(i)] : i \in 1 .. b[Count]}
           /\ TableIn(db).hosts = "uncounted" => DOMAIN b = {} /\ LeasesIn(db) = {}
<1> DEFINE visited == StaticKeys(Atoi(db[Count])) \cup CommentKeys(db)
<1>1. DOMAIN b = {l \in visited : db[l] # Unset} /\ \A k \in DOMAIN b : b[k] = db[k]
  BY DEF BackupFromDb
<1>2. TableIn(db).hosts = IF db[Count] = Unset /\ db[Notes] = Unset THEN "uncounted"
                          ELSE IF db[Count] # Unset /\ Hosts(db) = 1 .. db[Count] THEN "all" ELSE "some"
  BY DEF TableIn
<1>3. ASSUME TableIn(db).hosts = "all"
      PROVE  /\ Count \in DOMAIN b /\ \A i \in 1 .. b[Count] : Host(i) \in DOMAIN b
             /\ LeasesIn(db) = {b[Host(i)] : i \in 1 .. b[Count]}
  <2>1. db[Count] # Unset /\ Hosts(db) = 1 .. db[Count]
    BY <1>2, <1>3
  <2>2. db[Count] \in 0 .. MaxHosts /\ Atoi(db[Count]) = db[Count]
    BY <2>1, KeysOfHosts, ValuesOfKeys DEF StoreOk, Atoi
  <2>3. Count \in DOMAIN b /\ b[Count] = db[Count]
    BY <1>1, <2>1 DEF StaticKeys
  <2>4. ASSUME NEW i \in 1 .. db[Count] PROVE Host(i) \in DOMAIN b /\ b[Host(i)] = db[Host(i)]
    <3>1. db[Host(i)] # Unset
      BY <2>1 DEF Hosts
    <3> QED BY <1>1, <2>2, <3>1 DEF StaticKeys
  <2>5. LeasesIn(db) = {db[Host(i)] : i \in 1 .. db[Count]}
    BY <2>1 DEF LeasesIn
  <2>6. {db[Host(i)] : i \in 1 .. db[Count]} = {b[Host(i)] : i \in 1 .. db[Count]}
    BY <2>4
  <2> QED BY <2>3, <2>4, <2>5, <2>6
<1>4. ASSUME TableIn(db).hosts = "uncounted"
      PROVE  DOMAIN b = {} /\ LeasesIn(db) = {}
  <2>1. db[Count] = Unset /\ db[Notes] = Unset
    BY <1>2, <1>4
  <2>3. Hosts(db) = {}
    BY <2>1 DEF Hosts, Atoi
  <2>2. visited = {Count, Notes}
    BY <2>1, <2>3 DEF StaticKeys, CommentKeys, LeasesIn, Atoi
  <2> QED BY <1>1, <2>1, <2>2, <2>3 DEF LeasesIn
<1> QED BY <1>3, <1>4

LEMMA BackupInductive ==
    ASSUME TypedInv, RequestInv, BackupInv, [Next]_vars
    PROVE  BackupInv'
<1>1. CASE Backup
  <2>1. bkup' = BackupFromDb(Doc) /\ pending' = DOMAIN bkup' /\ before' = TableIn(db) /\ Doc' = Doc
    BY <1>1 DEF Backup, Doc
  <2>2. before'.leases = LeasesIn(db) /\ before'.hosts = TableIn(db).hosts
    BY <2>1 DEF TableIn
  <2>3. CASE Doc = "macbinding"
    <3>1. /\ TableIn(db).hosts = "all" =>
                /\ Count \in DOMAIN bkup' /\ \A i \in 1 .. bkup'[Count] : Host(i) \in DOMAIN bkup'
                /\ LeasesIn(db) = {bkup'[Host(i)] : i \in 1 .. bkup'[Count]}
          /\ TableIn(db).hosts = "uncounted" => DOMAIN bkup' = {} /\ LeasesIn(db) = {}
      BY <2>1, <2>3, BackupComplete DEF TypedInv
    <3> QED BY <2>1, <2>2, <3>1 DEF BackupInv
  <2> QED BY <2>1, <2>3 DEF BackupInv, Restoring
<1>2. CASE BackedUp' /\ ~Backup
  <2>1. /\ BackedUp /\ UNCHANGED <<blob, bkup, before>>
        /\ pc' = "clear" => pc = "clear" /\ pending' \subseteq pending
    BY <1>2, BackedUpKept
  <2>2. Doc' = Doc
    BY <2>1 DEF Doc
  <2> QED BY <2>1, <2>2 DEF BackupInv, Restoring
<1> QED BY <1>1, <1>2 DEF BackupInv, Restoring

LEMMA CountInductive ==
    ASSUME TypedInv, RequestInv, ApplyInv, BackupInv, CountInv, [Next]_vars
    PROVE  CountInv'
<1> SUFFICES ASSUME Restoring'
             PROVE  /\ pc' = "apply" => Len(Blobs[blob'].leases) <= received'
                    /\ DOMAIN bkup' = {} /\ "table" \notin scenario.clients /\ pc' # "clear"
                         => Atoi(db'[Count]) <= received'
  BY DEF CountInv, Next, vars
<1>1. CASE Backup
  BY <1>1 DEF Backup
<1>2. CASE ~Backup
  <2>1. /\ BackedUp /\ UNCHANGED <<blob, bkup, before>> /\ Doc = "macbinding"
        /\ pc' = "clear" => pc = "clear"
        /\ pc # "clear" => UNCHANGED received
    BY <1>2, BackedUpKept DEF Restoring, Doc
  <2>2. Restoring /\ blob \in Versions /\ StoreOk(db) /\ received \in Nat
    BY <2>1 DEF Restoring, BackedUp, TypedInv, TypeWeb
  <2> DEFINE c == UpdateConfToCache(Blobs[blob])
             n == Len(Blobs[blob].leases)
  <2>3. n \in 0 .. MaxHosts /\ DOMAIN c = StaticKeys(n) /\ c[Count] = n
    BY <2>1, <2>2, ConfTable DEF Blob, Doc
  <2> HIDE DEF c, n
  <2>4. CASE Cleared
    <3>1. pc' = "apply" => pending' = DOMAIN c /\ received' = NumOfParam(c) /\ db' = db /\ pending = {}
      BY <2>4 DEF Cleared, Ends, Fail, c
    <3>2. pc' = "apply" => received' > n
      <4>1. StaticKeys(n) \subseteq Keys /\ Count \in StaticKeys(n) /\ \A i \in 1 .. n : Host(i) \in StaticKeys(n)
        BY <2>3, StaticKeysAreKeys DEF StaticKeys
      <4> QED BY <2>3, <3>1, <4>1, MoreThanHosts
    <3>3. pc' = "apply" => Atoi(db'[Count]) = 0 /\ received' \in Nat
      <4>1. pc' = "apply" => db[Count] = Unset
        BY <2>1, <2>4, <3>1 DEF Cleared, ApplyInv
      <4>2. DOMAIN c \in SUBSET Keys
        BY <2>3, StaticKeysAreKeys
      <4> QED BY <3>1, <4>1, <4>2, NumOfParamType DEF Atoi
    <3>4. pc' # "apply" => DOMAIN bkup # {}
      BY <2>4 DEF Cleared, Ends, Fail, Restoring, BackedUp
    <3> QED BY <2>1, <2>3, <3>2, <3>3, <3>4 DEF n
  <2>5. CASE ClearKey
    BY <2>1, <2>2, <2>5 DEF ClearKey, Fail, BackupInv
  <2>6. ASSUME UNCHANGED received, db'[Count] = db[Count] \/ DOMAIN bkup # {} \/ "table" \in scenario.clients,
               pc # "clear" \/ pc' = "clear", pc' = "apply" => pc = "apply"
        PROVE  /\ pc' = "apply" => Len(Blobs[blob'].leases) <= received'
               /\ DOMAIN bkup' = {} /\ "table" \notin scenario.clients /\ pc' # "clear"
                    => Atoi(db'[Count]) <= received'
    BY <2>1, <2>2, <2>6 DEF CountInv
  <2>7. CASE ApplyKey
    <3>1. UNCHANGED received /\ pc = "apply" /\ n <= received
      BY <2>2, <2>7 DEF ApplyKey, CountInv, n
    <3>2. CASE Fail
      BY <2>6, <2>7, <3>1, <3>2 DEF Fail
    <3>3. ASSUME NEW k \in pending, Sets(k, c)
          PROVE  db'[Count] = db[Count] \/ db'[Count] = n
      BY <2>2, <2>3, <3>3, KeysOfHosts DEF Sets, StoreOk
    <3>4. db'[Count] = n => Atoi(db'[Count]) <= received
      BY <2>3, <3>1 DEF Atoi
    <3>5. db'[Count] = db[Count] \/ db'[Count] = n
      BY <2>7, <3>3 DEF ApplyKey, Fail, c
    <3> QED BY <2>1, <2>2, <3>1, <3>4, <3>5 DEF CountInv, n
  <2>8. CASE RestoreKey
    <3>1. DOMAIN bkup = {} => pending = {}
      BY <2>8 DEF RestoreKey, TypedInv, TypeWeb
    <3>2. pending # {} /\ pc = "restore" /\ UNCHANGED received /\ pc' \in {"restore", "unused"}
      BY <2>8 DEF RestoreKey
    <3> QED BY <2>6, <3>1, <3>2
  <2>9. CASE Applied \/ Rollback \/ Restored
    BY <2>6, <2>9 DEF Applied, Fail, Ends, Rollback, Restored
  <2>10. CASE RollbackEnds \/ Push \/ RefuseInBridgeMode \/ RefuseInvalid
    BY <2>2, <2>10 DEF RollbackEnds, Ends, Push, RefuseInBridgeMode, RefuseInvalid, Restoring, BackedUp
  <2>11. CASE Clients
    <3>1. UNCHANGED <<pc, received>>
      BY <2>11, ClientsLeave DEF web
    <3>2. ASSUME "table" \notin scenario.clients
          PROVE  db'[Count] = db[Count]
      <4>1. \A k \in Keys : k[1] \in {"count", "host"} => db'[k] = db[k]
        BY <2>11, <3>2, ClientsKeepHosts DEF RequestInv, NoSession
      <4> QED BY <4>1, KeysOfHosts, KeysDiffer
    <3> QED BY <2>6, <3>1, <3>2
  <2>12. CASE UNCHANGED vars
    BY <2>6, <2>12 DEF vars, system, web
  <2> QED BY <1>2, <2>4, <2>5, <2>7, <2>8, <2>9, <2>10, <2>11, <2>12 DEF Next, Blobwork, Clients
<1> QED BY <1>1, <1>2

LEMMA RestoredInductive ==
    ASSUME TypedInv, RequestInv, RestoredInv, [Next]_vars
    PROVE  RestoredInv'
<1> SUFFICES ASSUME Restoring', pc' = "restore" \/ (pc' = "unused" /\ intact')
             PROVE  \A k \in DOMAIN bkup' \ pending' : k[1] \in {"count", "host"} => db'[k] = bkup'[k]
  BY DEF RestoredInv, Written
<1>1. ~Backup
  BY DEF Backup
<1>2. BackedUp /\ UNCHANGED <<blob, bkup>> /\ Doc = "macbinding"
  BY <1>1, BackedUpKept DEF Restoring, Doc
<1>3. /\ Restoring /\ StoreOk(db) /\ DOMAIN bkup \subseteq KeysOf("macbinding") /\ DOMAIN bkup \subseteq Keys
      /\ pc = "restore" => pending \subseteq DOMAIN bkup
  BY <1>2 DEF Restoring, RequestInv, OwnKeys, TypedInv, TypeWeb, BufferOk
<1>4. CASE Rollback
  BY <1>2, <1>4 DEF Rollback
<1>5. CASE RestoreKey
  <2>1. Written(bkup) /\ pc = "restore"
    BY <1>3, <1>5 DEF RestoreKey, RestoredInv
  <2>2. PICK k \in pending : Sets(k, bkup)
    BY <1>5 DEF RestoreKey
  <2> QED BY <1>2, <1>3, <2>1, <2>2, WrittenOn
<1>6. CASE Restored
  BY <1>2, <1>3, <1>6 DEF Restored, RestoredInv, Written
<1>7. CASE Clients
  <2>1. UNCHANGED <<pc, pending, intact>>
    BY <1>7, ClientsLeave DEF web
  <2>2. Written(bkup)
    BY <1>3, <2>1 DEF RestoredInv
  <2>3. "macbinding" \in locked
    BY <1>2, <2>1 DEF RequestInv, Locks
  <2>4. \A k \in Keys : k[1] \in {"count", "host"} => db'[k] = db[k]
    BY <1>7, <2>3, ClientsKeepHosts
  <2> QED BY <1>2, <1>3, <2>1, <2>2, <2>4, WrittenKept
<1>8. CASE UNCHANGED vars
  BY <1>3, <1>8 DEF vars, system, web, RestoredInv, Written
<1> QED BY <1>1, <1>4, <1>5, <1>6, <1>7, <1>8
        DEF Next, Blobwork, Clients, Push, RefuseInBridgeMode, RefuseInvalid, ClearKey, Cleared, ApplyKey,
            Applied, RollbackEnds, Ends, Fail

LEMMA RestoredStep ==
    ASSUME TypedInv, RequestInv, BackupInv, CountInv, RestoredInv, [Next]_vars,
           pc = "unused", pc' = "idle", origin = "failed", intact', Doc = "macbinding",
           before.hosts = "all" \/ (before.hosts = "uncounted" /\ "table" \notin scenario.clients)
    PROVE  LeasesIn(db') = before.leases
<1>1. RollbackEnds
  BY ClientsLeave DEF Next, Blobwork, Clients, Push, RefuseInBridgeMode, RefuseInvalid, Backup, ClearKey,
     Cleared, ApplyKey, Applied, Rollback, RestoreKey, Restored, web, vars, system
<1>2. /\ Restoring /\ StoreOk(db) /\ pending = {} /\ BufferOk(bkup) /\ received \in Nat
      /\ DOMAIN bkup \in SUBSET Keys
  BY DEF Restoring, BackedUp, TypedInv, TypeWeb, RequestInv, Origins, BufferOk
<1>3. db' = UnsetHosts(NotUsed) /\ intact' = intact
  BY <1>1 DEF RollbackEnds
<1>4. \A k \in DOMAIN bkup : k[1] \in {"count", "host"} => db[k] = bkup[k]
  BY <1>2, <1>3 DEF RestoredInv, Written
<1>5. /\ db'[Count] = db[Count]
      /\ \A i \in 1 .. MaxHosts : db'[Host(i)] = IF i \in NotUsed THEN Unset ELSE db[Host(i)]
  BY <1>2, <1>3, UnsetHostsKeeps
<1>6. CASE before.hosts = "all"
  <2> DEFINE n == bkup[Count]
  <2>1. n \in 0 .. MaxHosts /\ Count \in DOMAIN bkup /\ \A i \in 1 .. n : Host(i) \in DOMAIN bkup
    BY <1>2, <1>6, ValuesOfKeys DEF BackupInv, BufferOk
  <2>2. db'[Count] = n
    BY <1>4, <1>5, <2>1, KeysDiffer
  <2>3. NumOfParam(bkup) > n /\ NumOfParam(bkup) \in Nat
    BY <1>2, <2>1, MoreThanHosts, NumOfParamType
  <2>4. \A i \in 1 .. n : i \notin NotUsed
    BY <1>2, <2>1, <2>3 DEF NotUsed
  <2>5. ASSUME NEW i \in 1 .. n
        PROVE  db'[Host(i)] = bkup[Host(i)] /\ bkup[Host(i)] # Unset
    <3>1. i \in 1 .. MaxHosts /\ Host(i) \in DOMAIN bkup
      BY <2>1
    <3>2. db'[Host(i)] = db[Host(i)] /\ db[Host(i)] = bkup[Host(i)]
      BY <1>4, <1>5, <2>4, <3>1, KeysDiffer
    <3> QED BY <1>2, <3>1, <3>2 DEF BufferOk
  <2>6. LeasesIn(db') = {db'[Host(i)] : i \in 1 .. n}
    BY <2>1, <2>2, <2>5, LeasesOfHosts
  <2>7. {db'[Host(i)] : i \in 1 .. n} = {bkup[Host(i)] : i \in 1 .. n}
    BY <2>5
  <2> QED BY <1>2, <1>6, <2>6, <2>7 DEF BackupInv
<1>7. CASE before.hosts = "uncounted" /\ "table" \notin scenario.clients
  <2>1. /\ DOMAIN bkup = {} /\ before.leases = {}
        /\ Atoi(db[Count]) <= received /\ Atoi(db[Count]) \in 0 .. MaxHosts
    BY <1>2, <1>7, StoreValues DEF BackupInv, CountInv
  <2>2. NotUsed = (1 .. received) \cap (1 .. MaxHosts)
    BY <2>1, NoParameters DEF NotUsed
  <2>3. Atoi(db'[Count]) = Atoi(db[Count])
    BY <1>5
  <2>4. Hosts(db') = {}
    BY <1>2, <1>5, <2>1, <2>2, <2>3 DEF Hosts
  <2> QED BY <2>1, <2>4 DEF LeasesIn
<1> QED BY <1>6, <1>7

\* A rollback whose own calls succeed leaves the leases there were before the
\* request, whatever call of the request failed, however many hosts the blob
\* has written and the table had, and whatever the clients committed before
\* the rollback took the mutex.  It counts parameters where it should count
\* hosts; a complete backup, with or without comments, holds more parameters
\* than hosts, so the hosts it unsets are none of those it has restored; an
\* empty one makes it unset as many hosts as it counted parameters of the blob,
\* which are more than the blob had hosts (rollback_StaticClients,
\* Dhcpv4_StaticClients_UnsetNotUsedParamFromDb).
THEOREM RollbackIsExact == Spec => RollbackRestores
<1> DEFINE Inv == TypedInv /\ RequestInv
           All == Inv /\ ApplyInv /\ BackupInv /\ CountInv /\ RestoredInv
<1>1. Init => ApplyInv /\ BackupInv /\ CountInv /\ RestoredInv
  BY DEF Init, ApplyInv, BackupInv, CountInv, RestoredInv, Restoring, BackedUp
<1>2. All /\ [Next]_vars => (ApplyInv /\ BackupInv /\ CountInv /\ RestoredInv)'
  BY ApplyInductive, BackupInductive, CountInductive, RestoredInductive
<1>3. All /\ [Next]_vars
      => [pc = "unused" /\ pc' = "idle" /\ origin = "failed" /\ intact' /\ Doc = "macbinding"
          /\ (before.hosts = "all" \/ (before.hosts = "uncounted" /\ "table" \notin scenario.clients))
             => LeasesIn(db') = before.leases]_vars
  BY RestoredStep
<1> QED BY <1>1, <1>2, <1>3, RequestsTyped, PTL DEF Spec, RollbackRestores

=============================================================================
