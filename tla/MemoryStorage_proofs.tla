------------------------ MODULE MemoryStorage_proofs ------------------------
(***************************************************************************)
(* Proofs about MemoryStorage, for any set of goroutines, identifiers and  *)
(* packets.  The inductive invariant is IInv: the types, ScanInv (only the *)
(* holder of the mutex scans, and it has not passed what it looks for) and *)
(* UniqueIds.  ScanInv is what makes UniqueIds inductive: a Store appends  *)
(* only when its scan has passed every entry.                              *)
(***************************************************************************)
EXTENDS MemoryStorage, TLAPS

IInv == TypeOK /\ ScanInv /\ UniqueIds

-----------------------------------------------------------------------------

(* What append(s[:k], s[k+1:]...) leaves: one entry less, the others in    *)
(* their order, those after the hole moved down by one.                    *)
LEMMA WithoutProperties ==
  ASSUME NEW S, NEW s \in Seq(S), NEW k \in 1..Len(s)
  PROVE  /\ Without(s, k) \in Seq(S)
         /\ Len(Without(s, k)) = Len(s) - 1
         /\ \A j \in 1..(Len(s) - 1) :
              Without(s, k)[j] = IF j < k THEN s[j] ELSE s[j + 1]
<1> DEFINE n == Len(s) - 1
           t == [j \in 1..n |-> IF j < k THEN s[j] ELSE s[j + 1]]
<1>1. n \in Nat
  OBVIOUS
<1>2. \A j \in 1..n : (IF j < k THEN s[j] ELSE s[j + 1]) \in S
  OBVIOUS
<1>3. t \in [1..n -> S]
  BY <1>2
<1>4. t \in Seq(S) /\ Len(t) = n
  BY <1>1, <1>3
<1>5. t = Without(s, k)
  BY DEF Without
<1> QED
  BY <1>4, <1>5

(* A call in progress has a method, an identifier and, for Store, a packet. *)
LEMMA CallFields ==
  ASSUME NEW c \in Abstract!Calls
  PROVE  /\ c.id \in Ids
         /\ c.method \in {"Store", "Get", "Drop"}
         /\ c.method = "Store" => c.packet \in Packets
         /\ c # Abstract!Idle
BY DEF Abstract!Calls, Abstract!Idle

(* The initial state, before any call, satisfies the invariant. *)
LEMMA InitIInv == Init => IInv
BY NoOneAssumption DEF Init, IInv, TypeOK, ScanInv, UniqueIds,
       Abstract!Results, Abstract!Idle

(* A step preserves the types, given the invariant. *)
LEMMA NextTypeOK == IInv /\ [Next]_vars => TypeOK'
<1> SUFFICES ASSUME IInv, [Next]_vars PROVE TypeOK'
  OBVIOUS
<1> USE DEF IInv, TypeOK
<1>1. ASSUME NEW g \in Goroutines, NEW c \in Abstract!Calls, Call(g, c)
      PROVE  TypeOK'
  BY <1>1 DEF Call
<1>2. ASSUME NEW g \in Goroutines, Lock(g) PROVE TypeOK'
  BY <1>2 DEF Lock
<1>3. ASSUME NEW g \in Goroutines, ScanNext(g) PROVE TypeOK'
  BY <1>3 DEF ScanNext
<1>4. ASSUME NEW g \in Goroutines, NEW r \in Abstract!Results, Return(g, r),
             store' \in Seq(Entries)
      PROVE  TypeOK'
  BY <1>4 DEF Return
<1>5. ASSUME NEW g \in Goroutines, AtEntry(g)
      PROVE  i[g] \in 1..Len(store) /\ store[i[g]] \in Entries
  BY <1>5 DEF AtEntry
<1>6. ASSUME NEW g \in Goroutines, AtEntry(g) \/ AtEnd(g)
      PROVE  call[g] \in Abstract!Calls
  BY <1>6 DEF AtEntry, AtEnd, ScanInv
<1>7. ASSUME NEW g \in Goroutines, Store(g) PROVE TypeOK'
  <2>1. CASE AtEntry(g)
    BY <1>7, <2>1, <1>4 DEF Store, AtEnd, AtEntry, Abstract!Results
  <2>2. CASE AtEnd(g)
    <3>1. [id |-> call[g].id, packet |-> call[g].packet] \in Entries
      BY <1>7, <2>2, <1>6, CallFields DEF Store, Entries
    <3>2. /\ store' = Append(store, [id |-> call[g].id, packet |-> call[g].packet])
          /\ Return(g, Abstract!Success)
      BY <1>7, <2>2 DEF Store, AtEnd, AtEntry
    <3>3. store' \in Seq(Entries)
      BY <3>1, <3>2
    <3> QED BY <3>2, <3>3, <1>4 DEF Abstract!Results
  <2> QED BY <1>7, <2>1, <2>2 DEF Store
<1>8. ASSUME NEW g \in Goroutines, Get(g) PROVE TypeOK'
  <2>1. CASE AtEntry(g)
    <3>1. Abstract!Found(store[i[g]].packet) \in Abstract!Results
      BY <2>1, <1>5 DEF Entries, Abstract!Results
    <3> QED BY <1>8, <2>1, <3>1, <1>4 DEF Get, AtEnd, AtEntry
  <2>2. CASE AtEnd(g)
    BY <1>8, <2>2, <1>4 DEF Get, AtEnd, AtEntry, Abstract!Results
  <2> QED BY <1>8, <2>1, <2>2 DEF Get
<1>9. ASSUME NEW g \in Goroutines, Drop(g) PROVE TypeOK'
  <2>1. CASE AtEntry(g)
    <3>1. store' = Without(store, i[g]) /\ Return(g, Abstract!Success)
      BY <1>9, <2>1 DEF Drop, AtEnd, AtEntry
    <3>2. store' \in Seq(Entries)
      BY <3>1, <2>1, <1>5, WithoutProperties
    <3> QED BY <3>1, <3>2, <1>4 DEF Abstract!Results
  <2>2. CASE AtEnd(g)
    BY <1>9, <2>2, <1>4 DEF Drop, AtEnd, AtEntry, Abstract!Results
  <2> QED BY <1>9, <2>1, <2>2 DEF Drop
<1>10. CASE UNCHANGED vars
  BY <1>10 DEF vars
<1> QED
  BY <1>1, <1>2, <1>3, <1>7, <1>8, <1>9, <1>10 DEF Next, Method

(* A step preserves the scan invariant: only the holder of the mutex moves *)
(* its index or changes the slice, and it leaves the scan when it does.    *)
LEMMA NextScanInv == IInv /\ [Next]_vars => ScanInv'
<1> SUFFICES ASSUME IInv, [Next]_vars PROVE ScanInv'
  OBVIOUS
<1> USE NoOneAssumption DEF IInv, TypeOK, ScanInv
<1>1. ASSUME NEW g \in Goroutines, NEW c \in Abstract!Calls, Call(g, c)
      PROVE  ScanInv'
  BY <1>1, CallFields DEF Call
<1>2. ASSUME NEW g \in Goroutines, Lock(g) PROVE ScanInv'
  BY <1>2 DEF Lock
<1>3. ASSUME NEW g \in Goroutines, ScanNext(g) PROVE ScanInv'
  BY <1>3 DEF ScanNext
<1>4. ASSUME NEW g \in Goroutines, NEW r, Return(g, r), pc[g] = "scan"
      PROVE  ScanInv'
  <2>1. /\ mutex' = NoOne
        /\ pc'[g] = "idle" /\ call'[g] = Abstract!Idle /\ i'[g] = 1
        /\ \A h \in Goroutines \ {g} :
             pc'[h] = pc[h] /\ call'[h] = call[h] /\ i'[h] = i[h]
    BY <1>4 DEF Return
  <2>2. \A h \in Goroutines : pc'[h] # "scan"
    BY <2>1, <1>4
  <2>3. \A h \in Goroutines :
          (call'[h] = Abstract!Idle) <=> (pc'[h] = "idle")
    BY <2>1
  <2> QED BY <2>1, <2>2, <2>3
<1>5. ASSUME NEW g \in Goroutines, Store(g) \/ Get(g) \/ Drop(g)
      PROVE  ScanInv'
  BY <1>5, <1>4 DEF Store, Get, Drop, AtEntry, AtEnd
<1>6. CASE UNCHANGED vars
  BY <1>6 DEF vars
<1> QED
  BY <1>1, <1>2, <1>3, <1>5, <1>6 DEF Next, Method

(* A step keeps the identifiers of the slice distinct. *)
LEMMA NextUniqueIds == IInv /\ [Next]_vars => UniqueIds'
<1> SUFFICES ASSUME IInv, [Next]_vars PROVE UniqueIds'
  OBVIOUS
<1> USE DEF IInv, TypeOK
<1>1. CASE UNCHANGED store
  BY <1>1 DEF UniqueIds
<1>2. ASSUME NEW g \in Goroutines, AtEnd(g),
             store' = Append(store, [id |-> call[g].id, packet |-> call[g].packet])
      PROVE  UniqueIds'
  <2>1. \A k \in 1..Len(store) : store[k].id # call[g].id
    BY <1>2 DEF AtEnd, ScanInv
  <2>2. /\ Len(store') = Len(store) + 1
        /\ \A k \in 1..Len(store) : store'[k] = store[k]
        /\ store'[Len(store) + 1].id = call[g].id
    BY <1>2
  <2>3. ASSUME NEW j \in 1..Len(store'), NEW k \in 1..Len(store'),
               store'[j].id = store'[k].id
        PROVE  j = k
    <3>1. CASE j \in 1..Len(store) /\ k \in 1..Len(store)
      BY <2>2, <2>3, <3>1 DEF UniqueIds
    <3>2. CASE j = Len(store) + 1 /\ k \in 1..Len(store)
      BY <2>1, <2>2, <2>3, <3>2
    <3>3. CASE k = Len(store) + 1 /\ j \in 1..Len(store)
      BY <2>1, <2>2, <2>3, <3>3
    <3> QED BY <2>2, <3>1, <3>2, <3>3
  <2> QED BY <2>3 DEF UniqueIds
<1>3. ASSUME NEW g \in Goroutines, AtEntry(g), store' = Without(store, i[g])
      PROVE  UniqueIds'
  <2>1. i[g] \in 1..Len(store)
    BY <1>3 DEF AtEntry
  <2>2. /\ Len(store') = Len(store) - 1
        /\ \A j \in 1..(Len(store) - 1) :
             store'[j] = IF j < i[g] THEN store[j] ELSE store[j + 1]
    BY <1>3, <2>1, WithoutProperties
  <2> QED BY <2>1, <2>2 DEF UniqueIds
<1> QED
  BY <1>1, <1>2, <1>3
     DEF Next, vars, Method, Call, Lock, ScanNext, Store, Get, Drop

(* The invariant is inductive. *)
LEMMA NextIInv == IInv /\ [Next]_vars => IInv'
BY NextTypeOK, NextScanInv, NextUniqueIds DEF IInv

(* The storage never leaves its invariant, for any number of goroutines.   *)
LEMMA AlwaysIInv == Spec => []IInv
BY InitIInv, NextIInv, PTL DEF Spec

(* Every variable keeps its type. *)
THEOREM TypeCorrect == Spec => []TypeOK
BY AlwaysIInv, PTL DEF IInv

(* Store, Get and Drop keep the mutex discipline of their scans. *)
THEOREM ScanCorrect == Spec => []ScanInv
BY AlwaysIInv, PTL DEF IInv

(* No two entries of the slice ever share a packet identifier (the         *)
(* duplicate check of Store), however the calls interleave.                *)
THEOREM IdsUnique == Spec => []UniqueIds
BY AlwaysIInv, PTL DEF IInv

(* "Use a slice to preserve order": what Store appends comes last, and     *)
(* what Drop leaves keeps its order, because Drop moves all that follows   *)
(* the hole down by one.                                                   *)
LEMMA NextOrder ==
  ASSUME IInv, [Next]_vars, NEW a \in Ids, NEW b \in Ids,
         Before(store, a, b)
  PROVE  ~ Before(store', b, a)
<1> USE DEF IInv, TypeOK
<1>1. PICK j \in 1..Len(store), k \in 1..Len(store) :
        j < k /\ store[j].id = a /\ store[k].id = b
  BY DEF Before
<1> SUFFICES ASSUME NEW l \in 1..Len(store'), NEW m \in 1..Len(store'),
                    l < m, store'[l].id = b, store'[m].id = a
             PROVE  FALSE
  BY DEF Before
<1>2. CASE UNCHANGED store
  BY <1>1, <1>2 DEF UniqueIds
<1>3. ASSUME NEW g \in Goroutines, AtEnd(g),
             store' = Append(store, [id |-> call[g].id, packet |-> call[g].packet])
      PROVE  FALSE
  <2>1. \A n \in 1..Len(store) : store[n].id # call[g].id
    BY <1>3 DEF AtEnd, ScanInv
  <2>2. /\ Len(store') = Len(store) + 1
        /\ \A n \in 1..Len(store) : store'[n] = store[n]
        /\ store'[Len(store) + 1].id = call[g].id
    BY <1>3
  <2>3. m # Len(store) + 1
    BY <1>1, <2>1, <2>2
  <2>4. Len(store) \in Nat
    OBVIOUS
  <2>5. l \in 1..Len(store) /\ m \in 1..Len(store)
    <3> HIDE DEF IInv, TypeOK
    <3>1. l \in 1..(Len(store) + 1) /\ m \in 1..(Len(store) + 1)
      BY <2>2
    <3> QED BY <2>3, <2>4, <3>1
  <2>6. store[l].id = b /\ store[m].id = a
    BY <2>2, <2>5
  <2> QED BY <1>1, <2>5, <2>6 DEF UniqueIds
<1>4. ASSUME NEW g \in Goroutines, AtEntry(g), store' = Without(store, i[g])
      PROVE  FALSE
  <2>1. i[g] \in 1..Len(store)
    BY <1>4 DEF AtEntry
  <2>2. /\ Len(store') = Len(store) - 1
        /\ \A n \in 1..(Len(store) - 1) :
             store'[n] = IF n < i[g] THEN store[n] ELSE store[n + 1]
    BY <1>4, <2>1, WithoutProperties
  <2> DEFINE Old(n) == IF n < i[g] THEN n ELSE n + 1
  <2>3. Len(store) \in Nat
    OBVIOUS
  <2>4. /\ l \in 1..(Len(store) - 1) /\ m \in 1..(Len(store) - 1)
        /\ Old(l) \in 1..Len(store) /\ Old(m) \in 1..Len(store)
        /\ Old(l) < Old(m)
    BY <2>1, <2>2, <2>3
  <2>5. store[Old(l)].id = b /\ store[Old(m)].id = a
    BY <2>2, <2>4
  <2>6. Old(l) = k /\ Old(m) = j
    BY <1>1, <2>4, <2>5 DEF UniqueIds
  <2> QED BY <1>1, <2>4, <2>6
<1> QED
  BY <1>2, <1>3, <1>4
     DEF Next, vars, Method, Call, Lock, ScanNext, Store, Get, Drop

(* A step of any goroutine never reverses the order of two packets that    *)
(* are stored before and after it.                                         *)
THEOREM OrderKept == Spec => OrderPreserved
<1>1. IInv /\ [Next]_vars
      => [\A a, b \in Ids : Before(store, a, b) => ~ Before(store', b, a)]_vars
  BY NextOrder
<1>2. QED
  BY <1>1, AlwaysIInv, PTL DEF Spec, OrderPreserved

-----------------------------------------------------------------------------
(* The slice implements the map of the interface. *)

Distinct(s) == \A j, k \in 1..Len(s) : s[j].id = s[k].id => j = k

(* With distinct identifiers, the map holds what the slice holds at k. *)
LEMMA LookupAt ==
  ASSUME NEW s \in Seq(Entries), Distinct(s), NEW k \in 1..Len(s)
  PROVE  Lookup(s, s[k].id) = s[k].packet /\ s[k].packet # NoPacket
<1> DEFINE c == CHOOSE j \in 1..Len(s) : s[j].id = s[k].id
<1>1. c \in 1..Len(s) /\ s[c].id = s[k].id
  OBVIOUS
<1>2. c = k
  BY <1>1 DEF Distinct
<1>3. s[k] \in Entries
  OBVIOUS
<1> QED
  BY <1>2, <1>3, NoPacketIsNoPacket DEF Lookup, Entries

(* An identifier the slice does not hold maps to NoPacket. *)
LEMMA LookupNone ==
  ASSUME NEW s \in Seq(Entries), NEW id, \A k \in 1..Len(s) : s[k].id # id
  PROVE  Lookup(s, id) = NoPacket
BY DEF Lookup

(* Appending an entry with a fresh identifier sets that point of the map. *)
LEMMA AppendMap ==
  ASSUME NEW s \in Seq(Entries), Distinct(s), NEW e \in Entries,
         \A k \in 1..Len(s) : s[k].id # e.id, Distinct(Append(s, e))
  PROVE  AsMap(Append(s, e)) = [AsMap(s) EXCEPT ![e.id] = e.packet]
<1> DEFINE t == Append(s, e)
<1>1. /\ t \in Seq(Entries) /\ Len(t) = Len(s) + 1
      /\ t[Len(s) + 1] = e /\ \A k \in 1..Len(s) : t[k] = s[k]
  OBVIOUS
<1>2. Lookup(t, e.id) = e.packet
  <2>1. Len(s) + 1 \in 1..Len(t)
    BY <1>1
  <2>2. Lookup(t, t[Len(s) + 1].id) = t[Len(s) + 1].packet
    BY <1>1, <2>1, LookupAt
  <2> QED BY <1>1, <2>2
<1>3. ASSUME NEW id \in Ids, id # e.id PROVE Lookup(t, id) = Lookup(s, id)
  <2>1. CASE \E k \in 1..Len(s) : s[k].id = id
    <3>1. PICK k \in 1..Len(s) : s[k].id = id
      BY <2>1
    <3>2. Lookup(s, id) = s[k].packet
      BY <3>1, LookupAt
    <3>3. k \in 1..Len(t) /\ t[k] = s[k]
      BY <1>1
    <3>4. Lookup(t, id) = t[k].packet
      BY <1>1, <3>1, <3>3, LookupAt
    <3> QED BY <3>2, <3>3, <3>4
  <2>2. CASE \A k \in 1..Len(s) : s[k].id # id
    <3>1. \A k \in 1..Len(t) : t[k].id # id
      BY <2>2, <1>1, <1>3
    <3>2. Lookup(s, id) = NoPacket
      BY <2>2, LookupNone
    <3>3. Lookup(t, id) = NoPacket
      BY <1>1, <3>1, LookupNone
    <3> QED BY <3>2, <3>3
  <2> QED BY <2>1, <2>2
<1> QED
  BY <1>2, <1>3 DEF AsMap

(* Removing the entry at k clears its point of the map and no other. *)
LEMMA WithoutMap ==
  ASSUME NEW s \in Seq(Entries), Distinct(s), NEW k \in 1..Len(s),
         Distinct(Without(s, k))
  PROVE  AsMap(Without(s, k)) = [AsMap(s) EXCEPT ![s[k].id] = NoPacket]
<1> DEFINE t == Without(s, k)
<1>1. /\ t \in Seq(Entries) /\ Len(t) = Len(s) - 1
      /\ \A j \in 1..(Len(s) - 1) : t[j] = IF j < k THEN s[j] ELSE s[j + 1]
  BY WithoutProperties
<1> HIDE DEF t
<1>2. Lookup(t, s[k].id) = NoPacket
  <2>1. \A j \in 1..Len(t) : t[j].id # s[k].id
    BY <1>1 DEF Distinct
  <2> QED BY <1>1, <2>1, LookupNone
<1>3. ASSUME NEW id \in Ids, id # s[k].id PROVE Lookup(t, id) = Lookup(s, id)
  <2>1. CASE \E j \in 1..Len(s) : s[j].id = id
    <3>1. PICK j \in 1..Len(s) : s[j].id = id
      BY <2>1
    <3>2. Lookup(s, id) = s[j].packet
      BY <3>1, LookupAt
    <3>3. PICK m \in 1..Len(t) : t[m] = s[j]
      <4>1. CASE j < k
        BY <4>1, <1>1
      <4>2. CASE j > k
        <5>1. j - 1 \in 1..Len(t) /\ t[j - 1] = s[j]
          BY <4>2, <1>1
        <5> QED BY <5>1
      <4> QED BY <4>1, <4>2, <3>1, <1>3
    <3>4. Lookup(t, id) = t[m].packet
      BY <1>1, <3>1, <3>3, LookupAt DEF t
    <3> QED BY <3>2, <3>3, <3>4
  <2>2. CASE \A j \in 1..Len(s) : s[j].id # id
    <3>1. \A j \in 1..Len(t) : t[j].id # id
      BY <2>2, <1>1
    <3>2. Lookup(s, id) = NoPacket
      BY <2>2, LookupNone
    <3>3. Lookup(t, id) = NoPacket
      BY <1>1, <3>1, LookupNone
    <3> QED BY <3>2, <3>3
  <2> QED BY <2>1, <2>2
<1> QED
  BY <1>2, <1>3 DEF AsMap, t

(* Initial states map to initial states. *)
LEMMA InitRefines == Init => Abstract!MapInit
BY DEF Init, Abstract!MapInit, AsMap, Lookup

(* Every step of a method is a step of the map or leaves it unchanged: a   *)
(* method takes effect where its scan stops.                               *)
LEMMA NextRefines ==
  IInv /\ IInv' /\ [Next]_vars => [Abstract!MapNext]_(Abstract!mapVars)
<1> SUFFICES ASSUME IInv, IInv', [Next]_vars
             PROVE  [Abstract!MapNext]_(Abstract!mapVars)
  OBVIOUS
<1> USE DEF IInv, TypeOK
<1>0. Distinct(store) /\ Distinct(store')
  BY DEF UniqueIds, Distinct
<1>1. ASSUME NEW g \in Goroutines, NEW c \in Abstract!Calls, Call(g, c)
      PROVE  Abstract!Invoke(g, c)
  BY <1>1 DEF Call, Abstract!Invoke, ScanInv
<1>2. ASSUME NEW g \in Goroutines, Lock(g) \/ ScanNext(g)
      PROVE  UNCHANGED Abstract!mapVars
  BY <1>2 DEF Lock, ScanNext, Abstract!mapVars
<1>3. ASSUME NEW g \in Goroutines, NEW r, Return(g, r)
      PROVE  Abstract!Return(g, r)
  BY <1>3 DEF Return, Abstract!Return
<1>4. ASSUME NEW g \in Goroutines, AtEntry(g)
      PROVE  /\ i[g] \in 1..Len(store) /\ call[g] \in Abstract!Calls
             /\ call[g].id = store[i[g]].id
             /\ AsMap(store)[call[g].id] = store[i[g]].packet
             /\ AsMap(store)[call[g].id] # NoPacket
  <2>1. i[g] \in 1..Len(store) /\ call[g].id = store[i[g]].id
    BY <1>4 DEF AtEntry
  <2>2. call[g] \in Abstract!Calls
    BY <1>4 DEF AtEntry, ScanInv
  <2>3. call[g].id \in Ids
    BY <2>2, CallFields
  <2> QED BY <1>0, <2>1, <2>2, <2>3, LookupAt DEF AsMap
<1>5. ASSUME NEW g \in Goroutines, AtEnd(g)
      PROVE  /\ call[g] \in Abstract!Calls
             /\ \A k \in 1..Len(store) : store[k].id # call[g].id
             /\ AsMap(store)[call[g].id] = NoPacket
  <2>1. call[g] \in Abstract!Calls
    BY <1>5 DEF AtEnd, ScanInv
  <2>2. \A k \in 1..Len(store) : store[k].id # call[g].id
    BY <1>5 DEF AtEnd, ScanInv
  <2> QED BY <2>1, <2>2, CallFields, LookupNone DEF AsMap
<1>6. ASSUME NEW g \in Goroutines, Store(g) PROVE Abstract!StoreEffect(g)
  <2>1. CASE AtEntry(g)
    <3>1. UNCHANGED store /\ Return(g, Abstract!ErrDuplicateEntry)
      BY <1>6, <2>1 DEF Store, AtEntry, AtEnd
    <3> QED BY <1>6, <2>1, <3>1, <1>3, <1>4 DEF Store, Abstract!StoreEffect
  <2>2. CASE AtEnd(g)
    <3> DEFINE e == [id |-> call[g].id, packet |-> call[g].packet]
    <3>1. store' = Append(store, e) /\ Return(g, Abstract!Success)
      BY <1>6, <2>2 DEF Store, AtEntry, AtEnd
    <3>2. e \in Entries /\ call[g].method = "Store"
      BY <1>6, <2>2, <1>5, CallFields DEF Store, Entries
    <3>3. e.id = call[g].id /\ e.packet = call[g].packet
      OBVIOUS
    <3> HIDE DEF e
    <3>4. AsMap(store)' = [AsMap(store) EXCEPT ![call[g].id] = call[g].packet]
      BY <1>0, <2>2, <1>5, <3>1, <3>2, <3>3, AppendMap
    <3> QED BY <2>2, <3>1, <3>2, <3>4, <1>3, <1>5 DEF Abstract!StoreEffect
  <2> QED BY <1>6, <2>1, <2>2 DEF Store
<1>7. ASSUME NEW g \in Goroutines, Get(g) PROVE Abstract!GetEffect(g)
  <2>1. CASE AtEntry(g)
    <3>1. UNCHANGED store /\ Return(g, Abstract!Found(store[i[g]].packet))
      BY <1>7, <2>1 DEF Get, AtEntry, AtEnd
    <3> QED BY <1>7, <2>1, <3>1, <1>3, <1>4 DEF Get, Abstract!GetEffect
  <2>2. CASE AtEnd(g)
    <3>1. UNCHANGED store /\ Return(g, Abstract!ErrNoEntry)
      BY <1>7, <2>2 DEF Get, AtEntry, AtEnd
    <3> QED BY <1>7, <2>2, <3>1, <1>3, <1>5 DEF Get, Abstract!GetEffect
  <2> QED BY <1>7, <2>1, <2>2 DEF Get
<1>8. ASSUME NEW g \in Goroutines, Drop(g) PROVE Abstract!DropEffect(g)
  <2>1. CASE AtEntry(g)
    <3>1. store' = Without(store, i[g]) /\ Return(g, Abstract!Success)
      BY <1>8, <2>1 DEF Drop, AtEntry, AtEnd
    <3>2. AsMap(store)' = [AsMap(store) EXCEPT ![call[g].id] = NoPacket]
      BY <1>0, <2>1, <1>4, <3>1, WithoutMap
    <3> QED BY <1>8, <2>1, <3>1, <3>2, <1>3, <1>4 DEF Drop, Abstract!DropEffect
  <2>2. CASE AtEnd(g)
    <3>1. UNCHANGED store /\ Return(g, Abstract!ErrNoEntry)
      BY <1>8, <2>2 DEF Drop, AtEntry, AtEnd
    <3>2. AsMap(store) = [AsMap(store) EXCEPT ![call[g].id] = NoPacket]
      BY <2>2, <1>5 DEF AsMap
    <3> QED BY <1>8, <2>2, <3>1, <3>2, <1>3, <1>5 DEF Drop, Abstract!DropEffect
  <2> QED BY <1>8, <2>1, <2>2 DEF Drop
<1>9. CASE UNCHANGED vars
  BY <1>9 DEF vars, Abstract!mapVars
<1> QED
  BY <1>1, <1>2, <1>6, <1>7, <1>8, <1>9 DEF Next, Method, Abstract!MapNext

(* memory.Storage implements the interface storage.Storage: seen from its  *)
(* callers every Store, Get and Drop acts on a map at one instant.         *)
THEOREM Refinement == Spec => ImplementsMap
<1>1. Spec => Abstract!MapInit
  BY InitRefines DEF Spec
<1>2. Spec => [][Abstract!MapNext]_(Abstract!mapVars)
  BY AlwaysIInv, NextRefines, PTL DEF Spec
<1> QED
  BY <1>1, <1>2, PTL DEF ImplementsMap, Abstract!MapSpec

=============================================================================
