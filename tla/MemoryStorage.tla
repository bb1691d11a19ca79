--------------------------- MODULE MemoryStorage ---------------------------
(***************************************************************************)
(* The in-memory implementation of storage.Storage                         *)
(* (mqtt/storage/memory/memory.go): a slice of entries guarded by a mutex. *)
(* Every method locks the mutex, scans the slice from the front for the    *)
(* identifier, and acts where the scan stops.  Each iteration of the scan  *)
(* is a step of its own, so that nothing but the mutex makes a method      *)
(* atomic.                                                                 *)
(***************************************************************************)
EXTENDS Naturals, Sequences

CONSTANTS Goroutines, Ids, Packets, NoPacket, NoOne

ASSUME NoOneAssumption == NoOne \notin Goroutines
ASSUME NoPacketIsNoPacket == NoPacket \notin Packets

VARIABLES
  store,   \* the slice of entries, oldest first
  mutex,   \* the goroutine that holds s.mutex, or NoOne
  pc,      \* pc[g]: where goroutine g is in its method
  i,       \* i[g]: the index of g's scan
  call,    \* call[g]: the method g runs and its arguments
  ret      \* ret[g]: the result of g's latest call

vars == <<store, mutex, pc, i, call, ret>>

Entries == [id : Ids, packet : Packets]

(* The packet stored under id: the contents of the slice as a map. *)
Lookup(s, id) ==
  IF \E k \in 1..Len(s) : s[k].id = id
  THEN s[CHOOSE k \in 1..Len(s) : s[k].id = id].packet
  ELSE NoPacket

AsMap(s) == [id \in Ids |-> Lookup(s, id)]

Abstract == INSTANCE StorageMap WITH contents <- AsMap(store)

-----------------------------------------------------------------------------

(* NewStorage: the empty storage, before any call. *)
Init ==
  /\ store = <<>>
  /\ mutex = NoOne
  /\ pc = [g \in Goroutines |-> "idle"]
  /\ i = [g \in Goroutines |-> 1]
  /\ call = [g \in Goroutines |-> Abstract!Idle]
  /\ ret = [g \in Goroutines |-> Abstract!Success]

Call(g, c) ==
  /\ pc[g] = "idle"
  /\ pc' = [pc EXCEPT ![g] = "lock"]
  /\ call' = [call EXCEPT ![g] = c]
  /\ UNCHANGED <<store, mutex, i, ret>>

(* Faulty variant: the method does not lock. *)
LockSkipped(g) ==
  /\ pc[g] = "lock"
  /\ mutex' = g
  /\ pc' = [pc EXCEPT ![g] = "scan"]
  /\ UNCHANGED <<store, i, call, ret>>

(* s.mutex.Lock(); the range that follows starts at the front (i is 1). *)
Lock(g) ==
  /\ pc[g] = "lock"
  /\ mutex = NoOne
  /\ mutex' = g
  /\ pc' = [pc EXCEPT ![g] = "scan"]
  /\ UNCHANGED <<store, i, call, ret>>

(* The entry at the index is another packet's: next iteration. *)
ScanNext(g) ==
  /\ pc[g] = "scan"
  /\ i[g] <= Len(store)
  /\ store[i[g]].id # call[g].id
  /\ i' = [i EXCEPT ![g] = @ + 1]
  /\ UNCHANGED <<store, mutex, pc, call, ret>>

(* Faulty variant: the index survives the call. *)
ReturnKeepingIndex(g, r) ==
  /\ ret' = [ret EXCEPT ![g] = r]
  /\ call' = [call EXCEPT ![g] = Abstract!Idle]
  /\ pc' = [pc EXCEPT ![g] = "idle"]
  /\ mutex' = NoOne
  /\ UNCHANGED i

(* The method returns r; the deferred Unlock runs; its locals are gone. *)
Return(g, r) ==
  /\ ret' = [ret EXCEPT ![g] = r]
  /\ call' = [call EXCEPT ![g] = Abstract!Idle]
  /\ pc' = [pc EXCEPT ![g] = "idle"]
  /\ mutex' = NoOne
  /\ i' = [i EXCEPT ![g] = 1]

AtEntry(g) ==
  /\ pc[g] = "scan"
  /\ i[g] <= Len(store)
  /\ store[i[g]].id = call[g].id

AtEnd(g) ==
  /\ pc[g] = "scan"
  /\ i[g] > Len(store)

(* Faulty variant: the last entry is moved into the gap. *)
WithoutSwapping(s, k) ==
  [j \in 1..(Len(s) - 1) |-> IF j = k THEN s[Len(s)] ELSE s[j]]

(* Faulty variant: off by one, the entry after it is removed. *)
WithoutNext(s, k) ==
  [j \in 1..(Len(s) - 1) |-> IF j <= k THEN s[j] ELSE s[j + 1]]

(* append(s[:k], s[k+1:]...): s without its k-th entry. *)
Without(s, k) ==
  [j \in 1..(Len(s) - 1) |-> IF j < k THEN s[j] ELSE s[j + 1]]

(* Faulty variant: the new entry is left without its packet. *)
StoreNil(g) ==
  /\ call[g].method = "Store"
  /\ \/ /\ AtEntry(g)
        /\ UNCHANGED store
        /\ Return(g, Abstract!ErrDuplicateEntry)
     \/ /\ AtEnd(g)
        /\ store' = Append(store, [id |-> call[g].id, packet |-> NoPacket])
        /\ Return(g, Abstract!Success)

Store(g) ==
  /\ call[g].method = "Store"
  /\ \/ /\ AtEntry(g)
        /\ UNCHANGED store
        /\ Return(g, Abstract!ErrDuplicateEntry)
     \/ /\ AtEnd(g)
        /\ store' = Append(store, [id |-> call[g].id, packet |-> call[g].packet])
        /\ Return(g, Abstract!Success)

Get(g) ==
  /\ call[g].method = "Get"
  /\ \/ /\ AtEntry(g)
        /\ Return(g, Abstract!Found(store[i[g]].packet))
     \/ /\ AtEnd(g)
        /\ Return(g, Abstract!ErrNoEntry)
  /\ UNCHANGED store

Drop(g) ==
  /\ call[g].method = "Drop"
  /\ \/ /\ AtEntry(g)
        /\ store' = Without(store, i[g])
        /\ Return(g, Abstract!Success)
     \/ /\ AtEnd(g)
        /\ UNCHANGED store
        /\ Return(g, Abstract!ErrNoEntry)

Method(g) == Lock(g) \/ ScanNext(g) \/ Store(g) \/ Get(g) \/ Drop(g)

Next ==
  \E g \in Goroutines :
    \/ \E c \in Abstract!Calls : Call(g, c)
    \/ Method(g)

Spec == Init /\ [][Next]_vars

-----------------------------------------------------------------------------
(* Properties *)

(* Every variable has its type. *)
TypeOK ==
  /\ store \in Seq(Entries)
  /\ mutex \in Goroutines \cup {NoOne}
  /\ pc \in [Goroutines -> {"idle", "lock", "scan"}]
  /\ i \in [Goroutines -> Nat \ {0}]
  /\ call \in [Goroutines -> Abstract!Calls \cup {Abstract!Idle}]
  /\ ret \in [Goroutines -> Abstract!Results]

(* Store's check "Ensure that this control packet is NOT already stored":  *)
(* however calls interleave, no two entries share an identifier, so Get    *)
(* and Drop act on the one entry there is.                                 *)
UniqueIds ==
  \A j, k \in 1..Len(store) : store[j].id = store[k].id => j = k

(* Only the goroutine that holds s.mutex scans, every scan starts at the   *)
(* front, and the entries it has passed are still not the one it looks for. *)
ScanInv ==
  \A g \in Goroutines :
    /\ (mutex = g) <=> (pc[g] = "scan")
    /\ (call[g] = Abstract!Idle) <=> (pc[g] = "idle")
    /\ pc[g] # "scan" => i[g] = 1
    /\ pc[g] = "scan" => \A k \in 1..Len(store) :
                           k < i[g] => store[k].id # call[g].id

(* "Use a slice to preserve order": a step never reverses the order of two *)
(* identifiers that are both stored before and after it.                   *)
Before(s, a, b) ==
  \E j, k \in 1..Len(s) : j < k /\ s[j].id = a /\ s[k].id = b

OrderPreserved ==
  [][\A a, b \in Ids : Before(store, a, b) => ~ Before(store', b, a)]_vars

(* The slice with its mutex implements the map of the interface: every     *)
(* method takes effect at one instant, whatever the others do meanwhile.   *)
ImplementsMap == Abstract!MapSpec
=============================================================================
