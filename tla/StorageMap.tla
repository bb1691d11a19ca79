----------------------------- MODULE StorageMap -----------------------------
(***************************************************************************)
(* What the interface storage.Storage promises (mqtt/storage/storage.go):  *)
(* a partial map from packet identifiers to control packets, with three    *)
(* operations that each take effect at one instant between the call and    *)
(* its return.  Several goroutines may have a call outstanding.            *)
(***************************************************************************)

CONSTANTS
  Goroutines,  \* callers of the storage
  Ids,         \* packet identifiers
  Packets,     \* control packets
  NoPacket     \* "no packet is stored under this identifier", not a packet

VARIABLES
  contents,    \* contents[id]: the packet stored under id, or NoPacket
  call,        \* call[g]: the outstanding call of goroutine g, or Idle
  ret          \* ret[g]: what g's latest call returned

mapVars == <<contents, call, ret>>

-----------------------------------------------------------------------------
(* The calls: Store(id, packet), Get(id) and Drop(id). *)

Idle == [method |-> "none"]

Calls ==
  [method : {"Store"}, id : Ids, packet : Packets]
    \cup [method : {"Get", "Drop"}, id : Ids]

ErrDuplicateEntry == [err |-> "ErrDuplicateEntry"]
ErrNoEntry == [err |-> "ErrNoEntry"]
Success == [err |-> "nil"]
Found(p) == [err |-> "nil", packet |-> p]

Results ==
  {ErrDuplicateEntry, ErrNoEntry, Success} \cup {Found(p) : p \in Packets}

-----------------------------------------------------------------------------

MapInit ==
  /\ contents = [id \in Ids |-> NoPacket]
  /\ call = [g \in Goroutines |-> Idle]
  /\ ret = [g \in Goroutines |-> Success]

Invoke(g, c) ==
  /\ call[g] = Idle
  /\ call' = [call EXCEPT ![g] = c]
  /\ UNCHANGED <<contents, ret>>

(* The call of g takes effect and returns r. *)
Return(g, r) ==
  /\ ret' = [ret EXCEPT ![g] = r]
  /\ call' = [call EXCEPT ![g] = Idle]

StoreEffect(g) ==
  /\ call[g].method = "Store"
  /\ \/ /\ contents[call[g].id] = NoPacket
        /\ contents' = [contents EXCEPT ![call[g].id] = call[g].packet]
        /\ Return(g, Success)
     \/ /\ contents[call[g].id] # NoPacket
        /\ UNCHANGED contents
        /\ Return(g, ErrDuplicateEntry)

GetEffect(g) ==
  /\ call[g].method = "Get"
  /\ UNCHANGED contents
  /\ Return(g, IF contents[call[g].id] = NoPacket
               THEN ErrNoEntry
               ELSE Found(contents[call[g].id]))

DropEffect(g) ==
  /\ call[g].method = "Drop"
  /\ contents' = [contents EXCEPT ![call[g].id] = NoPacket]
  /\ Return(g, IF contents[call[g].id] = NoPacket
               THEN ErrNoEntry
               ELSE Success)

MapNext ==
  \E g \in Goroutines :
    \/ \E c \in Calls : Invoke(g, c)
    \/ StoreEffect(g)
    \/ GetEffect(g)
    \/ DropEffect(g)

MapSpec == MapInit /\ [][MapNext]_mapVars
=============================================================================
