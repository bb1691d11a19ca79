----------------------------- MODULE Publishing -----------------------------
(***************************************************************************)
(* Client.Publish (mqtt/client.go): persist the packet, wait for send      *)
(* quota, write it, count it.                                              *)
(***************************************************************************)
EXTENDS ClientState

(* Faulty variant: no check of isConnected. *)
PublishCallUnchecked(g) ==
  /\ \E q \in QoSLevels : Begin(g, "Publish", "pub_lock", Publish(0, q))
  /\ UNCHANGED <<lockVars, wireVars, linkVars, sendVars, recvVars, storeVars,
                 eventVars>>

(* The check of isConnected is made before any lock is taken. *)
PublishCall(g) ==
  /\ isConnected
  /\ \E q \in QoSLevels : Begin(g, "Publish", "pub_lock", Publish(0, q))
  /\ UNCHANGED <<lockVars, wireVars, linkVars, sendVars, recvVars, storeVars,
                 eventVars>>

(* c.connMutex.Lock(); SetDeadline fails on a closed connection. *)
PublishLock(g) ==
  /\ At(g, "pub_lock")
  /\ ConnFree
  /\ \/ /\ conn = "closed"
        /\ Done(g)
        /\ UNCHANGED connMutex
     \/ /\ conn # "closed"
        /\ connMutex' = g
        /\ Goto(g, IF arg[g].qos > 0 THEN "pub_store" ELSE "pub_quota")
        /\ UNCHANGED <<arg, calls>>
  /\ UNCHANGED <<mutex, readers, wireVars, linkVars, sendVars, recvVars,
                 storeVars, eventVars>>

(* Under c.mutex: assign an identifier, store the packet under it.  An     *)
(* identifier that is already stored makes Publish return the error.       *)
PublishStore(g) ==
  /\ At(g, "pub_store")
  /\ MutexFree
  /\ \E id \in PubIds :
       \/ /\ HasStorage /\ Stored(id)
          /\ connMutex' = NoOne
          /\ Done(g)
          /\ UNCHANGED storage
       \/ /\ ~ (HasStorage /\ Stored(id))
          /\ storage' = IF HasStorage
                        THEN [storage EXCEPT ![id] = "PUBLISH"]
                        ELSE storage
          /\ arg' = [arg EXCEPT ![g].id = id]
          /\ Goto(g, "pub_quota")
          /\ UNCHANGED <<calls, connMutex>>
  /\ UNCHANGED <<mutex, readers, wireVars, linkVars, sendVars, recvVars, owed,
                 eventVars>>

(* Faulty variant: the quota is not waited for. *)
PublishQuotaIgnored(g) ==
  /\ At(g, "pub_quota")
  /\ Goto(g, "pub_send")
  /\ UNCHANGED <<connMutex, arg, calls, mutex, readers, wireVars, linkVars,
                 sendVars, recvVars, storeVars, eventVars>>

(* Faulty variant: connMutex is kept while the goroutine waits. *)
PublishQuotaLocked(g) ==
  /\ At(g, "pub_quota")
  /\ Goto(g, IF sendQuota = 0 /\ arg[g].qos > 0 THEN "pub_gate" ELSE "pub_send")
  /\ UNCHANGED <<connMutex, arg, calls, mutex, readers, wireVars, linkVars,
                 sendVars, recvVars, storeVars, eventVars>>

(* c.sendQuota is read without c.mutex.  With no quota left, connMutex is  *)
(* released and the goroutine goes to wait on pendingSendSemaphore.        *)
PublishQuota(g) ==
  /\ At(g, "pub_quota")
  /\ \/ /\ sendQuota = 0 /\ arg[g].qos > 0
        /\ connMutex' = NoOne
        /\ Goto(g, "pub_gate")
     \/ /\ ~ (sendQuota = 0 /\ arg[g].qos > 0)
        /\ Goto(g, "pub_send")
        /\ UNCHANGED connMutex
  /\ UNCHANGED <<arg, calls, mutex, readers, wireVars, linkVars, sendVars,
                 recvVars, storeVars, eventVars>>

(* The send on the unbuffered channel blocks: from here on, and not before, *)
(* Poll finds a sender to receive from.                                    *)
PublishPark(g) ==
  /\ At(g, "pub_gate")
  /\ Goto(g, "pub_parked")
  /\ UNCHANGED <<arg, calls, lockVars, wireVars, linkVars, sendVars, recvVars,
                 storeVars, eventVars>>

(* Released by Poll: take connMutex again; the quota is not read again. *)
PublishRelock(g) ==
  /\ At(g, "pub_relock")
  /\ ConnFree
  /\ connMutex' = g
  /\ Goto(g, "pub_send")
  /\ UNCHANGED <<arg, calls, mutex, readers, wireVars, linkVars, sendVars,
                 recvVars, storeVars, eventVars>>

(* Write the packet and release connMutex.  A failed write returns the     *)
(* error and leaves the packet in the storage.                             *)
PublishSend(g) ==
  /\ At(g, "pub_send")
  /\ connMutex' = NoOne
  /\ \/ /\ conn # "open"
        /\ Done(g)
        /\ UNCHANGED <<toServer, owed>>
     \/ /\ conn = "open"
        /\ Write(arg[g])
        /\ \/ /\ arg[g].qos > 0
              /\ owed' = owed \cup {arg[g].id}
              /\ Goto(g, "pub_count")
              /\ UNCHANGED <<arg, calls>>
           \/ /\ arg[g].qos = 0
              /\ Done(g)
              /\ UNCHANGED owed
  /\ UNCHANGED <<mutex, readers, conn, toClient, linkVars, sendVars, recvVars,
                 storage, eventVars>>

(* Faulty variant: the message is not counted. *)
PublishUncounted(g) ==
  /\ At(g, "pub_count")
  /\ MutexFree
  /\ Done(g)
  /\ UNCHANGED <<lockVars, wireVars, linkVars, sendVars, recvVars, storeVars,
                 eventVars>>

(* c.sendQuota--, under c.mutex, after connMutex was released. *)
PublishCount(g) ==
  /\ At(g, "pub_count")
  /\ MutexFree
  /\ sendQuota' = Dec(sendQuota)
  /\ Done(g)
  /\ UNCHANGED <<lockVars, wireVars, linkVars, serverReceiveMaximum, recvVars,
                 storeVars, eventVars>>

PublishStep(g) ==
  \/ PublishLock(g) \/ PublishStore(g) \/ PublishQuota(g) \/ PublishPark(g)
  \/ PublishRelock(g) \/ PublishSend(g) \/ PublishCount(g)
=============================================================================
