----------------------------- MODULE ClientPool -----------------------------
(***************************************************************************)
(* The pool of connected workers (internal/client/pool.go) and the part of *)
(* a client the orchestrator uses (internal/client/client.go): its task    *)
(* counter and the render-task messages sent to it.                        *)
(*                                                                         *)
(* A member of ClientIDs is one connection: NewClient takes a fresh id     *)
(* from a process-wide counter, so an id that left never comes back.       *)
(***************************************************************************)
EXTENDS Integers, FiniteSets

CONSTANTS
  ClientIDs,     \* connections that may ever be opened
  NoClient,      \* the value of a *Client variable before its first assignment
  maxClients     \* cap on the pool; <= 0 means unlimited

ASSUME ClientPoolAssumption ==
  /\ IsFiniteSet(ClientIDs)
  /\ NoClient \notin ClientIDs
  /\ maxClients \in Int

VARIABLES
  clients,          \* the pool: connections admitted and not yet closed
  gone,             \* connections closed or rejected
  poolWait,         \* goroutines parked in p.cond.Wait()
  numRenderTasks,   \* client -> the id its next render task gets
  requests          \* render-task messages on their way to, or held by, a worker

poolVars == <<clients, gone, poolWait, numRenderTasks, requests>>

NewClientPool ==
  /\ clients = {}
  /\ gone = {}
  /\ poolWait = {}
  /\ numRenderTasks = [c \in ClientIDs |-> 0]
  /\ requests = {}

----------------------------------------------------------------------------
(* Membership.                                                             *)

AtCapacity == maxClients > 0 /\ Cardinality(clients) >= maxClients

\* Mutant: nobody is woken.
AddClientSilently(client) ==
  /\ client \notin clients \cup gone
  /\ IF AtCapacity
     THEN gone' = gone \cup {client} /\ UNCHANGED clients
     ELSE clients' = clients \cup {client} /\ UNCHANGED gone
  /\ UNCHANGED <<poolWait, numRenderTasks, requests>>

\* AddClient: refused at capacity (the server then closes the connection),
\* otherwise inserted and every parked goroutine woken, under one lock.
AddClient(client) ==
  /\ client \notin clients \cup gone
  /\ IF AtCapacity
     THEN gone' = gone \cup {client} /\ UNCHANGED <<clients, poolWait>>
     ELSE clients' = clients \cup {client} /\ poolWait' = {} /\ UNCHANGED gone
  /\ UNCHANGED <<numRenderTasks, requests>>

\* Client.Close, once per client: it leaves the pool and never returns.
RemoveClient(client) ==
  /\ client \in clients
  /\ clients' = clients \ {client}
  /\ gone' = gone \cup {client}
  /\ UNCHANGED <<poolWait, numRenderTasks, requests>>

\* p.cond.Wait(), in WaitForAtLeastOne and in PickNewClient.
PoolPark(thread) ==
  /\ clients = {}
  /\ poolWait' = poolWait \cup {thread}
  /\ UNCHANGED <<clients, gone, numRenderTasks, requests>>

----------------------------------------------------------------------------
(* One client.                                                             *)

\* The id GenerateNewRenderTaskID returns, and its side effect.
NewRenderTaskID(client) == numRenderTasks[client]

GenerateNewRenderTaskID(client) ==
  numRenderTasks' = [numRenderTasks EXCEPT ![client] = @ + 1]

\* RequestWork: a message queued for a client that was torn down is never
\* written; one queued for a connected client may be answered late, several
\* times, or (dropped by a full queue, lost with the connection) never.
RequestWork(client, renderTaskID, startFrame) ==
  requests' = IF client \in clients
              THEN requests \cup
                     {[client |-> client, id |-> renderTaskID, start |-> startFrame]}
              ELSE requests
=============================================================================
