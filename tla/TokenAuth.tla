------------------------------ MODULE TokenAuth ------------------------------
(***************************************************************************)
(* PluginTokenAuth (src/autonomon/plugin_auth.py): the auth flow that all  *)
(* requests of a pipeline's concurrent tasks pass.  A request goes out     *)
(* with the shared token; on a 401 its task enters a lock, and acquires a  *)
(* new token unless another task has replaced the one that was rejected.   *)
(*                                                                         *)
(* A task leaves the flow at any await: its request is answered, fails, or *)
(* is cancelled by the timeout its layer puts around it.  Tokens are       *)
(* numbered in the order in which the device issues them, and the device   *)
(* may cease to accept one at any time.                                    *)
(***************************************************************************)
EXTENDS Integers, Sequences

CONSTANTS
  Callers,      (* the tasks that share the client                           *)
  None,
  MaxTokens     (* bound: tokens issued in a run                             *)

ASSUME AuthAssumption == None \notin Callers /\ MaxTokens \in Nat

VARIABLES
  token,      (* _token, NoToken before the first                            *)
  holder,     (* the task in the critical section of _lock, or None          *)
  waiters,    (* _lock's waiters, first come first served                    *)
  pc,         (* the await each task is in                                   *)
  seen,       (* the token in its request, or the stale one it refreshes     *)
  retry,      (* its request has been answered 401 once                      *)
  issued,     (* device: tokens issued                                       *)
  expired     (* device: tokens no longer accepted                           *)

vars == <<token, holder, waiters, pc, seen, retry, issued, expired>>

NoToken == 0

(* acquiring, granted: the exchange before and after the device's answer.    *)
Awaits == {"idle", "queued", "acquiring", "granted", "sent"}

-----------------------------------------------------------------------------
Init ==
  /\ token = NoToken
  /\ holder = None
  /\ waiters = <<>>
  /\ pc = [c \in Callers |-> "idle"]
  /\ seen = [c \in Callers |-> NoToken]
  /\ retry = [c \in Callers |-> FALSE]
  /\ issued = 0
  /\ expired = {}

At(c, await, value) ==
  /\ pc' = [pc EXCEPT ![c] = await]
  /\ seen' = [seen EXCEPT ![c] = value]

LockedTakesAny(c, stale) ==   (* mutant: any token will do *)
  IF token = NoToken
  THEN holder' = c /\ At(c, "acquiring", stale)
  ELSE holder' = None /\ At(c, "sent", token)

LockedAcquires(c, stale) ==   (* mutant: no second look at the token *)
  holder' = c /\ At(c, "acquiring", stale)

(* The body of _refresh up to its await, once the lock is acquired: the      *)
(* token is acquired, or another task's is used and the lock released.       *)
Locked(c, stale) ==
  IF token = stale
  THEN holder' = c /\ At(c, "acquiring", stale)
  ELSE holder' = None /\ At(c, "sent", token)

EnterUnlocked(c, stale) ==   (* mutant: no lock *)
  Locked(c, stale) /\ UNCHANGED waiters

(* _refresh: the lock is free and nobody queues for it, or the task queues.  *)
Enter(c, stale) ==
  IF holder = None /\ waiters = <<>>
  THEN Locked(c, stale) /\ UNCHANGED waiters
  ELSE waiters' = Append(waiters, c) /\ At(c, "queued", stale) /\ UNCHANGED holder

(* async_auth_flow up to its first await.                                    *)
Request(c) ==
  /\ pc[c] = "idle"
  /\ retry' = [retry EXCEPT ![c] = FALSE]
  /\ IF token = NoToken THEN Enter(c, NoToken) ELSE At(c, "sent", token) /\ UNCHANGED <<holder, waiters>>
  /\ UNCHANGED <<token, issued, expired>>

(* The first waiter wakes up in a free lock.                                 *)
Wake(c) ==
  /\ holder = None /\ waiters # <<>> /\ c = Head(waiters)
  /\ waiters' = Tail(waiters)
  /\ Locked(c, seen[c])
  /\ UNCHANGED <<token, retry, issued, expired>>

(* The device answers the token request.                                     *)
Grant(c) ==
  /\ pc[c] = "acquiring" /\ issued < MaxTokens
  /\ issued' = issued + 1
  /\ pc' = [pc EXCEPT ![c] = "granted"]
  /\ UNCHANGED <<token, holder, waiters, seen, retry, expired>>

(* _acquire returns; the token is stored, the lock released, the request sent. *)
Acquired(c) ==
  /\ pc[c] = "granted"
  /\ token' = issued
  /\ holder' = None
  /\ At(c, "sent", issued)
  /\ UNCHANGED <<waiters, retry, issued, expired>>

(* A 401: the flow refreshes and sends again, once.                          *)
Rejected(c) ==
  /\ pc[c] = "sent" /\ seen[c] \in expired /\ ~retry[c]
  /\ retry' = [retry EXCEPT ![c] = TRUE]
  /\ Enter(c, seen[c])
  /\ UNCHANGED <<token, issued, expired>>

(* A cancelled waiter gives up its place.                                    *)
Without(queue, c) ==
  IF \E i \in DOMAIN queue : queue[i] = c
  THEN LET place == CHOOSE i \in DOMAIN queue : queue[i] = c
       IN  SubSeq(queue, 1, place - 1) \o SubSeq(queue, place + 1, Len(queue))
  ELSE queue

LeaveLocked(c) ==   (* mutant: the lock is not released *)
  /\ pc[c] # "idle"
  /\ pc' = [pc EXCEPT ![c] = "idle"]
  /\ waiters' = Without(waiters, c)
  /\ UNCHANGED <<token, holder, seen, retry, issued, expired>>

(* The flow is over: its request was answered, also by a second 401, or it   *)
(* was cancelled, or the exchange raised.  async with releases the lock.     *)
Leave(c) ==
  /\ pc[c] # "idle"
  /\ pc' = [pc EXCEPT ![c] = "idle"]
  /\ waiters' = Without(waiters, c)
  /\ holder' = IF holder = c THEN None ELSE holder
  /\ UNCHANGED <<token, seen, retry, issued, expired>>

(* The device stops accepting a token.                                       *)
Expire ==
  /\ \E t \in 1 .. issued \ expired : expired' = expired \cup {t}
  /\ UNCHANGED <<token, holder, waiters, pc, seen, retry, issued>>

Next ==
  \/ \E c \in Callers : Request(c) \/ Wake(c) \/ Grant(c) \/ Acquired(c) \/ Rejected(c) \/ Leave(c)
  \/ Expire

Spec == Init /\ [][Next]_vars

(* A waiter that can run runs, and an exchange ends, by its timeout if by    *)
(* nothing else.  The device need not answer.                                *)
ExchangeEnds(c) == holder = c /\ (Acquired(c) \/ Leave(c))

FairSpec ==
  /\ Spec
  /\ \A c \in Callers : WF_vars(Wake(c)) /\ WF_vars(ExchangeEnds(c))

-----------------------------------------------------------------------------
(* The type invariant; the lock is held by the task that acquires.           *)
TypeOK ==
  /\ token \in 0 .. issued
  /\ issued \in Nat
  /\ expired \subseteq 1 .. issued
  /\ holder \in Callers \cup {None}
  /\ waiters \in Seq(Callers)
  /\ pc \in [Callers -> Awaits]
  /\ seen \in [Callers -> Nat]
  /\ retry \in [Callers -> BOOLEAN]
  /\ \A c \in Callers : pc[c] \in {"acquiring", "granted"} <=> holder = c

(* Single flight: a new token is acquired only while the shared one is of no *)
(* use, so however many 401s a stale token earns, also late ones, a token    *)
(* that the device accepts is not thrown away (_refresh).                    *)
AcquiresOnlyWhenStale == holder # None => token = NoToken \/ token \in expired

(* A request that was answered 401 goes out again with a newer token than    *)
(* the one rejected, whoever acquired it (async_auth_flow).                  *)
RetryUsesNewToken ==
  [][\A c \in Callers :
       retry'[c] /\ pc'[c] = "sent" /\ ~(retry[c] /\ pc[c] = "sent") => seen'[c] > seen[c]]_vars

(* No task queues for ever: whatever happens to the holder, the lock is      *)
(* passed on.                                                                *)
LockIsPassedOn == \A c \in Callers : pc[c] = "queued" ~> pc[c] # "queued"
=============================================================================
