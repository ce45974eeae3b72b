--------------------------- MODULE VehicleAction ---------------------------
(***************************************************************************)
(* The action layer (src/autonomon/action/vehicle.py) and the device it    *)
(* posts to.  One task takes plans from the queue, posts their actions in  *)
(* priority order with retries, issues a safety stop when a motion command *)
(* is given up, and re-issues the last plan to renew its leases while no   *)
(* new one arrives.                                                        *)
(*                                                                         *)
(* Time is counted in ticks.  wait is what is left of the timeout or sleep *)
(* the task is suspended in; Tick does not pass a moment at which the task *)
(* is due to run, so the event loop is taken to be prompt.  The device and *)
(* the network are external and modelled from what the code relies on: a   *)
(* motion command sets a lease, a watchdog idles the channel when it       *)
(* lapses, and a request the client has given up may still arrive.         *)
(***************************************************************************)
EXTENDS Integers, Sequences, FiniteSetsExt

CONSTANTS
  None,
  Plans,          (* ActionPlans: sets of actions with distinct priorities   *)
  Capacity,       (* maxsize of the plan queue                               *)
  Poll,           (* _QUEUE_GET_TIMEOUT_S                                    *)
  Renew,          (* _renew_interval_s                                       *)
  Lease,          (* _ttl_ms                                                 *)
  Timeout,        (* _timeout_s                                              *)
  MaxRetries,     (* _max_retries                                            *)
  Backoff,        (* _backoff_base_s, at least a tick                        *)
  Latency,        (* the longest the network keeps a request, up to Timeout  *)
  Faults,         (* what can go wrong: a subset of {"error", "reject"}      *)
  MaxLate,        (* bound on given-up requests still in the network         *)
  Watch           (* bound on the history sincePut                           *)

(* Plans are finite lists.  A priority stands for the action's place in the  *)
(* sorted list, counted from 0: no two actions of a plan share one.          *)
ASSUME VehicleAssumption ==
  /\ {Capacity, Poll, Renew, Lease, Timeout, MaxRetries, Backoff} \subseteq Nat
  /\ {Latency, MaxLate, Watch} \subseteq Nat
  /\ \A p \in Plans : IsFiniteSet(p) /\ \A a \in p : a.priority \in Nat
  /\ \A p \in Plans : \A a, b \in p : a.priority = b.priority => a = b
  /\ None \notin Plans

Endpoints == {"drive", "steer", "stop", "pan", "tilt"}
Motion == {"drive", "steer"}

VARIABLES
  queue,          (* plans put by the planner and not yet taken              *)
  pc,             (* "get", "post", "backoff", "halt" (_safety_stop), or     *)
                  (* "over": run has returned, or its task or process died   *)
  wait,           (* time left of the await                                  *)
  lastPlan,       (* _last_plan                                              *)
  sinceCommand,   (* loop.time() - _last_command_monotonic, up to Renew; in  *)
                  (* a renewal, since the now it will be set to              *)
  renewing,       (* _execute was called by _renew_if_due                    *)
  todo,           (* the actions of _execute's loop not yet finished         *)
  attempt,        (* _post_with_retries' loop variable                       *)
  wire,           (* the awaited request: "sent" or, at the device, "taken"  *)
  late,           (* given-up requests that can still reach the device       *)
  device,         (* per motion channel: the value set and its lease left    *)
  stopping,       (* _stop                                                   *)
  newest,         (* history: the last plan taken from the queue             *)
  sinceTaken,     (* history: time since then, up to Lease                   *)
  disturbed,      (* history: a given-up request arrived since then          *)
  busy,           (* history: time since this _execute began                 *)
  lastPut,        (* history: the last plan the planner put                  *)
  sincePut        (* history: time since then, up to Watch                   *)

clientVars == <<pc, wait, lastPlan, sinceCommand, renewing, todo, attempt>>
historyVars == <<newest, sinceTaken, disturbed, busy>>
callVars == <<stopping, lastPut, sincePut>>
vars == <<queue, clientVars, wire, late, device, historyVars, callVars>>

(* An unknown method or a missing parameter yields a failed result and no    *)
(* request, so only these actions matter to the device.                      *)
Dispatchable(action) ==
  action.method \in Endpoints /\ (action.method = "stop" \/ action.arg # None)
Requests(plan) == {a \in plan : Dispatchable(a)}

(* sorted(plan.actions, key=priority)                                        *)
First(actions) == CHOOSE a \in actions : \A b \in actions : a.priority <= b.priority

Body(action) == [method |-> action.method, arg |-> action.arg, lease |-> Lease]
StopBody == [method |-> "stop", arg |-> None, lease |-> 0]
Bodies == {Body(a) : a \in UNION {Requests(p) : p \in Plans}} \cup {StopBody}

(* The request the task is awaiting.                                         *)
Awaited == IF pc = "halt" THEN StopBody ELSE Body(First(todo))

-----------------------------------------------------------------------------
(* The device: a command sets its channel and the channel's lease; the stop  *)
(* endpoint idles the motors; camera commands move nothing modelled here.    *)
Idle == [value |-> None, lease |-> 0]

Obey(body) ==
  CASE body.method \in Motion -> [device EXCEPT ![body.method] =
                                    [value |-> body.arg, lease |-> body.lease]]
    [] body.method = "stop"   -> [device EXCEPT !["drive"] = Idle]
    [] OTHER                  -> device

Watchdog(channel) ==
  IF channel.lease \in {0, 1} THEN Idle ELSE [channel EXCEPT !.lease = @ - 1]

InNetwork(body) == late[body] > 0
Crowded == MapThenSumSet(LAMBDA b : late[b], Bodies) >= MaxLate

(* Giving up on a request that has not arrived: it is lost or arrives late.  *)
Abandon ==
  \/ late' = late
  \/ wire = "sent" /\ ~Crowded /\ late' = [late EXCEPT ![Awaited] = @ + 1]

-----------------------------------------------------------------------------
Init ==
  /\ queue = <<>>
  /\ pc = "get" /\ wait = Poll
  /\ lastPlan = None
  /\ sinceCommand = Renew          (* _last_command_monotonic starts at 0.0  *)
  /\ renewing = FALSE
  /\ todo = {} /\ attempt = 0
  /\ wire = "none"
  /\ late = [b \in Bodies |-> 0]
  /\ device = [ch \in Motion |-> Idle]
  /\ stopping = FALSE
  /\ newest = None /\ sinceTaken = 0 /\ disturbed = FALSE
  /\ busy = 0
  /\ lastPut = None /\ sincePut = 0

(* The planner's put.                                                        *)
PlanArrives(plan) ==
  /\ Len(queue) < Capacity
  /\ queue' = Append(queue, plan)
  /\ lastPut' = plan /\ sincePut' = 0
  /\ UNCHANGED <<clientVars, wire, late, device, historyVars, stopping>>

Send(place, n) ==
  pc' = place /\ attempt' = n /\ wait' = Timeout /\ wire' = "sent"

IgnoreStop == pc' = "get" /\ wait' = Poll   (* mutant: run loops for ever *)

(* The top of run's loop, up to its await.                                   *)
NextTurn ==
  IF stopping THEN pc' = "over" /\ wait' = 0 ELSE pc' = "get" /\ wait' = Poll

(* The rest of _execute and, when nothing is left, of run's turn, up to the  *)
(* next await.  since is what sinceCommand is when the turn ends.            *)
Continue(requests, since) ==
  /\ todo' = requests
  /\ sinceCommand' = since
  /\ IF requests = {}
     THEN NextTurn /\ attempt' = 0 /\ wire' = "none"
     ELSE Send("post", 0)

TakePlanUnretained ==   (* mutant: the new plan is executed but not retained *)
  /\ pc = "get" /\ queue # <<>>
  /\ queue' = Tail(queue)
  /\ lastPlan' = IF lastPlan = None THEN Head(queue) ELSE lastPlan
  /\ renewing' = FALSE
  /\ Continue(Requests(Head(queue)), 0)
  /\ newest' = Head(queue) /\ sinceTaken' = 0 /\ disturbed' = FALSE /\ busy' = 0
  /\ UNCHANGED <<late, device, callVars>>

(* run: get returns a plan; it is retained and its execution begins.         *)
TakePlan ==
  /\ pc = "get" /\ queue # <<>>
  /\ queue' = Tail(queue)
  /\ lastPlan' = Head(queue)
  /\ renewing' = FALSE
  /\ Continue(Requests(Head(queue)), 0)
  /\ newest' = Head(queue) /\ sinceTaken' = 0 /\ disturbed' = FALSE /\ busy' = 0
  /\ UNCHANGED <<late, device, callVars>>

RenewalDue == lastPlan # None /\ sinceCommand >= Renew

NeverRenew ==   (* mutant: the idle branch only loops *)
  /\ pc = "get" /\ wait = 0
  /\ wait' = Poll
  /\ UNCHANGED <<queue, pc, lastPlan, sinceCommand, renewing, todo, attempt, wire,
                 late, device, historyVars, callVars>>

(* run: get times out; _renew_if_due re-issues the plan or returns.          *)
IdlePoll ==
  /\ pc = "get" /\ wait = 0
  /\ IF RenewalDue
     THEN /\ renewing' = TRUE
          /\ Continue(Requests(lastPlan), 0)
          /\ busy' = 0
     ELSE /\ NextTurn
          /\ UNCHANGED <<renewing, todo, sinceCommand, attempt, wire, busy>>
  /\ UNCHANGED <<queue, lastPlan, late, device, newest, sinceTaken, disturbed, callVars>>

(* The awaited request reaches the device.                                   *)
Reach ==
  /\ pc \in {"post", "halt"} /\ wire = "sent"
  /\ wire' = "taken"
  /\ device' = Obey(Awaited)
  /\ UNCHANGED <<queue, clientVars, late, newest, sinceTaken, disturbed, busy, callVars>>

(* _execute goes on with the next action.                                    *)
NextAction ==
  /\ Continue(todo \ {First(todo)}, IF renewing THEN sinceCommand ELSE 0)
  /\ UNCHANGED <<queue, lastPlan, renewing, device, newest, sinceTaken, disturbed, busy, callVars>>

(* A 2xx, parseable or not: the action is done either way.                   *)
Answered ==
  /\ pc = "post" /\ wire = "taken"
  /\ NextAction
  /\ UNCHANGED late

(* A 4xx: the device refused the command, and it is not retried.             *)
Rejected ==
  /\ "reject" \in Faults
  /\ pc = "post" /\ wire = "sent"
  /\ NextAction
  /\ UNCHANGED late

(* 2 ** n                                                                    *)
PowerOfTwo[n \in Nat] == IF n = 0 THEN 1 ELSE 2 * PowerOfTwo[n - 1]

RetryTooOften ==   (* mutant: one retry too many *)
  IF attempt <= MaxRetries
  THEN /\ pc' = "backoff" /\ wait' = Backoff * PowerOfTwo[attempt] /\ wire' = "none"
       /\ UNCHANGED <<queue, lastPlan, sinceCommand, renewing, todo, attempt, device,
                      historyVars, callVars>>
  ELSE IF First(todo).method \in Motion
  THEN /\ Send("halt", attempt)
       /\ UNCHANGED <<queue, lastPlan, sinceCommand, renewing, todo, device,
                      historyVars, callVars>>
  ELSE NextAction

(* An attempt failed: back off, or give up and, for motion, stop the motors. *)
Retry ==
  IF attempt < MaxRetries
  THEN /\ pc' = "backoff" /\ wait' = Backoff * PowerOfTwo[attempt] /\ wire' = "none"
       /\ UNCHANGED <<queue, lastPlan, sinceCommand, renewing, todo, attempt, device,
                      historyVars, callVars>>
  ELSE IF First(todo).method \in Motion
  THEN /\ Send("halt", attempt)
       /\ UNCHANGED <<queue, lastPlan, sinceCommand, renewing, todo, device,
                      historyVars, callVars>>
  ELSE NextAction

(* A 5xx or a connection error, with or without effect at the device.        *)
Failed ==
  /\ "error" \in Faults
  /\ pc = "post"
  /\ Abandon
  /\ Retry

(* wait_for cancels the request.                                             *)
TimedOut ==
  /\ pc = "post" /\ wait = 0
  /\ Abandon
  /\ Retry

BackoffEnds ==
  /\ pc = "backoff" /\ wait = 0
  /\ Send("post", attempt + 1)
  /\ UNCHANGED <<queue, lastPlan, sinceCommand, renewing, todo, late, device, historyVars, callVars>>

(* _safety_stop returns: answered (with any status), failed or timed out.    *)
SafetyStopEnds ==
  /\ pc = "halt"
  /\ \/ wire = "taken" /\ UNCHANGED late
     \/ (wait = 0 \/ "error" \in Faults) /\ Abandon
  /\ NextAction

(* A request the client gave up reaches the device.                          *)
LateArrives(body) ==
  /\ InNetwork(body)
  /\ late' = [late EXCEPT ![body] = @ - 1]
  /\ device' = Obey(body)
  /\ disturbed' = TRUE
  /\ UNCHANGED <<queue, clientVars, wire, newest, sinceTaken, busy, callVars>>

(* stop: the flag is looked at where run's loop begins a turn.               *)
Stop ==
  /\ ~stopping /\ stopping' = TRUE
  /\ UNCHANGED <<queue, clientVars, wire, late, device, historyVars, lastPut, sincePut>>

(* The routine's process dies, or the task: on an exception nobody catches,  *)
(* or cancelled by its slot.                                                 *)
Crash ==
  /\ pc # "over"
  /\ pc' = "over" /\ wait' = 0 /\ attempt' = 0 /\ todo' = {} /\ wire' = "none"
  /\ Abandon
  /\ UNCHANGED <<queue, lastPlan, sinceCommand, renewing, device, historyVars, callVars>>

UpTo(bound, n) == IF n < bound THEN n + 1 ELSE n

(* Time passes unless the task is due to run or the request is overdue.      *)
Tick ==
  /\ pc # "over" => wait > 0
  /\ pc = "get" => queue = <<>>
  /\ pc \in {"post", "halt"} => Timeout - wait < Latency
  /\ wait' = IF pc = "over" THEN 0 ELSE wait - 1
  /\ device' = [ch \in Motion |-> Watchdog(device[ch])]
  /\ sinceCommand' = UpTo(Renew, sinceCommand)
  /\ sinceTaken' = UpTo(Lease, sinceTaken)
  /\ busy' = IF pc \in {"get", "over"} THEN 0 ELSE busy + 1
  /\ sincePut' = IF lastPut = None THEN 0 ELSE UpTo(Watch, sincePut)
  /\ UNCHANGED <<queue, pc, lastPlan, renewing, todo, attempt, wire, late, newest,
                 disturbed, stopping, lastPut>>

Next ==
  \/ \E plan \in Plans : PlanArrives(plan)
  \/ TakePlan
  \/ IdlePoll
  \/ Reach
  \/ Answered
  \/ Rejected
  \/ Failed
  \/ TimedOut
  \/ BackoffEnds
  \/ SafetyStopEnds
  \/ \E body \in Bodies : LateArrives(body)
  \/ Stop
  \/ Crash
  \/ Tick

Spec == Init /\ [][Next]_vars

(* What the task does when its await ends.                                   *)
Resumes ==
  \/ TakePlan
  \/ IdlePoll
  \/ Answered
  \/ Rejected
  \/ Failed
  \/ TimedOut
  \/ BackoffEnds
  \/ SafetyStopEnds

(* The clock advances, the event loop resumes a task that is due, and the    *)
(* network does not hold a request for ever.                                 *)
FairSpec ==
  /\ Spec
  /\ WF_vars(Tick) /\ WF_vars(Resumes)
  /\ \A body \in Bodies : WF_vars(LateArrives(body))

-----------------------------------------------------------------------------
Values == {a.arg : a \in UNION Plans} \cup {None}

(* The type invariant.                                                       *)
TypeOK ==
  /\ queue \in Seq(Plans) /\ Len(queue) <= Capacity
  /\ pc \in {"get", "post", "backoff", "halt", "over"}
  /\ wait \in Nat
  /\ lastPlan \in Plans \cup {None} /\ newest \in Plans \cup {None}
  /\ sinceCommand \in 0 .. Renew
  /\ renewing \in BOOLEAN /\ stopping \in BOOLEAN /\ disturbed \in BOOLEAN
  /\ lastPlan # None => todo \subseteq Requests(lastPlan)
  /\ todo = {} <=> pc \in {"get", "over"}
  /\ attempt \in 0 .. MaxRetries
  /\ wire \in {"none", "sent", "taken"}
  /\ late \in [Bodies -> Nat]
  /\ device \in [Motion -> [value : Values, lease : 0 .. Lease]]
  /\ sinceTaken \in 0 .. Lease /\ busy \in Nat
  /\ lastPut \in Plans \cup {None} /\ sincePut \in 0 .. Watch

Asked(plan, ch) == {a.arg : a \in {b \in Requests(plan) : b.method = ch}}

Live(ch) == device[ch].value # None

(* Motion an earlier plan commanded is never renewed once a newer plan is    *)
(* taken: whatever fails, it lapses within one lease, unless a request the   *)
(* client had given up arrives meanwhile (run retains the newest plan, and   *)
(* _renew_if_due re-issues only that).                                       *)
StaleMotionLapses ==
  \A ch \in Motion :
    newest # None /\ ~disturbed /\ Live(ch) /\ device[ch].value \notin Asked(newest, ch)
      => sinceTaken + device[ch].lease <= Lease

(* The longest some requests can keep the next plan waiting: every attempt   *)
(* of every one times out, and every motion command is followed by a stop    *)
(* (_post_with_retries, _backoff_sleep, _safety_stop).                       *)
Request == Timeout * (MaxRetries + 1) + Backoff * (PowerOfTwo[MaxRetries] - 1)
Cost(requests) ==
  LET moves == {a \in requests : a.method \in Motion}
  IN  Cardinality(requests) * Request + Cardinality(moves) * Timeout

(* Retries are bounded: an execution ends within the time of its attempts.   *)
ExecutionBounded == newest # None => busy <= Cost(Requests(newest))

(* A request that sets a channel, to move or to idle.                        *)
Sets(a, ch) == a.method = ch \/ (a.method = "stop" /\ ch = "drive")

(* What a plan leaves in force: the motion commands no later action undoes.  *)
Lasting(plan) ==
  {a \in Requests(plan) : a.method \in Motion /\
     \A b \in Requests(plan) : b.priority > a.priority => ~Sets(b, a.method)}

Undoes(plan, a) == \E b \in Requests(plan) \ {a} : Sets(b, a.method)

MostRequests == Max({Cardinality(Requests(p)) : p \in Plans})

(* Requests succeed, within Latency and before the client gives up, and the  *)
(* plans are of bounded length.                                              *)
Prompt ==
  /\ Faults = {} /\ Latency < Timeout /\ Poll > 0 /\ Lease > 0
  /\ MostRequests \in Nat /\ \A p \in Plans : Cardinality(Requests(p)) <= MostRequests

(* A lease outlasts the answer of the command that set it, the interval and  *)
(* the poll before the renewal and the requests ahead of it there.           *)
LeaseLasts == Renew > 0 /\ Renew + Poll + (MostRequests + 1) * Latency <= Lease

(* While Prompt and LeaseLasts hold, the robot does not stall: between plans *)
(* every motion the plan leaves in force keeps its lease, and in a renewal   *)
(* too unless the plan itself sets the channel otherwise first (class        *)
(* docstring, "Lease renewal").                                              *)
NoStall ==
  newest # None =>
    \A a \in Lasting(newest) :
      pc = "get" \/ (pc = "post" /\ renewing /\ ~Undoes(newest, a))
        => device[a.method].value = a.arg

(* The time of a full queue and the execution or renewal under way.          *)
Backlog == (Capacity + 1) * (MostRequests * Latency)

(* While Prompt holds, motion that the planner's last plan does not ask for  *)
(* is over once the backlog is executed, or, on a channel that plan does not *)
(* set, a lease later (run's order of its queue; the TTL).                   *)
ReactsInTime ==
  \A ch \in Motion :
    lastPut # None /\ pc # "over" /\ Live(ch) /\ device[ch].value \notin Asked(lastPut, ch)
      => sincePut <= IF \E a \in Requests(lastPut) : Sets(a, ch) THEN Backlog ELSE Backlog + Lease

AtRest == \A ch \in Motion : ~Live(ch)

(* Once the layer is told to stop, or its task or process dies, the robot    *)
(* comes to rest and stays at rest: nobody commands a stop, but the plan     *)
(* under way ends, no later one is renewed, and what is in force lapses      *)
(* (stop, run's loop; the TTL in every command).                             *)
EndsAtRest == (stopping \/ pc = "over") ~> []AtRest
=============================================================================
