------------------------------- MODULE Plugin -------------------------------
(***************************************************************************)
(* The plugin process (src/autonomon/routines/cli.py, reporting.py): main, *)
(* asyncio.run and run, from the checks of the environment to the exit     *)
(* code, with the events written to stdout and those posted to nomothetic. *)
(* The pipeline is PipelineRun, which Pipeline implements.                 *)
(*                                                                         *)
(* asyncio.run (external, Python 3.12): the first interrupt cancels the    *)
(* task of run(); a later one raises KeyboardInterrupt, upon which the     *)
(* tasks left are cancelled and awaited; one more abandons them.           *)
(***************************************************************************)
EXTENDS Naturals, Sequences, SequencesExt

CONSTANT MaxInterrupts      (* bound on the interrupts sent to the process   *)

VARIABLES
  life, failed, outcome,    (* the pipeline                                  *)
  pc,           (* "main", the await of run(): "announce", "pipeline",       *)
                (* "farewell" (the last post), "close" (aclose); "leave"     *)
                (* (asyncio.run, after run()), or "over"                     *)
  leaving,      (* how run() ends: with "0", "1", "cancelled" or "raised"    *)
  interrupts,   (* the interrupts so far                                     *)
  forced,       (* asyncio.run is left by a KeyboardInterrupt                *)
  events,       (* the events on stdout                                      *)
  told,         (* the events nomothetic has received                        *)
  strays,       (* given-up posts that can still arrive                      *)
  gaveUp,       (* history: some post was given up                           *)
  exit          (* the exit code, "killed" for a process that was            *)

pipelineVars == <<life, failed, outcome>>
postVars == <<told, strays, gaveUp>>
vars == <<pipelineVars, postVars, pc, leaving, interrupts, forced, events, exit>>

Pipeline == INSTANCE PipelineRun

Running == {"announce", "pipeline", "farewell", "close"}
Terminal == {"stopping", "error"}

Init ==
  /\ Pipeline!Init
  /\ pc = "main" /\ leaving = "none" /\ exit = "none"
  /\ interrupts = 0 /\ forced = FALSE
  /\ events = <<>>
  /\ told = <<>> /\ strays = {} /\ gaveUp = FALSE

-----------------------------------------------------------------------------
(* Leaving the process with an exit code, after the events of says.          *)
Exit(says, code) ==
  /\ events' = events \o says
  /\ pc' = "over" /\ exit' = code
  /\ UNCHANGED <<pipelineVars, postVars, leaving, interrupts, forced>>

(* main refuses its environment: no URL, no JSON object, no usable auth.     *)
Refuse == pc = "main" /\ Exit(<<"error">>, "1")

(* An exception that main catches nowhere: an env file that is not UTF-8, a  *)
(* key that is encrypted.                                                    *)
MainRaises == pc = "main" /\ Exit(<<>>, "1")

(* run() emits an event and goes on to place.                                *)
Say(event, place, how) ==
  /\ events' = Append(events, event)
  /\ pc' = place /\ leaving' = how

(* run() up to its first await, or to its end.                               *)
RunBegins ==
  /\ pc = "main"
  /\ UNCHANGED <<pipelineVars, postVars, interrupts, forced, exit>>
  /\ \/ (* no such routine *)
        events' = <<"starting", "error">> /\ pc' = "leave" /\ leaving' = "1"
     \/ (* the client cannot be built: a malformed URL *)
        events' = <<"starting">> /\ pc' = "leave" /\ leaving' = "raised"
     \/ (* the factory raises: a parameter out of range *)
        events' = <<"starting", "error">> /\ pc' = "farewell" /\ leaving' = "1"
     \/ events' = <<"starting", "running">> /\ pc' = "announce" /\ leaving' = "none"

(* StatusReporter.report: the post of the last event is answered, or fails   *)
(* or times out with the event received, lost or under way.                  *)
Received == told' = Append(told, Last(events)) /\ UNCHANGED strays
GiveUp ==
  /\ gaveUp' = TRUE
  /\ \/ Received
     \/ UNCHANGED <<told, strays>>
     \/ strays' = strays \cup {Last(events)} /\ UNCHANGED told

Posting == pc \in {"announce", "farewell"}

(* What follows a post, however it ended.                                    *)
AfterPost ==
  /\ IF pc = "announce"
     THEN pc' = "pipeline" /\ Pipeline!Start
     ELSE pc' = "close" /\ UNCHANGED pipelineVars
  /\ UNCHANGED <<leaving, interrupts, forced, events, exit>>

PostAnswered == Posting /\ Received /\ UNCHANGED gaveUp /\ AfterPost

PostRetried ==   (* mutant: the reporter tries again until it is answered *)
  Posting /\ UNCHANGED vars

PostFails == Posting /\ GiveUp /\ AfterPost

StrayArrives ==
  /\ \E event \in strays :
       told' = Append(told, event) /\ strays' = strays \ {event}
  /\ UNCHANGED <<pipelineVars, pc, leaving, interrupts, forced, events, gaveUp, exit>>

(* The pipeline's own steps.                                                 *)
LayerRaises ==
  /\ pc = "pipeline" /\ Pipeline!LayerRaises
  /\ UNCHANGED <<postVars, pc, leaving, interrupts, forced, events, exit>>

PipelineWakes ==
  /\ pc = "pipeline" /\ Pipeline!Wakes
  /\ UNCHANGED <<postVars, pc, leaving, interrupts, forced, events, exit>>

EndUnposted ==   (* mutant: the last event is emitted but not reported *)
  /\ pc = "pipeline"
  /\ Pipeline!Stops
  /\ \/ outcome = "returned" /\ Say("stopping", "close", "0")
     \/ outcome = "raised" /\ Say("error", "close", "1")
     \/ outcome = "cancelled" /\ Say("stopping", "close", "cancelled")
  /\ UNCHANGED <<postVars, interrupts, forced, exit>>

EndAsSuccess ==   (* mutant: the error handler falls through to return 0 *)
  /\ pc = "pipeline"
  /\ Pipeline!Stops
  /\ \/ outcome = "returned" /\ Say("stopping", "farewell", "0")
     \/ outcome = "raised" /\ Say("error", "farewell", "0")
     \/ outcome = "cancelled" /\ Say("stopping", "farewell", "cancelled")
  /\ UNCHANGED <<postVars, interrupts, forced, exit>>

(* pipeline.run() ends, and run() says how.                                  *)
PipelineEnds ==
  /\ pc = "pipeline"
  /\ Pipeline!Stops
  /\ \/ outcome = "returned" /\ Say("stopping", "farewell", "0")
     \/ outcome = "raised" /\ Say("error", "farewell", "1")
     \/ outcome = "cancelled" /\ Say("stopping", "farewell", "cancelled")
  /\ UNCHANGED <<postVars, interrupts, forced, exit>>

Closed ==
  /\ pc = "close" /\ pc' = "leave"
  /\ UNCHANGED <<pipelineVars, postVars, leaving, interrupts, forced, events, exit>>

(* asyncio.run ends: it returns or raises what run() did, or, if that was an *)
(* interrupt, KeyboardInterrupt, of which main says that it stops.           *)
Leave ==
  /\ pc = "leave"
  /\ IF forced \/ leaving = "cancelled"
     THEN Exit(<<"stopping">>, "0")
     ELSE Exit(<<>>, IF leaving = "raised" THEN "1" ELSE leaving)

-----------------------------------------------------------------------------
(* A CancelledError in the await of run().                                   *)
CancelLands ==
  \/ /\ pc = "announce" \/ (pc = "farewell" /\ leaving = "0")
     /\ GiveUp /\ Say("stopping", "farewell", "cancelled")
     /\ UNCHANGED pipelineVars
  \/ (* within an except clause: it replaces what was to come *)
     /\ pc = "farewell" /\ leaving # "0"
     /\ GiveUp /\ pc' = "close" /\ leaving' = "cancelled"
     /\ UNCHANGED <<pipelineVars, events>>
  \/ /\ pc = "close" /\ pc' = "leave" /\ leaving' = "cancelled"
     /\ UNCHANGED <<pipelineVars, postVars, events>>
  \/ /\ pc = "pipeline" /\ life = "waiting"
     /\ Pipeline!Cancelled
     /\ UNCHANGED <<postVars, pc, leaving, events>>
  \/ (* the slot that is being stopped swallows it *)
     /\ pc = "pipeline" /\ life = "stopping"
     /\ UNCHANGED <<pipelineVars, postVars, pc, leaving, events>>

Interrupted == interrupts < MaxInterrupts /\ interrupts' = interrupts + 1

(* SIGINT while run() is suspended: it is cancelled, by the second one       *)
(* together with everything else.                                            *)
InterruptCancels ==
  /\ pc \in Running /\ ~forced
  /\ Interrupted
  /\ forced' = (interrupts > 0)
  /\ CancelLands
  /\ UNCHANGED exit

(* SIGINT while asyncio.run cleans up: what is left is abandoned.            *)
InterruptAbandons ==
  /\ pc = "leave" \/ (pc \in Running /\ forced)
  /\ Interrupted
  /\ pc' = "over" /\ exit' = "0" /\ events' = Append(events, "stopping")
  /\ IF Posting THEN GiveUp ELSE UNCHANGED postVars
  /\ UNCHANGED <<pipelineVars, leaving, forced>>

(* SIGTERM or SIGKILL, or SIGINT in main.                                    *)
Killed ==
  /\ pc # "over" /\ pc' = "over" /\ exit' = "killed"
  /\ IF Posting THEN GiveUp ELSE UNCHANGED postVars
  /\ UNCHANGED <<pipelineVars, leaving, interrupts, forced, events>>

Next ==
  \/ Refuse
  \/ MainRaises
  \/ RunBegins
  \/ PostAnswered
  \/ PostFails
  \/ StrayArrives
  \/ LayerRaises
  \/ PipelineWakes
  \/ PipelineEnds
  \/ Closed
  \/ Leave
  \/ InterruptCancels
  \/ InterruptAbandons
  \/ Killed

Spec == Init /\ [][Next]_vars

(* A post ends, by its timeout if not before (_REQUEST_TIMEOUT_S); the       *)
(* pipeline keeps its promise; what run() and asyncio.run have left to do    *)
(* they do.                                                                  *)
FairSpec ==
  /\ Spec
  /\ WF_vars(PostFails)
  /\ WF_vars(failed /\ PipelineWakes)
  /\ WF_vars(PipelineEnds)
  /\ WF_vars(Closed) /\ WF_vars(Leave)

-----------------------------------------------------------------------------
(* The layers run only between "running" and the event that ends the run:    *)
(* as long as they may move the robot, the last event says that they run     *)
(* (run: the pipeline's finally comes before any handler's event).           *)
AnnouncedWhileRunning ==
  pc # "over" /\ life \in {"waiting", "stopping"} => Last(events) = "running"

(* The exit code and the last event agree however the process was            *)
(* interrupted, nothing follows the first terminal event but "stopping", and *)
(* an error ends in exit code 0 only after an interrupt (main; the           *)
(* exceptions nobody catches leave the last event as it was).                *)
LastWord ==
  /\ exit = "0" => Last(events) = "stopping"
  /\ exit = "1" => events \in {<<>>, <<"starting">>} \/ Last(events) = "error"
  /\ exit = "0" /\ Contains(events, "error") => interrupts > 0
  /\ \A i, j \in DOMAIN events :
       i < j /\ events[i] \in Terminal => events[j] = "stopping"

(* What stdout, the source of truth, says of the run is what happens.        *)
EventsTellTheRun == AnnouncedWhileRunning /\ LastWord

(* If no post failed, a process that was neither killed nor made to abandon  *)
(* its tasks has told nomothetic how it ended, and in the order in which it  *)
(* happened (run's report; main's own event is not reported).                *)
ToldTheEnd ==
  /\ ~gaveUp => told = SubSeq(events, 2, Len(told) + 1)
  /\ ~gaveUp /\ told # <<>> /\ exit \in {"0", "1"} /\ interrupts <= 2
       => Last(told) \in Terminal

(* An interrupt, even one that a slot swallows, and a layer's failure end    *)
(* the process, whether or not nomothetic answers.                           *)
Ends == (interrupts > 0 \/ failed) ~> pc = "over"
=============================================================================
