--------------------------------- MODULE Gateway -------------------------------
(***************************************************************************)
(* The life of a gateway process: cmdServe.Execute (main.go), from its     *)
(* configuration to its exit status, with the tasks it starts and the      *)
(* signals it is sent.                                                     *)
(*                                                                         *)
(* What the tasks do is library code.  Of task.Group the model takes what  *)
(* main.go relies on: the tasks share a context, which the first failure   *)
(* cancels, and Wait returns once all have ended, with that failure.       *)
(* Whether a task that ends without one cancels the context too is left    *)
(* open (nilEnds).  RPCs in flight hang off their clients' contexts        *)
(* (JournalRead, UnaryProxy), not off that of the tasks; a server may wait *)
(* for them or not.                                                        *)
(***************************************************************************)
EXTENDS Naturals, Sequences

CONSTANTS Server,      \* the tasks of server.Server
          MaxSignals,  \* bound: signals sent to the process
          MaxCalls     \* bound: RPCs in flight

Frontend == "network-proxy-frontend"
Handler  == "handle-signal"
Serving  == Server \cup {Frontend}
Task     == Serving \cup {Handler}

ASSUME GatewayAssumption ==
  /\ Frontend \notin Server /\ Handler \notin Server
  /\ MaxSignals \in Nat /\ MaxCalls \in Nat

VARIABLES
  step,      \* the step of Execute that is next
  nilEnds,   \* a task that returns nil cancels the context of the group
  notified,  \* signal.Notify has been called
  signalCh,  \* the channel it was given
  signals,   \* signals sent to the process
  task,      \* "none", "queued", "running", "nil" or "error"
  ctx,       \* tasks.Context(): "live" or "canceled"
  calls,     \* RPCs in flight
  exit       \* "none", or how the process ended: "ok", "failed", "killed"

vars == <<step, nilEnds, notified, signalCh, signals, task, ctx, calls, exit>>

Steps == <<"NewKeyedAuth", "BuildTLSConfig", "New", "MustDial", "QueueTasks",
           "NewFrontend", "QueueFrontend", "Notify", "QueueHandler", "GoRun",
           "Wait">>
(* Those whose failure mbp.Must turns into the end of the process.         *)
Fallible == {"NewKeyedAuth", "BuildTLSConfig", "New", "MustDial",
             "NewFrontend"}

Init ==
  /\ step = 1 /\ nilEnds \in BOOLEAN
  /\ notified = FALSE /\ signalCh = <<>> /\ signals = 0
  /\ task = [t \in Task |-> "none"] /\ ctx = "live"
  /\ calls = 0 /\ exit = "none"

-----------------------------------------------------------------------------
(* Execute.                                                                *)

Alive == exit = "none"
At(name) == Alive /\ Steps[step] = name
Advance == step' = step + 1 /\ UNCHANGED <<nilEnds, signals, ctx, calls, exit>>

Prepare ==
  /\ \E name \in Fallible : At(name)
  /\ Advance /\ UNCHANGED <<notified, signalCh, task>>

MustFails ==
  /\ \E name \in Fallible : At(name)
  /\ exit' = "failed"
  /\ UNCHANGED <<step, nilEnds, notified, signalCh, signals, task, ctx, calls>>

(* srv.QueueTasks and tasks.Queue.                                         *)
Queued(name) ==
  CASE name = "QueueTasks"    -> Server
    [] name = "QueueFrontend" -> {Frontend}
    [] name = "QueueHandler"  -> {Handler}

Queue ==
  \E name \in {"QueueTasks", "QueueFrontend", "QueueHandler"} :
    /\ At(name) /\ Advance
    /\ task' = [t \in Task |-> IF t \in Queued(name) THEN "queued" ELSE task[t]]
    /\ UNCHANGED <<notified, signalCh>>

Notify ==
  /\ At("Notify") /\ Advance
  /\ notified' = TRUE
  /\ UNCHANGED <<signalCh, task>>

(* tasks.GoRun only starts the goroutines; when each runs is up to Go.     *)
GoRun == At("GoRun") /\ Advance /\ UNCHANGED <<notified, signalCh, task>>

Ended == {t \in Task : task[t] \in {"nil", "error"}}

(* Mutant: it waits for one task, not for all.                             *)
WaitFirst ==
  /\ At("Wait") /\ Ended # {}
  /\ exit' = IF \E t \in Task : task[t] = "error" THEN "failed" ELSE "ok"
  /\ UNCHANGED <<step, nilEnds, notified, signalCh, signals, task, ctx, calls>>

(* tasks.Wait, and what mbp.Must makes of it.                              *)
Wait ==
  /\ At("Wait") /\ Ended = Task
  /\ exit' = IF \E t \in Task : task[t] = "error" THEN "failed" ELSE "ok"
  /\ UNCHANGED <<step, nilEnds, notified, signalCh, signals, task, ctx, calls>>

Execute == Prepare \/ MustFails \/ Queue \/ Notify \/ GoRun \/ Wait

-----------------------------------------------------------------------------
(* The tasks.                                                              *)

Starts(t) ==
  /\ At("Wait") /\ task[t] = "queued"
  /\ task' = [task EXCEPT ![t] = "running"]
  /\ UNCHANGED <<step, nilEnds, notified, signalCh, signals, ctx, calls, exit>>

Returns(t, err) ==
  /\ Alive /\ task[t] = "running"
  /\ task' = [task EXCEPT ![t] = err]
  /\ ctx' = IF err = "error" \/ nilEnds THEN "canceled" ELSE ctx
  /\ UNCHANGED <<step, nilEnds, notified, signals, calls, exit>>

(* <-signalCh, which ends without looking at the tasks' context.           *)
HandleSignal ==
  /\ signalCh # <<>>
  /\ Returns(Handler, "nil")
  /\ signalCh' = Tail(signalCh)

(* Mutant: the frontend's task drops the error of the frontend.            *)
FailsSilently(t) ==
  /\ t \in Serving /\ UNCHANGED signalCh
  /\ Returns(t, IF t = Frontend THEN "nil" ELSE "error")

(* A server or the frontend fails, whatever the context says.              *)
Fails(t) == t \in Serving /\ Returns(t, "error") /\ UNCHANGED signalCh

(* Mutant: the frontend is not given the context of the tasks.             *)
StopsDetached(t) ==
  /\ t \in Server /\ ctx = "canceled"
  /\ Returns(t, "nil") /\ UNCHANGED signalCh

(* It returns once the context is cancelled.                               *)
Stops(t) ==
  /\ t \in Serving /\ ctx = "canceled"
  /\ Returns(t, "nil") /\ UNCHANGED signalCh

-----------------------------------------------------------------------------
(* The process's environment: whoever signals it, and its clients.         *)

(* Mutant: the channel has no room, and the handler must be waiting.       *)
SignalUnbuffered ==
  /\ Alive /\ signals < MaxSignals
  /\ signals' = signals + 1
  /\ IF notified
     THEN /\ signalCh' = IF task[Handler] = "running" THEN <<"signal">>
                                                      ELSE signalCh
          /\ UNCHANGED exit
     ELSE exit' = "killed" /\ UNCHANGED signalCh
  /\ UNCHANGED <<step, nilEnds, notified, task, ctx, calls>>

(* SIGTERM or SIGINT: it ends a process that has not asked for it, and is  *)
(* dropped if the channel is full.                                         *)
Signal ==
  /\ Alive /\ signals < MaxSignals
  /\ signals' = signals + 1
  /\ IF notified
     THEN signalCh' = <<"signal">> /\ UNCHANGED exit
     ELSE exit' = "killed" /\ UNCHANGED signalCh
  /\ UNCHANGED <<step, nilEnds, notified, task, ctx, calls>>

CallArrives ==
  /\ Alive /\ calls < MaxCalls /\ ctx = "live"
  /\ \E t \in Server : task[t] = "running"
  /\ calls' = calls + 1
  /\ UNCHANGED <<step, nilEnds, notified, signalCh, signals, task, ctx, exit>>

CallEnds ==
  /\ Alive /\ calls > 0
  /\ calls' = calls - 1
  /\ UNCHANGED <<step, nilEnds, notified, signalCh, signals, task, ctx, exit>>

Next ==
  \/ Execute
  \/ \E t \in Task : Starts(t) \/ Fails(t) \/ Stops(t)
  \/ HandleSignal
  \/ Signal \/ CallArrives \/ CallEnds
  \/ ~Alive /\ UNCHANGED vars

(* Go runs what is runnable; a server returns after a cancellation, if not *)
(* at once then when it has no RPC left.  Nothing is asked of clients and  *)
(* of whoever sends signals.                                               *)
Spec ==
  /\ Init /\ [][Next]_vars
  /\ WF_vars(Execute) /\ WF_vars(HandleSignal)
  /\ \A t \in Task : WF_vars(Starts(t)) /\ WF_vars(calls = 0 /\ Stops(t))

(* Clients that end their calls.                                           *)
ClientsLeave == WF_vars(CallEnds)

-----------------------------------------------------------------------------
TypeOK ==
  /\ step \in 1..Len(Steps) /\ nilEnds \in BOOLEAN /\ notified \in BOOLEAN
  /\ signalCh \in {<<>>, <<"signal">>}
  /\ signals \in 0..MaxSignals /\ calls \in 0..MaxCalls
  /\ task \in [Task -> {"none", "queued", "running", "nil", "error"}]
  /\ ctx \in {"live", "canceled"}
  /\ exit \in {"none", "ok", "failed", "killed"}

(* The exit status tells the truth: once the tasks were started, the       *)
(* process ends only after all of them have, with success only if none     *)
(* failed.  It also ends only after a signal, even when a server has       *)
(* failed and the others have stopped: the task that waits for signals     *)
(* looks at nothing else (main.go:138 and :143-146).                       *)
ExitTruthful ==
  notified /\ ~Alive =>
    /\ Ended = Task /\ signals > 0
    /\ exit = "ok" => \A t \in Task : task[t] = "nil"
    /\ exit # "ok" => \E t \in Serving : task[t] = "error"

(* A signal that arrives after signal.Notify is caught, though the task    *)
(* that waits for it may not even be queued yet (main.go:92 and :136).     *)
SignalCaught == (notified /\ signals > 0) ~> (task[Handler] = "nil")

(* Once the context of the tasks is cancelled, by a failure or otherwise,  *)
(* and a signal was sent, the process ends, if only clients leave: the     *)
(* servers and the frontend all hang off that context (main.go:93, :104    *)
(* and :132).                                                              *)
ShutsDown ==
  ClientsLeave => ((ctx = "canceled" /\ signals > 0) ~> ~Alive)

-----------------------------------------------------------------------------
(* The inductive invariant.                                                *)

QueueStep(t) ==
  CASE t \in Server -> 5
    [] t = Frontend   -> 7
    [] t = Handler    -> 9

(* What Execute has done by its next step; tasks run in the last one.      *)
SetUp ==
  /\ notified <=> step > 8
  /\ \A t \in Task : task[t] # "none" <=> step > QueueStep(t)
  /\ \A t \in Task : task[t] \in {"running", "nil", "error"} =>
                     Steps[step] = "Wait"

(* The handler ends for a signal that the process had asked for.           *)
SignalsKept ==
  /\ signalCh # <<>> => notified /\ signals > 0
  /\ task[Handler] = "nil" => signals > 0
  /\ task[Handler] # "error"

(* The tasks stop serving for a reason.                                    *)
StopsCaused ==
  /\ \A t \in Serving : task[t] = "nil" => ctx = "canceled"
  /\ ctx = "canceled" =>
       signals > 0 \/ \E t \in Serving : task[t] = "error"

(* The tasks are started when everything is set up, they stop serving only *)
(* for a signal or a failure, and the process only once they have          *)
(* (main.go:53-149).                                                       *)
Inv == TypeOK /\ SetUp /\ SignalsKept /\ StopsCaused /\ ExitTruthful
================================================================================
