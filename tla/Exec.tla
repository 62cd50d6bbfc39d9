-------------------------------- MODULE Exec --------------------------------
(***************************************************************************)
(* The exec adapter (pkg/client/downstream/exec.go): a command in a pod,   *)
(* between two pipes.  A pipe holds nothing: a write waits until the other *)
(* side has read it or the pipe is closed, which makes both sides fail.    *)
(* A goroutine runs the command; when that fails it writes the error, and  *)
(* perhaps the pod's shells, to the output pipe and closes the adapter.    *)
(*                                                                         *)
(* The command, the client that copies its streams and the callers of      *)
(* Send, Receive and Close, which are Processor's, are the environment; one *)
(* call of Close stands for all that Processor makes.                      *)
(***************************************************************************)
VARIABLES
    command,  \* the goroutine: in StreamWithContext, on its way to the end of
              \* Close after an error, or gone
    closed,   \* the pipes that are closed
    output,   \* the command's client is writing to the output pipe
    stdin,    \* it still reads the input pipe
    call,     \* where the callers of Send and of Receive are
    close,    \* where the call of Close is
    heard     \* what Send returned of an error

evars == <<command, closed, output, stdin, call, close, heard>>

Pipe == {"out", "in"}

PipeOf(o) == IF o = "Send" THEN "out" ELSE "in"
Closing == {"cancel", "close in", "close out"}

ExecTypeOK ==
    /\ command \in {"run", "quiet", "text", "execCommand", "shells", "done"} \cup Closing
    /\ closed \subseteq Pipe
    /\ output \in BOOLEAN /\ stdin \in BOOLEAN
    /\ call \in [{"Send", "Receive"} -> {"none", "called", "done", "failed"}]
    /\ close \in {"none", "done"} \cup Closing
    /\ heard \in {"nothing", "text", "shells"}

ExecInit ==
    /\ command = "run" /\ close = "none" /\ closed = {}
    /\ output = FALSE /\ stdin = TRUE
    /\ call = [o \in {"Send", "Receive"} |-> "none"]
    /\ heard = "nothing"

-----------------------------------------------------------------------------
(* Send and Receive.                                                       *)

\* The pumps call again, unless they return, because a context is done, or
\* wait in their session's pipe, for good perhaps.
Called(o) ==
    /\ call[o] \in {"none", "done"}
    /\ call' = [call EXCEPT ![o] = "called"]
    /\ UNCHANGED <<command, closed, output, stdin, close, heard>>

CallFails(o) ==
    /\ call[o] = "called" /\ PipeOf(o) \in closed
    /\ call' = [call EXCEPT ![o] = "failed"]
    /\ UNCHANGED <<command, closed, output, stdin, close, heard>>

\* A pipe that is open passes what is written once both sides are there.
CallReturns(o) ==
    /\ call[o] = "called" /\ PipeOf(o) \notin closed
    /\ call' = [call EXCEPT ![o] = "done"]

SendReturnsOutput ==
    /\ output /\ CallReturns("Send")
    /\ output' = FALSE
    /\ UNCHANGED <<command, closed, stdin, close, heard>>

\* Mutant: the goroutine ends when it has written the error.
WrittenOnly ==
    \/ command = "text" /\ command' \in {"execCommand", "done"}
    \/ command = "shells" /\ command' = "done"

\* After the error only "failed to start exec" asks for the shells.
Written ==
    \/ command = "text" /\ command' \in {"execCommand", "cancel"}
    \/ command = "shells" /\ command' = "cancel"

SendReturnsError ==
    /\ Written /\ CallReturns("Send")
    /\ heard' = command
    /\ UNCHANGED <<closed, output, stdin, close>>

ReceiveReturns ==
    /\ stdin /\ CallReturns("Receive")
    /\ UNCHANGED <<command, closed, output, stdin, close, heard>>

-----------------------------------------------------------------------------
(* The command and its goroutine.                                          *)

\* Mutant: a command that failed is closed and its error dropped.
CommandClosesFirst ==
    /\ command = "run"
    /\ (command' = "quiet" /\ ~output) \/ command' = "cancel"
    /\ UNCHANGED <<closed, output, stdin, call, close, heard>>

\* StreamWithContext returns without an error when all output was passed on,
\* and the goroutine ends; or with one, that of a done ctx included.
CommandEnds ==
    /\ command = "run"
    /\ (command' = "quiet" /\ ~output) \/ command' = "text"
    /\ UNCHANGED <<closed, output, stdin, call, close, heard>>

WriteFails ==
    /\ "out" \in closed
    /\ Written
    /\ UNCHANGED <<closed, output, stdin, call, close, heard>>

\* execCommand runs "cat /etc/shells" with no limit of time.
ExecCommandReturns ==
    /\ command = "execCommand" /\ command' = "shells"
    /\ UNCHANGED <<closed, output, stdin, call, close, heard>>

\* Mutant: only the input pipe is closed.
ClosesInput(at, next) ==
    \/ at = "cancel" /\ next = "close in" /\ UNCHANGED closed
    \/ at = "close in" /\ next = "done" /\ closed' = closed \cup {"in"}

\* Close: the context, then one pipe after the other; again does no harm.
Closes(at, next) ==
    \/ at = "cancel" /\ next = "close in" /\ UNCHANGED closed
    \/ at = "close in" /\ next = "close out" /\ closed' = closed \cup {"in"}
    \/ at = "close out" /\ next = "done" /\ closed' = closed \cup {"out"}

GoroutineCloses ==
    /\ command' \in Closing \cup {"done"} /\ Closes(command, command')
    /\ UNCHANGED <<output, stdin, call, close, heard>>

ProcessorCalls ==
    /\ close = "none" /\ close' = "cancel"
    /\ UNCHANGED <<command, closed, output, stdin, call, heard>>

ProcessorCloses ==
    /\ close' \in Closing \cup {"done"} /\ Closes(close, close')
    /\ UNCHANGED <<command, output, stdin, call, heard>>

\* The command says something; its client gives up on a closed pipe.
OutputChanges ==
    /\ IF output THEN "out" \in closed ELSE command = "run"
    /\ output' = ~output
    /\ UNCHANGED <<command, closed, stdin, call, close, heard>>

\* It stops reading once its end of the input is gone.
StdinStops ==
    /\ stdin /\ stdin' = FALSE
    /\ UNCHANGED <<command, closed, output, call, close, heard>>

ExecNext ==
    \/ \E o \in {"Send", "Receive"} : Called(o) \/ CallFails(o)
    \/ SendReturnsOutput \/ SendReturnsError \/ ReceiveReturns
    \/ CommandEnds \/ WriteFails \/ ExecCommandReturns \/ GoroutineCloses
    \/ ProcessorCalls \/ ProcessorCloses \/ OutputChanges \/ StdinStops

\* The calls and the goroutine run.  Nothing is said of the pumps, which need
\* not call again, nor of the pod, which may leave StreamWithContext and
\* execCommand waiting for ever.
ExecFairness ==
    /\ WF_evars(CallFails("Send")) /\ WF_evars(CallFails("Receive"))
    /\ WF_evars(SendReturnsError \/ SendReturnsOutput)
    /\ WF_evars(WriteFails \/ GoroutineCloses)
    /\ WF_evars(ProcessorCloses)

ExecSpec == ExecInit /\ [][ExecNext]_evars /\ ExecFairness

-----------------------------------------------------------------------------
(* Properties.                                                             *)

\* The user is told why the command failed before the adapter ends the
\* session, unless Processor is ending it already.
ErrorIsHeard ==
    command \in Closing \cup {"done"} => heard # "nothing" \/ close \in Closing \cup {"done"}

\* Why: only Close closes pipes.
ClosedByClose ==
    /\ "out" \in closed => command = "done" \/ close = "done"
    /\ "in" \in closed => command \in {"close out", "done"} \/ close \in {"close out", "done"}

\* The adapter is a Downstream.
Promise == INSTANCE Downstream WITH
    over  <- {o \in {"Send", "Receive"} : PipeOf(o) \in closed},
    close <- IF close \in Closing THEN "called" ELSE close

DownstreamRefined == Promise!DownstreamSpec

\* What the proof of the next property needs of ENABLED, which the provers do
\* not expand: each conjunct only says that a step is enabled when its guard
\* holds.
ExecUnblocked ==
    /\ call["Send"] = "called" /\ "out" \in closed => ENABLED <<CallFails("Send")>>_evars
    /\ call["Send"] = "called" /\ "out" \notin closed /\ command = "text"
          => ENABLED <<SendReturnsError \/ SendReturnsOutput>>_evars
    /\ command \in Closing \/ (command = "text" /\ "out" \in closed)
          => ENABLED <<WriteFails \/ GoroutineCloses>>_evars
    /\ close \in Closing => ENABLED <<ProcessorCloses>>_evars

\* A command that failed ends the adapter: both pipes are closed and no Send is
\* left waiting.  The exceptions: the pod is asked for its shells, or the pump
\* stays away from Send for good and Processor never closes the adapter.
FailureEndsSend ==
    command = "text" ~>
        \/ closed = Pipe /\ command = "done" /\ call["Send"] # "called"
        \/ command = "execCommand"
        \/ [](call["Send"] \in {"none", "done"} /\ close = "none")
=============================================================================
