----------------------------- MODULE ExecProofs -----------------------------
(***************************************************************************)
(* Proofs about Exec: the error is heard before the adapter closes itself, *)
(* and the adapter is a Downstream in every step.  The inductive invariant *)
(* is the type invariant with ClosedByClose (a write that fails has failed *)
(* because Processor closed the adapter) and the order of Close.           *)
(***************************************************************************)
EXTENDS Exec, TLAPS

CloseInOrder ==
    /\ "close out" \in {command, close} => "in" \in closed
    /\ "done" \in {command, close} => closed = Pipe
    /\ call["Send"] = "failed" => "out" \in closed
ExecInv == ExecTypeOK /\ ClosedByClose /\ CloseInOrder /\ ErrorIsHeard

\* The adapter starts in ExecInv: nothing is closed and the command runs.
LEMMA ExecInitInv == ExecInit => ExecInv
BY DEF ExecInit, ExecInv, ExecTypeOK, ClosedByClose, CloseInOrder, ErrorIsHeard, Pipe, Closing

\* Every step of pumps, command and Close keeps ExecInv.
LEMMA ExecStepInv == ExecInv /\ [ExecNext]_evars => ExecInv'
<1> SUFFICES ASSUME ExecInv, [ExecNext]_evars PROVE ExecInv'
  OBVIOUS
<1> USE DEF ExecInv, ExecTypeOK, ClosedByClose, CloseInOrder, ErrorIsHeard, Pipe, Closing
<1>1. ASSUME NEW o \in {"Send", "Receive"}, Called(o) PROVE ExecInv'
  <2>1. ExecTypeOK'
    BY <1>1 DEF Called
  <2>2. call'["Send"] = "failed" => call["Send"] = "failed"
    BY <1>1 DEF Called
  <2>3. UNCHANGED <<command, closed, close, heard>>
    BY <1>1 DEF Called
  <2>4. ClosedByClose' /\ CloseInOrder' /\ ErrorIsHeard'
    BY <2>2, <2>3
  <2>5. QED  BY <2>1, <2>4
<1>2. ASSUME NEW o \in {"Send", "Receive"}, CallFails(o) PROVE ExecInv'
  BY <1>2 DEF CallFails, PipeOf
<1>3. CASE SendReturnsOutput
  BY <1>3 DEF SendReturnsOutput, CallReturns
<1>4. CASE SendReturnsError
  BY <1>4 DEF SendReturnsError, CallReturns, Written, PipeOf
<1>5. CASE ReceiveReturns
  BY <1>5 DEF ReceiveReturns, CallReturns
<1>6. CASE CommandEnds
  BY <1>6 DEF CommandEnds
<1>7. CASE WriteFails
  BY <1>7 DEF WriteFails, Written
<1>8. CASE ExecCommandReturns
  BY <1>8 DEF ExecCommandReturns
<1>9. CASE GoroutineCloses
  BY <1>9 DEF GoroutineCloses, Closes
<1>10. CASE ProcessorCalls
  BY <1>10 DEF ProcessorCalls
<1>11. CASE ProcessorCloses
  BY <1>11 DEF ProcessorCloses, Closes
<1>12. CASE OutputChanges
  BY <1>12 DEF OutputChanges
<1>13. CASE StdinStops
  BY <1>13 DEF StdinStops
<1>14. CASE UNCHANGED evars
  <2>1. UNCHANGED <<command, closed, output, stdin, call, close, heard>>
    BY <1>14 DEF evars
  <2>2. ExecTypeOK'
    BY <2>1
  <2>3. ClosedByClose' /\ CloseInOrder' /\ ErrorIsHeard'
    BY <2>1
  <2>4. QED  BY <2>2, <2>3
<1> HIDE DEF ExecInv
<1> QED
  BY <1>1, <1>2, <1>3, <1>4, <1>5, <1>6, <1>7, <1>8, <1>9, <1>10, <1>11,
     <1>12, <1>13, <1>14 DEF ExecNext

\* ExecInv holds of every behaviour of the adapter.
THEOREM ExecInvariant == ExecSpec => []ExecInv
<1>1. ExecSpec => ExecInit /\ [][ExecNext]_evars
  BY DEF ExecSpec
<1> QED
  BY <1>1, ExecInitInv, ExecStepInv, PTL

\* The user's side was sent the reason before a command that failed closes
\* the adapter, unless Processor is closing it already.
THEOREM ErrorsAreHeard == ExecSpec => []ErrorIsHeard
<1>1. ExecInv => ErrorIsHeard
  BY DEF ExecInv
<1> QED
  BY <1>1, ExecInvariant, PTL

-----------------------------------------------------------------------------
(* The refinement, but for fairness.                                       *)

\* What the abstract module's variables are for the adapter.
Over == {o \in {"Send", "Receive"} : PipeOf(o) \in closed}
Shut == IF close \in Closing THEN "called" ELSE close

\* Nothing is over, called or closed at first.
LEMMA StartsAsDownstream == ExecInit => Promise!DownstreamInit
BY DEF ExecInit, Promise!DownstreamInit, Promise!Op, Closing

\* A step of the adapter is one of the abstract module: a direction is over
\* when its pipe is closed, and Close returns when both are.
LEMMA StepsAsDownstream ==
    ExecInv /\ [ExecNext]_evars => [Promise!DownstreamNext]_(Promise!dsvars)
<1> SUFFICES ASSUME ExecInv, [ExecNext]_evars
             PROVE Promise!DownstreamNext \/ UNCHANGED <<Over, call, Shut>>
  BY DEF Promise!dsvars, Over, Shut
<1> USE DEF PipeOf
<1>a. /\ call \in [{"Send", "Receive"} -> {"none", "called", "done", "failed"}]
      /\ closed \subseteq {"out", "in"}
      /\ close \in {"none", "done", "cancel", "close in", "close out"}
  BY DEF ExecInv, ExecTypeOK, Pipe, Closing
<1>b. UNCHANGED <<closed, call, close>> => UNCHANGED <<Over, call, Shut>>
  BY DEF Over, Shut
<1>1. ASSUME NEW o \in {"Send", "Receive"}, Called(o) PROVE Promise!Call(o)
  BY <1>1 DEF Called, Promise!Call, Over, Shut
<1>2. ASSUME NEW o \in {"Send", "Receive"}, CallFails(o) PROVE Promise!Fails(o)
  BY <1>2 DEF CallFails, Promise!Fails, Over, Shut
<1>3. ASSUME NEW o \in {"Send", "Receive"}, CallReturns(o), UNCHANGED <<closed, close>>
      PROVE Promise!Passes(o)
  BY <1>3 DEF CallReturns, Promise!Passes, Over, Shut
<1>4. ASSUME NEW x, NEW y, Closes(x, y), UNCHANGED <<call, Shut>>
      PROVE Promise!DownstreamNext \/ UNCHANGED <<Over, call, Shut>>
  <2>1. CASE Over' = Over
    BY <1>4, <2>1
  <2>2. CASE Over' # Over
    <3>1. PICK o \in {"Send", "Receive"} : closed' = closed \cup {PipeOf(o)} /\ PipeOf(o) \notin closed
      BY <1>4, <2>2 DEF Closes, Over
    <3>2. Over' = Over \cup {o} /\ o \notin Over
      BY <3>1 DEF Over
    <3>3. Promise!IsOver(o)
      BY <1>4, <3>2 DEF Promise!IsOver, Over, Shut
    <3> QED
      BY <3>3 DEF Promise!DownstreamNext, Promise!Op
  <2> QED
    BY <2>1, <2>2
<1>5. CASE ProcessorCalls
  <2>1. Promise!CallClose
    BY <1>5 DEF ProcessorCalls, Promise!CallClose, Over, Shut, Closing
  <2> QED
    BY <2>1 DEF Promise!DownstreamNext
<1>6. CASE ProcessorCloses
  <2>1. CASE close' = "done"
    <3>1. "in" \in closed /\ close = "close out" /\ closed' = closed \cup {"out"} /\ UNCHANGED call
      BY <1>6, <2>1 DEF ProcessorCloses, Closes, ExecInv, CloseInOrder, Closing
    <3>2. Over' = Promise!Op
      BY <3>1 DEF Over, Promise!Op
    <3>3. Promise!CloseReturns
      BY <2>1, <3>1, <3>2 DEF Promise!CloseReturns, Over, Shut, Closing
    <3> QED
      BY <3>3 DEF Promise!DownstreamNext
  <2>2. CASE close' # "done"
    <3>1. Closes(close, close') /\ UNCHANGED <<call, Shut>>
      BY <1>6, <2>2 DEF ProcessorCloses, Closes, Shut, Closing
    <3> QED
      BY <3>1, <1>4
  <2> QED
    BY <2>1, <2>2
<1>7. CASE GoroutineCloses
  <2>1. Closes(command, command') /\ UNCHANGED <<call, Shut>>
    BY <1>7 DEF GoroutineCloses, Shut
  <2> QED
    BY <2>1, <1>4
<1>8. CASE SendReturnsOutput \/ SendReturnsError \/ ReceiveReturns
  <2>1. PICK o \in {"Send", "Receive"} : CallReturns(o) /\ UNCHANGED <<closed, close>>
    BY <1>8 DEF SendReturnsOutput, SendReturnsError, ReceiveReturns
  <2> QED
    BY <2>1, <1>3 DEF Promise!DownstreamNext, Promise!Op
<1>9. CASE CommandEnds \/ WriteFails \/ ExecCommandReturns \/ OutputChanges \/ StdinStops \/ UNCHANGED evars
  BY <1>9, <1>b DEF CommandEnds, WriteFails, ExecCommandReturns, OutputChanges, StdinStops, evars
<1> QED
  BY <1>1, <1>2, <1>5, <1>6, <1>7, <1>8, <1>9 DEF ExecNext, Promise!DownstreamNext, Promise!Op

\* The adapter implements the interface Processor relies on, but for what it
\* promises to do eventually: that is checked by TLC.
THEOREM ExecIsDownstream ==
    ExecSpec => Promise!DownstreamInit /\ [][Promise!DownstreamNext]_(Promise!dsvars)
<1>1. ExecSpec => ExecInit /\ [][ExecNext]_evars
  BY DEF ExecSpec
<1> QED
  BY <1>1, ExecInvariant, StartsAsDownstream, StepsAsDownstream, PTL
-----------------------------------------------------------------------------
(* A failure ends the adapter.                                             *)

\* What a step does to the caller of Send: it is called again, fails on a closed
\* pipe, or returns output, which ends, or the error, which is the goroutine's.
LEMMA SendSteps ==
  ASSUME ExecInv, [ExecNext]_evars
  PROVE  /\ "out" \in closed => "out" \in closed'
         /\ \/ call'["Send"] = call["Send"]
            \/ call["Send"] \in {"none", "done"} /\ call'["Send"] = "called"
            \/ call["Send"] = "called" /\ call'["Send"] = "failed" /\ "out" \in closed
            \/ /\ call["Send"] = "called" /\ call'["Send"] = "done" /\ "out" \notin closed
               /\ \/ output /\ ~output' /\ command' = command
                  \/ Written
<1> USE DEF ExecInv, ExecTypeOK, Pipe
<1>1. ASSUME NEW o \in {"Send", "Receive"}, Called(o) \/ CallFails(o)
      PROVE  /\ closed' = closed
             /\ \/ call'["Send"] = call["Send"]
                \/ call["Send"] \in {"none", "done"} /\ call'["Send"] = "called"
                \/ call["Send"] = "called" /\ call'["Send"] = "failed" /\ "out" \in closed
  BY <1>1 DEF Called, CallFails, PipeOf
<1>2. CASE SendReturnsOutput \/ SendReturnsError
  BY <1>2 DEF SendReturnsOutput, SendReturnsError, CallReturns, PipeOf
<1>3. CASE ReceiveReturns
  BY <1>3 DEF ReceiveReturns, CallReturns
<1>4. CASE GoroutineCloses \/ ProcessorCloses
  BY <1>4 DEF GoroutineCloses, ProcessorCloses, Closes
<1>5. CASE \/ CommandEnds \/ WriteFails \/ ExecCommandReturns \/ ProcessorCalls
           \/ OutputChanges \/ StdinStops \/ UNCHANGED evars
  BY <1>5 DEF CommandEnds, WriteFails, ExecCommandReturns, ProcessorCalls, OutputChanges, StdinStops,
     evars
<1> QED
  BY <1>1, <1>2, <1>3, <1>4, <1>5 DEF ExecNext

\* And to the goroutine of a command that failed: it writes the error, asks for
\* the shells or closes, and no output comes any more.
LEMMA CommandSteps ==
  ASSUME ExecInv, [ExecNext]_evars
  PROVE  /\ command = "text" => /\ command' \in {"text", "execCommand", "cancel"}
                                /\ ~output => ~output'
                                /\ output => \/ output' \/ "out" \in closed
                                             \/ call["Send"] = "called" /\ call'["Send"] = "done"
         /\ command = "cancel" => command' \in {"cancel", "close in"}
         /\ command = "close in" => command' \in {"close in", "close out"}
         /\ command = "close out" => command' \in {"close out", "done"}
         /\ command = "done" => command' = "done"
<1>1. ASSUME NEW o \in {"Send", "Receive"}, Called(o) \/ CallFails(o)
      PROVE  command' = command /\ output' = output
  BY <1>1 DEF Called, CallFails
<1>2. CASE SendReturnsOutput
  BY <1>2 DEF SendReturnsOutput, CallReturns, ExecInv, ExecTypeOK
<1>3. CASE SendReturnsError \/ WriteFails
  <2>1. Written /\ output' = output
    BY <1>3 DEF SendReturnsError, WriteFails
  <2> QED
    BY <2>1 DEF Written
<1>4. CASE GoroutineCloses
  BY <1>4 DEF GoroutineCloses, Closes, Closing
<1>5. CASE OutputChanges
  BY <1>5 DEF OutputChanges, ExecInv, ExecTypeOK
<1>6. CASE CommandEnds
  BY <1>6 DEF CommandEnds
<1>7. CASE ExecCommandReturns
  BY <1>7 DEF ExecCommandReturns
<1>8. CASE ReceiveReturns \/ ProcessorCalls \/ ProcessorCloses \/ StdinStops \/ UNCHANGED evars
  <2>1. command' = command /\ output' = output
    BY <1>8 DEF ReceiveReturns, ProcessorCalls, ProcessorCloses, StdinStops, evars
  <2> QED
    BY <2>1
<1> QED
  BY <1>1, <1>2, <1>3, <1>4, <1>5, <1>6, <1>7, <1>8 DEF ExecNext

\* And to Processor's call of Close, which starts at any time and only goes on.
LEMMA CloseSteps ==
  ASSUME ExecInv, [ExecNext]_evars
  PROVE  /\ close = "cancel" => close' \in {"cancel", "close in"}
         /\ close = "close in" => close' \in {"close in", "close out"}
         /\ close = "close out" => close' = "close out" \/ "out" \in closed'
<1>1. CASE ProcessorCloses
  BY <1>1 DEF ProcessorCloses, Closes, Closing
<1>2. CASE ProcessorCalls
  BY <1>2 DEF ProcessorCalls
<1>3. ASSUME NEW o \in {"Send", "Receive"}, Called(o) \/ CallFails(o) PROVE close' = close
  BY <1>3 DEF Called, CallFails
<1>4. CASE SendReturnsOutput \/ SendReturnsError \/ ReceiveReturns \/ CommandEnds \/ WriteFails
  BY <1>4 DEF SendReturnsOutput, SendReturnsError, ReceiveReturns, CommandEnds, WriteFails
<1>5. CASE ExecCommandReturns \/ GoroutineCloses \/ OutputChanges \/ StdinStops \/ UNCHANGED evars
  BY <1>5 DEF ExecCommandReturns, GoroutineCloses, OutputChanges, StdinStops, evars
<1> QED
  BY <1>1, <1>2, <1>3, <1>4, <1>5 DEF ExecNext

\* What remains to be done of a command that failed, once the pipe it writes to
\* or Close lets it go on, is done: the goroutine closes both pipes, if it does
\* not ask for the shells first, and a call of Send that waits then fails.
Shutting == \/ command = "text" /\ ("out" \in closed \/ close # "none")
            \/ command \in Closing
            \/ command = "done"

Finished == \/ closed = Pipe /\ command = "done" /\ call["Send"] # "called"
            \/ command = "execCommand"

LEMMA ShutsDown == ExecSpec /\ []ExecUnblocked => (Shutting ~> Finished)
<1> DEFINE Text      == command = "text"
           Ended     == Text /\ "out" \in closed
           Stop1     == Text /\ "out" \notin closed /\ close = "cancel"
           Stop2     == Text /\ "out" \notin closed /\ close = "close in"
           Stop3     == Text /\ "out" \notin closed /\ close = "close out"
           Cancels   == command = "cancel"
           ClosesIn  == command = "close in"
           ClosesOut == command = "close out"
           Waits     == command = "done" /\ call["Send"] = "called"
           GoneOn    == Ended \/ Cancels \/ Finished
<1>1. ExecInv /\ Shutting =>
        Stop1 \/ Stop2 \/ Stop3 \/ Ended \/ Cancels \/ ClosesIn \/ ClosesOut \/ Waits \/ Finished
  BY DEF ExecInv, ExecTypeOK, CloseInOrder, Shutting, Finished, Closing, Pipe
<1>2. ExecInv /\ [ExecNext]_evars =>
         /\ Stop1 => Stop1' \/ Stop2' \/ GoneOn'
         /\ Stop2 => Stop2' \/ Stop3' \/ GoneOn'
         /\ Stop3 => Stop3' \/ GoneOn'
  BY CommandSteps, CloseSteps DEF Finished
<1>3. ExecInv /\ [ExecNext]_evars => (Ended => GoneOn')
  BY CommandSteps, SendSteps DEF Finished
<1>4. ExecInv /\ [ExecNext]_evars =>
         /\ Cancels => Cancels' \/ ClosesIn'
         /\ ClosesIn => ClosesIn' \/ ClosesOut'
         /\ ClosesOut => ClosesOut' \/ Waits' \/ Finished'
         /\ Waits => Waits' \/ Finished'
  <2> SUFFICES ASSUME ExecInv, [ExecNext]_evars
               PROVE  /\ Cancels => Cancels' \/ ClosesIn'
                      /\ ClosesIn => ClosesIn' \/ ClosesOut'
                      /\ ClosesOut => ClosesOut' \/ Waits' \/ Finished'
                      /\ Waits => Waits' \/ Finished'
    OBVIOUS
  <2>1. ExecInv'
    BY ExecStepInv
  <2>2. command' = "done" => Waits' \/ Finished'
    BY <2>1 DEF ExecInv, CloseInOrder, Finished
  <2> QED
    BY <2>2, CommandSteps
<1>5. ExecInv =>
         /\ Stop1 /\ <<ProcessorCloses>>_evars => ~Stop1'
         /\ Stop2 /\ <<ProcessorCloses>>_evars => ~Stop2'
         /\ Stop3 /\ <<ProcessorCloses>>_evars => ~Stop3'
         /\ <<WriteFails \/ GoroutineCloses>>_evars => ~Ended'
         /\ Cancels /\ <<WriteFails \/ GoroutineCloses>>_evars => ~Cancels'
         /\ ClosesIn /\ <<WriteFails \/ GoroutineCloses>>_evars => ~ClosesIn'
         /\ ClosesOut /\ <<WriteFails \/ GoroutineCloses>>_evars => ~ClosesOut'
         /\ Waits /\ <<CallFails("Send")>>_evars => ~Waits'
  BY DEF ProcessorCloses, CallFails, WriteFails, Written, GoroutineCloses, Closes, Closing, ExecInv, ExecTypeOK
<1>6. ExecInv /\ ExecUnblocked =>
         /\ Stop1 \/ Stop2 \/ Stop3 => ENABLED <<ProcessorCloses>>_evars
         /\ Ended \/ Cancels \/ ClosesIn \/ ClosesOut => ENABLED <<WriteFails \/ GoroutineCloses>>_evars
         /\ Waits => ENABLED <<CallFails("Send")>>_evars
  BY DEF ExecUnblocked, Closing, ExecInv, CloseInOrder, Pipe
<1>7. ExecSpec => /\ WF_evars(ProcessorCloses)
                  /\ WF_evars(WriteFails \/ GoroutineCloses)
                  /\ WF_evars(CallFails("Send"))
  BY PTL DEF ExecSpec, ExecFairness
<1> HIDE DEF Shutting, Finished, Ended, Stop1, Stop2, Stop3, Cancels, ClosesIn, ClosesOut, Waits
<1>8. ExecSpec /\ []ExecUnblocked =>
         ((Cancels \/ ClosesIn \/ ClosesOut \/ Waits) ~> Finished)
  BY <1>4, <1>5, <1>6, <1>7, ExecInvariant, PTL DEF ExecSpec
<1>9. ExecSpec /\ []ExecUnblocked => (Ended ~> (Cancels \/ Finished))
  BY <1>3, <1>5, <1>6, <1>7, ExecInvariant, PTL DEF ExecSpec
<1>10. ExecSpec /\ []ExecUnblocked =>
         ((Stop1 \/ Stop2 \/ Stop3) ~> (Ended \/ Cancels \/ Finished))
  BY <1>2, <1>5, <1>6, <1>7, ExecInvariant, PTL DEF ExecSpec
<1> QED
  BY <1>1, <1>8, <1>9, <1>10, ExecInvariant, PTL

\* A command that failed closes the adapter, unless its pod does not answer or
\* nobody takes its error: as long as that stays in the open pipe, each call of
\* Send takes what the command wrote before or the error itself.
THEOREM FailuresEndSend == ExecSpec /\ []ExecUnblocked => FailureEndsSend
<1> DEFINE Open    == command = "text" /\ "out" \notin closed /\ close = "none"
           Loud    == Open /\ output
           Still   == Open /\ ~output
           Calls   == call["Send"] = "called"
           Away    == call["Send"] \in {"none", "done"} /\ close = "none"
<1>1. ExecInv /\ command = "text" => Loud \/ Still \/ Shutting
  BY DEF ExecInv, ExecTypeOK, Shutting
<1>2. ExecInv /\ (Loud \/ Still) => Away \/ Calls
  BY DEF ExecInv, ExecTypeOK, CloseInOrder
<1>3. ExecInv /\ [ExecNext]_evars =>
         /\ Loud => Loud' \/ Still' \/ Shutting' \/ Finished'
         /\ Loud /\ Calls => (Loud' /\ Calls') \/ Still' \/ Shutting' \/ Finished'
         /\ Still => Still' \/ Shutting' \/ Finished'
         /\ Still /\ Calls => (Still' /\ Calls') \/ Shutting' \/ Finished'
  <2> SUFFICES ASSUME ExecInv, [ExecNext]_evars
               PROVE  /\ Loud => Loud' \/ Still' \/ Shutting' \/ Finished'
                      /\ Loud /\ Calls => (Loud' /\ Calls') \/ Still' \/ Shutting' \/ Finished'
                      /\ Still => Still' \/ Shutting' \/ Finished'
                      /\ Still /\ Calls => (Still' /\ Calls') \/ Shutting' \/ Finished'
    OBVIOUS
  <2>1. output' \in BOOLEAN /\ output \in BOOLEAN
    BY ExecStepInv DEF ExecInv, ExecTypeOK
  <2>2. Open => Open' \/ Shutting' \/ Finished'
    BY CommandSteps DEF Shutting, Finished, Closing
  <2>3. Open /\ Calls => (Open' /\ Calls') \/ (Open' /\ output /\ ~output') \/ Shutting' \/ Finished'
    BY <2>2, SendSteps DEF Written
  <2>4. Still => ~output'
    BY CommandSteps
  <2> QED
    BY <2>1, <2>2, <2>3, <2>4
<1>4. ExecInv =>
         /\ Loud /\ <<SendReturnsError \/ SendReturnsOutput>>_evars => ~Calls'
         /\ Still /\ <<SendReturnsError \/ SendReturnsOutput>>_evars => ~Calls'
  BY DEF SendReturnsError, SendReturnsOutput, CallReturns, ExecInv, ExecTypeOK
<1>5. ExecUnblocked /\ (Loud \/ Still) /\ Calls => ENABLED <<SendReturnsError \/ SendReturnsOutput>>_evars
  BY DEF ExecUnblocked
<1>6. ExecSpec => WF_evars(SendReturnsError \/ SendReturnsOutput)
  BY PTL DEF ExecSpec, ExecFairness
<1> HIDE DEF Open, Loud, Still, Calls, Away, Shutting, Finished
<1>7. ExecSpec /\ []ExecUnblocked => (Loud /\ Calls ~> (Still \/ Shutting \/ Finished))
  BY <1>3, <1>4, <1>5, <1>6, ExecInvariant, PTL DEF ExecSpec
<1>8. ExecSpec /\ []ExecUnblocked => (Still /\ Calls ~> (Shutting \/ Finished))
  BY <1>3, <1>4, <1>5, <1>6, ExecInvariant, PTL DEF ExecSpec
<1>9. ExecSpec /\ []ExecUnblocked => (Still ~> (Shutting \/ Finished \/ []Away))
  BY <1>2, <1>3, <1>8, ExecInvariant, PTL DEF ExecSpec
<1>10. ExecSpec /\ []ExecUnblocked => (Loud ~> (Still \/ Shutting \/ Finished \/ []Away))
  BY <1>2, <1>3, <1>7, ExecInvariant, PTL DEF ExecSpec
<1>11. ExecSpec /\ []ExecUnblocked => (command = "text" ~> (Finished \/ []Away))
  BY <1>1, <1>9, <1>10, ShutsDown, ExecInvariant, PTL
<1> QED
  BY <1>11, PTL DEF Finished, Away, FailureEndsSend
=============================================================================
