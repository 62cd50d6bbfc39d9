----------------------------- MODULE Downstream -----------------------------
(***************************************************************************)
(* What Processor relies on in an implementation of the interface          *)
(* DownStream (pkg/client/downstream/type.go).  Two goroutines call it in  *)
(* loops, one Send and one Receive, and a third one Close.  Each direction *)
(* is over at some point: what is called returns without an error only     *)
(* before that point and with one only after it, and returns for sure      *)
(* after it.  When Close has returned both directions are over.            *)
(***************************************************************************)
VARIABLES over,   \* the operations, Send and Receive, through which nothing passes
              \* any more
          call,   \* where each of them is: "none", "called", "done" or "failed"
          close   \* the call of Close: "none", "called" or "done"

dsvars == <<over, call, close>>

Op == {"Send", "Receive"}

DownstreamInit ==
    /\ over = {}
    /\ call = [o \in Op |-> "none"]
    /\ close = "none"

Call(o) ==
    /\ call[o] \in {"none", "done"}
    /\ call' = [call EXCEPT ![o] = "called"]
    /\ UNCHANGED <<over, close>>

Passes(o) ==
    /\ call[o] = "called" /\ o \notin over
    /\ call' = [call EXCEPT ![o] = "done"]
    /\ UNCHANGED <<over, close>>

Fails(o) ==
    /\ call[o] = "called" /\ o \in over
    /\ call' = [call EXCEPT ![o] = "failed"]
    /\ UNCHANGED <<over, close>>

IsOver(o) ==
    /\ o \notin over
    /\ over' = over \cup {o}
    /\ UNCHANGED <<call, close>>

CallClose ==
    /\ close = "none"
    /\ close' = "called"
    /\ UNCHANGED <<over, call>>

CloseReturns ==
    /\ close = "called" /\ close' = "done"
    /\ over' = Op
    /\ UNCHANGED call

DownstreamNext ==
    \/ \E o \in Op : Call(o) \/ Passes(o) \/ Fails(o) \/ IsOver(o)
    \/ CallClose \/ CloseReturns

DownstreamSpec ==
    /\ DownstreamInit /\ [][DownstreamNext]_dsvars
    /\ \A o \in Op : WF_dsvars(Fails(o))
    /\ WF_dsvars(CloseReturns)
=============================================================================
