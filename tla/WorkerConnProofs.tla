-------------------------- MODULE WorkerConnProofs --------------------------
(***************************************************************************)
(* A worker connection, for any number of commands and any capacity of the *)
(* log channel: types, and that no command outlives its Send in the map.   *)
(***************************************************************************)
EXTENDS WorkerConn, TLAPS

USE DEF CmdStage, Answer

\* The bounds lie in their own ranges.
LEMMA Bounds ==
    /\ 0 \in 0 .. MaxAnswers /\ MaxAnswers \in 0 .. MaxAnswers
    /\ MaxLines \in 0 .. MaxLines
    /\ 0 \in 0 .. LogBuffer
BY ConnAssumption DEF ConnAssumption

\* Every step of Send, of the receive loop and of the log stream keeps the types.
LEMMA TypeStep == TypeOK /\ [Next]_vars => TypeOK'
<1> SUFFICES ASSUME TypeOK, [Next]_vars PROVE TypeOK'
  OBVIOUS
<1> USE ConnAssumption DEF ConnAssumption, TypeOK, Command, LogState
<1>1. ASSUME NEW c \in Cmds, Send(c) PROVE TypeOK'
  <2>1. [at |-> "sending", out |-> "none", owed |-> MaxAnswers] \in Command
    BY Bounds
  <2> QED
    BY <1>1, <2>1 DEF Send
<1>2. ASSUME NEW c \in Cmds, Sent(c) PROVE TypeOK'
  BY <1>2 DEF Sent
<1>3. ASSUME NEW c \in Cmds, Await(c) PROVE TypeOK'
  BY <1>3 DEF Await
<1>4. ASSUME NEW c \in Cmds, Leave(c) PROVE TypeOK'
  BY <1>4 DEF Leave
<1>5. ASSUME NEW c \in Cmds, NEW a \in Answer, RecvAnswer(c, a) PROVE TypeOK'
  <2>1. cmd' \in [Cmds -> [at : CmdStage, out : Answer \cup {"none", "error"}, owed : 0 .. MaxAnswers]]
    BY <1>5 DEF RecvAnswer
  <2>2. [at |-> a, cmd |-> c] \in [at : Answer, cmd : Cmds]
    BY <1>5
  <2> QED
    BY <1>5, <2>1, <2>2 DEF RecvAnswer
<1>6. CASE Resolve
  BY <1>6 DEF Resolve, Receiving
<1>7. CASE PushLog
  BY <1>7 DEF PushLog, Receiving
<1>8. CASE EndLoop
  BY <1>8 DEF EndLoop, Receiving
<1>9. CASE RecvLog
  BY <1>9 DEF RecvLog
<1>10. CASE LogStep
  <2>1. CASE OpenLog
    BY <2>1 DEF OpenLog
  <2>2. CASE LogSent
    <3>1. log' \in LogState
      <4>1. CASE log' = [log EXCEPT !.reader = "reading"]
        BY <4>1
      <4>2. CASE log' = [log EXCEPT !.reader = "gone", !.chan = "closed", !.mapped = FALSE]
        BY <4>2
      <4> QED
        BY <2>2, <4>1, <4>2 DEF LogSent
    <3> QED
      BY <2>2, <3>1 DEF LogSent
  <2>3. CASE ReadLog
    BY <2>3 DEF ReadLog
  <2>4. CASE CancelLog
    BY <2>4 DEF CancelLog
  <2>5. CASE CloseLogStream
    BY <2>5 DEF CloseLogStream
  <2> QED
    BY <1>10, <2>1, <2>2, <2>3, <2>4, <2>5 DEF LogStep
<1>11. CASE LoseStream
  BY <1>11 DEF LoseStream
<1>12. CASE CloseDone
  BY <1>12 DEF CloseDone
<1>13. CASE UNCHANGED vars
  BY <1>13 DEF vars
<1> QED
  BY <1>1, <1>2, <1>3, <1>4, <1>5, <1>6, <1>7, <1>8, <1>9, <1>10, <1>11, <1>12, <1>13
  DEF Next, SendStep, LoopStep

\* The state of a worker connection is always well typed: no channel ever holds more
\* than its capacity.
THEOREM ConnTypes == Spec => []TypeOK
<1>1. Init => TypeOK
  <2>1. [at |-> "new", out |-> "none", owed |-> 0] \in Command
    BY Bounds DEF Command
  <2>2. [reader |-> "none", chan |-> "none", mapped |-> FALSE, lines |-> 0, left |-> MaxLines]
        \in LogState
    BY Bounds DEF LogState
  <2> SUFFICES ASSUME Init PROVE TypeOK
    OBVIOUS
  <2>3. cmd \in [Cmds -> Command]
    BY <2>1 DEF Init
  <2>4. log \in LogState
    BY <2>2 DEF Init
  <2>5. /\ pending \subseteq Cmds
        /\ future \subseteq Cmds \X Answer
        /\ panicked \in BOOLEAN
    BY DEF Init
  <2>6. /\ loop \in [at : Answer, cmd : Cmds] \cup [at : {"recv", "log", "ended"}, cmd : {NoCmd}]
        /\ stream \in [up : BOOLEAN, done : BOOLEAN]
    BY DEF Init, Receiving
  <2> QED
    BY <2>3, <2>4, <2>5, <2>6 DEF TypeOK
<1> QED
  BY <1>1, TypeStep, PTL DEF Spec

\* Only Send adds to the map, and the deferred delete of the same call is the last
\* thing that it does.
LEMMA PendingStep == TypeOK /\ NothingLeftPending /\ [Next]_vars => NothingLeftPending'
<1> SUFFICES ASSUME TypeOK, NothingLeftPending, [Next]_vars PROVE NothingLeftPending'
  OBVIOUS
<1> USE ConnAssumption DEF ConnAssumption, TypeOK, Command, NothingLeftPending
<1>1. ASSUME NEW c \in Cmds, Send(c) PROVE NothingLeftPending'
  BY <1>1 DEF Send
<1>2. ASSUME NEW c \in Cmds, SendStep(c) PROVE NothingLeftPending'
  <2>1. CASE Sent(c)
    BY <2>1 DEF Sent
  <2>2. CASE Await(c)
    BY <2>2 DEF Await
  <2>3. CASE Leave(c)
    BY <2>3 DEF Leave
  <2> QED
    BY <1>2, <2>1, <2>2, <2>3 DEF SendStep
<1>3. ASSUME NEW c \in Cmds, NEW a \in Answer, RecvAnswer(c, a) PROVE NothingLeftPending'
  BY <1>3 DEF RecvAnswer
<1>4. UNCHANGED <<cmd, pending>> => NothingLeftPending'
  OBVIOUS
<1>5. RecvLog \/ LoopStep \/ LogStep \/ LoseStream \/ CloseDone \/ UNCHANGED vars
      => UNCHANGED <<cmd, pending>>
  BY DEF RecvLog, LoopStep, Resolve, PushLog, EndLoop, LogStep, OpenLog, LogSent, ReadLog,
         CancelLog, CloseLogStream, LoseStream, CloseDone, vars
<1> QED
  BY <1>1, <1>2, <1>3, <1>4, <1>5 DEF Next

\* The pending map holds only commands whose Send has not returned yet.
THEOREM PendingIsInFlight == Spec => []NothingLeftPending
<1>1. Init => NothingLeftPending
  BY DEF Init, NothingLeftPending
<1> QED
  BY <1>1, ConnTypes, PendingStep, PTL DEF Spec
=============================================================================
