------------------------- MODULE CorpusSessionProofs -------------------------
(***************************************************************************)
(* The verdicts of the harness, for every cycle that ends with exit, every *)
(* cap of its buffer, and however much a server writes to stderr: "ok" is  *)
(* said of servers without a panic below the cap only, and a server that   *)
(* does not misbehave is "ok" unless a budget was over.                    *)
(*                                                                         *)
(* OkMeansClean is not inductive: the verdict looks at what the buffer has *)
(* kept of what the pipe has delivered. The proof needs that the buffer is *)
(* a beginning of what was written, that nothing is left in the pipe once  *)
(* the process was waited for, and that a process with a verdict of "ok"   *)
(* is not there any more to be killed or to write.                         *)
(***************************************************************************)
EXTENDS CorpusSession, TLAPS

\* A call under way is the call to make.
OneCall == pending # "none" => Kind \in {"setup", "request", "shutdown"}

LEMMA KindOfNext ==
    ASSUME Kind # "none", next \in 1 .. Len(Calls) + 1
    PROVE  next \in 1 .. Len(Calls) /\ Kind = Calls[next] /\ next + 1 \in 1 .. Len(Calls) + 1
<1>1. Len(Calls) \in Nat
  BY CallsAssumption
<1> QED BY <1>1 DEF Kind

\* What is written to stderr is added at its end.
LEMMA StderrGrows ==
    ASSUME Values, NEW piece \in Says, Write(piece)
    PROVE  /\ written' \in Seq(Says) /\ Len(written') = Len(written) + 1
           /\ Len(written') <= MaxNoise
           /\ \A i \in 1 .. Len(written) : written'[i] = written[i]
           /\ written'[Len(written) + 1] = piece
<1>1. written \in Seq(Says) /\ Len(written) \in Nat
  BY DEF Values
<1> QED BY <1>1, NoiseAssumption DEF Write

\* The flags stay flags.
LEMMA FlagsHold == Spec => []Flags
<1>1. Init => Flags
  BY Zenon DEF Init, Flags
<1>2. Flags /\ [Next]_vars => Flags'
  <2> SUFFICES ASSUME Flags, [Next]_vars PROVE Flags'
    OBVIOUS
  <2> USE DEF Flags, server, pipes, clock, verdict, Misbehave
  <2>1. CASE Answer \/ Log \/ ExitAsked \/ Die \/ Falter
    BY Zenon, <2>1 DEF Answer, Log, ExitAsked, Die, Falter
  <2>2. CASE Pipes \/ Clock
    BY Zenon, <2>2 DEF Pipes, NoticeBreak, Capture, Wait, Clock, Expire, GraceOver
  <2>3. CASE Drive
    BY Zenon, <2>3 DEF Drive, Call, Succeed, Notify, AwaitDiagnostics, RequestError, Classify,
                       CallError, SendExit, Verdict
  <2>4. CASE TearDown \/ UNCHANGED vars
    BY Zenon, <2>4 DEF TearDown, Fail, Classify, Kill, Close, vars
  <2> QED BY <2>1, <2>2, <2>3, <2>4 DEF Next
<1> QED BY <1>1, <1>2, PTL DEF Spec

\* The other types, with what they need of the call under way.
LEMMA ValuesHold == Spec => [](Values /\ OneCall)
<1> USE CallsAssumption, NoiseAssumption
<1>0. Len(Calls) \in Nat
  OBVIOUS
<1>1. Init => Values /\ OneCall
  BY <1>0 DEF Init, Values, OneCall, Killed, Statuses
<1>2. Values /\ OneCall /\ [Next]_vars => Values' /\ OneCall'
  <2> SUFFICES ASSUME Values, OneCall, [Next]_vars PROVE Values' /\ OneCall'
    OBVIOUS
  <2>0. UNCHANGED <<pending, next>> => OneCall'
    BY DEF OneCall, Kind
  <2>1. CASE Answer \/ ExitAsked \/ Clock
    BY <2>1 DEF Values, OneCall, Killed, pipes, clock, server, verdict,
                Answer, ExitAsked, Clock, Expire, GraceOver, FailCall, Kind
  <2>2. CASE Log \/ Die \/ Falter
    <3>1. /\ written' \in Seq(Says) /\ Len(written') <= MaxNoise
          /\ Len(written) <= Len(written')
      BY <2>2, StderrGrows DEF Says, Log, Die, Falter, Values
    <3>2. /\ process' \in {"up", "hung", "gone"} /\ code' \in 0 .. Killed
          /\ UNCHANGED <<pipes, pending, next, pc, verdict>>
      BY <2>2 DEF Log, Die, Falter, Values, Killed
    <3> QED BY <2>0, <3>1, <3>2 DEF Values, pipes, verdict
  <2>3. CASE Capture
    <3>1. /\ drained' \in 0 .. Len(written) /\ captured' \in Seq(Says)
          /\ UNCHANGED <<server, pending, next, pc, verdict>>
      BY <2>3 DEF Capture, Values
    <3> QED BY <2>0, <3>1 DEF Values, server, verdict
  <2>4. CASE NoticeBreak \/ Wait
    BY <2>4 DEF Values, OneCall, pipes, clock, server, verdict,
                NoticeBreak, Wait, FailCall, Kind
  <2> USE DEF Values, OneCall, Killed, Statuses, pipes, clock, server, verdict
  <2>5. CASE Call \/ CallError \/ Verdict
    BY <2>5 DEF Call, CallError, Verdict, Kind
  <2>6. CASE Succeed \/ Notify \/ AwaitDiagnostics \/ SendExit
    BY <2>6, KindOfNext DEF Succeed, Notify, AwaitDiagnostics, SendExit
  <2>7. CASE RequestError
    BY <2>7, KindOfNext DEF RequestError, Classify, Kind
  <2>8. CASE TearDown
    BY <2>8 DEF TearDown, Fail, Kill, Close, Classify, Kind
  <2>9. CASE UNCHANGED vars
    BY <2>9 DEF vars, Kind
  <2> QED BY <2>1, <2>2, <2>3, <2>4, <2>5, <2>6, <2>7, <2>8, <2>9 DEF Next, Drive, Pipes
<1> QED BY <1>1, <1>2, PTL DEF Spec

\* The state of a session keeps its types (runFile, runner.go:249-376).
THEOREM TypeCorrect == Spec => []TypeOK
BY FlagsHold, ValuesHold, PTL DEF TypeOK

------------------------------------------------------------------------------

\* The buffer keeps the pieces that left the pipe, in order, up to the cap.
Kept == /\ Len(captured) = IF drained <= StderrCap THEN drained ELSE StderrCap
        /\ \A i \in 1 .. Len(captured) : captured[i] = written[i]

LEMMA KeptHolds == Spec => []Kept
<1> USE NoiseAssumption
<1>1. Init => Kept
  BY DEF Init, Kept
<1>2. Values /\ Kept /\ [Next]_vars => Kept'
  <2> SUFFICES ASSUME Values, Kept, [Next]_vars PROVE Kept'
    OBVIOUS
  <2>0. /\ Len(written) \in Nat /\ Len(captured) \in Nat /\ drained \in 0 .. Len(written)
        /\ captured \in Seq(Says)
    BY DEF Values
  <2>1. CASE Log \/ Die \/ Falter
    <3>1. UNCHANGED <<drained, captured>> /\ \A i \in 1 .. Len(written) : written'[i] = written[i]
      BY <2>1, StderrGrows DEF Says, Log, Die, Falter, pipes
    <3>2. Len(captured) <= Len(written)
      BY <2>0 DEF Kept
    <3> QED BY <2>0, <3>1, <3>2 DEF Kept
  <2>2. CASE Capture
    <3>1. CASE Len(captured) < StderrCap
      <4>1. captured' = Append(captured, written[drained + 1]) /\ drained' = drained + 1
            /\ written' = written
        BY <2>2, <3>1 DEF Capture, server
      <4>2. Len(captured) = drained
        BY <2>0, <3>1 DEF Kept
      <4> QED BY <2>0, <3>1, <4>1, <4>2 DEF Kept
    <3>2. CASE ~(Len(captured) < StderrCap)
      BY <2>0, <2>2, <3>2 DEF Capture, Kept, server
    <3> QED BY <3>1, <3>2
  <2>3. UNCHANGED <<written, drained, captured>> => Kept'
    BY DEF Kept
  <2>4. CASE Answer \/ ExitAsked \/ Clock \/ NoticeBreak \/ Wait
    BY <2>3, <2>4 DEF Answer, ExitAsked, Clock, Expire, GraceOver, NoticeBreak, Wait, pipes, server
  <2>5. CASE Drive
    BY <2>3, <2>5 DEF Drive, Call, Succeed, Notify, AwaitDiagnostics, RequestError, CallError,
                      SendExit, Verdict, pipes, server
  <2>6. CASE TearDown \/ UNCHANGED vars
    BY <2>3, <2>6 DEF TearDown, Fail, Kill, Close, vars, pipes, server
  <2> QED BY <2>1, <2>2, <2>4, <2>5, <2>6 DEF Next, Pipes
<1> QED BY <1>1, <1>2, ValuesHold, PTL DEF Spec

\* What the verdict "ok" rests on: the pipe of a process that was waited for is
\* empty, a cycle that goes to its end has made every call, and after "ok"
\* there is no process left that could write, die or be killed.
SeenClean == \A i \in DOMAIN written : written[i] = "panic" => i > StderrCap
Settled ==
    /\ process = "waited" => drained = Len(written)
    /\ pc = "leave" => next > Len(Calls)
    /\ status = "ok" => /\ process = "waited" /\ pc \in {"close", "closed"}
                        /\ next > Len(Calls) /\ code = 0 /\ SeenClean

\* A whole pipe without a panic in the buffer had none below the cap.
LEMMA BufferSeesAll ==
    ASSUME Values, Kept, drained = Len(written), ~HasPanic
    PROVE  SeenClean
<1> SUFFICES ASSUME NEW i \in DOMAIN written, i <= StderrCap PROVE written[i] # "panic"
  BY NoiseAssumption DEF SeenClean, Values
<1>1. i \in 1 .. Len(written) /\ captured \in Seq(Says) /\ Len(written) \in Nat
  BY DEF Values
<1>2. i \in 1 .. Len(captured)
  BY <1>1, NoiseAssumption DEF Kept
<1> QED BY <1>1, <1>2 DEF Kept, HasPanic

LEMMA SettledHolds == Spec => []Settled
<1> USE CallsAssumption, NoiseAssumption
<1>0. Len(Calls) \in Nat
  OBVIOUS
<1>1. Init => Settled
  BY DEF Init, Settled
<1>2. Values /\ OneCall /\ Kept /\ Settled /\ [Next]_vars => Settled'
  <2> SUFFICES ASSUME Values, OneCall, Kept, Settled, [Next]_vars PROVE Settled'
    OBVIOUS
  <2>0. UNCHANGED written => SeenClean' = SeenClean
    BY DEF SeenClean
  <2> USE DEF Settled, pipes, clock, server, verdict
  <2>1. CASE Answer \/ ExitAsked \/ Clock \/ Log \/ Die \/ Falter
    BY <2>0, <2>1 DEF Answer, ExitAsked, Clock, Expire, GraceOver, Log, Die, Falter
  <2>2. CASE Pipes
    BY <2>0, <2>2 DEF Pipes, NoticeBreak, Capture, Wait, Values
  <2>3. CASE Call \/ CallError \/ Succeed \/ Notify \/ AwaitDiagnostics \/ RequestError
    BY <1>0, <2>0, <2>3 DEF Call, CallError, Succeed, Notify, AwaitDiagnostics, RequestError,
                       Classify, Values
  <2>4. CASE SendExit
    <3>1. next \in 1 .. Len(Calls) /\ Calls[next] = "exit"
      BY <2>4, KindOfNext DEF SendExit, Values
    <3>2. next = Len(Calls)
      BY <3>1
    <3> QED BY <1>0, <2>0, <2>4, <3>2 DEF SendExit
  <2>5. CASE Verdict
    BY <2>0, <2>5, BufferSeesAll DEF Verdict, Exited
  <2>6. CASE TearDown
    BY <2>0, <2>6 DEF TearDown, Fail, Kill, Close, Classify
  <2>7. CASE UNCHANGED vars
    BY <2>0, <2>7 DEF vars
  <2> QED BY <2>1, <2>2, <2>3, <2>4, <2>5, <2>6, <2>7 DEF Next, Drive
<1> QED BY <1>1, <1>2, ValuesHold, KeptHolds, PTL DEF Spec

\* "ok" is said only of a server that made the whole cycle, exited by itself with
\* 0, and wrote no panic below the cap of the buffer, in the pipe or out of it
\* (drive, runner.go:357-373; cappedBuffer, runner.go:600-640).
THEOREM OkMeansCleanHolds == Spec => []OkMeansClean
<1>1. Settled => OkMeansClean
  BY DEF Settled, OkMeansClean, SeenClean
<1> QED BY <1>1, SettledHolds, PTL

\* A server that has not misbehaved lives until it is asked to exit and writes
\* no panic; the harness fails it only once its budget is over, and has no
\* verdict on it but "ok" and a "timeout" of a budget that is over.
Quiet == \A i \in DOMAIN written : written[i] # "panic"
Healthy ==
    /\ code = 0 \/ (code = Killed /\ pc \in {"close", "closed"})
    /\ Quiet
    /\ pending \in {"none", "sent", "result", "error"}
    /\ pc = "drive" => process = "up" /\ ~broken /\ conn /\ ~asked
    /\ pc = "drive" /\ pending = "error" => expired
    /\ pc = "fail" => process = "up" /\ ~asked /\ expired
    /\ status = "none" \/ status = "ok" \/ (status = "timeout" /\ (expired \/ overdue))
    /\ pc \in {"close", "closed"} => status # "none"

\* Such a server has put no panic into the buffer.
LEMMA QuietBuffer == ASSUME Values, Kept, Quiet PROVE ~HasPanic
<1>1. captured \in Seq(Says) /\ Len(written) \in Nat /\ drained \in 0 .. Len(written)
      /\ DOMAIN written = 1 .. Len(written)
  BY DEF Values
<1>2. Len(captured) \in Nat /\ Len(captured) <= Len(written)
  BY <1>1, NoiseAssumption DEF Kept
<1> QED BY <1>1, <1>2 DEF Kept, Quiet, HasPanic

LEMMA HealthyHolds == Spec => [](~fault => Healthy)
<1>1. Init => Healthy
  BY DEF Init, Healthy, Quiet
<1>2. ASSUME Values, OneCall, Kept, Settled, ~fault => Healthy, [Next]_vars
      PROVE  ~fault' => Healthy'
  <2> SUFFICES ASSUME ~fault' PROVE Healthy'
    OBVIOUS
  <2> USE DEF pipes, clock, server, verdict
  <2>1. ~fault
    BY <1>2, Zenon DEF Next, Answer, Log, ExitAsked, Die, Falter, Pipes, NoticeBreak, Capture, Wait,
        Clock, Expire, GraceOver, Drive, Call, Succeed, Notify, AwaitDiagnostics, RequestError,
        CallError, SendExit, Verdict, TearDown, Fail, Kill, Close, Misbehave, vars
  <2>2. Healthy /\ ~HasPanic
    BY <1>2, <2>1, QuietBuffer DEF Healthy
  <2>3. UNCHANGED written => Quiet' = Quiet
    BY DEF Quiet
  <2>4. UNCHANGED <<server, conn, asked, pending, clock, pc, verdict>> => Healthy'
    BY <2>2, <2>3 DEF Healthy
  <2>5. CASE Log
    <3>1. Quiet'
      BY <1>2, <2>2, <2>5 DEF Log, Write, Quiet, Healthy, Values
    <3> QED BY <2>2, <2>5, <3>1 DEF Log, Healthy
  <2> USE DEF Healthy
  <2>6. CASE Answer
    BY <2>1, <2>2, <2>3, <2>6 DEF Answer, Misbehave
  <2>7. CASE ExitAsked
    BY <2>2, <2>3, <2>7 DEF ExitAsked
  <2>8. CASE Die \/ Falter
    BY <2>1, <2>8 DEF Die, Falter, Misbehave
  <2>9. CASE Clock
    <3>1. CASE Expire
      BY <2>2, <2>3, <3>1 DEF Expire, FailCall
    <3>2. CASE GraceOver
      BY <2>2, <2>3, <3>2 DEF GraceOver
    <3> QED BY <2>9, <3>1, <3>2 DEF Clock
  <2>10. CASE Pipes
    <3>1. CASE NoticeBreak
      BY <2>2, <2>3, <3>1 DEF NoticeBreak, FailCall
    <3>2. CASE Capture
      BY <2>4, <3>2 DEF Capture
    <3>3. CASE Wait
      BY <2>2, <2>3, <3>3 DEF Wait
    <3> QED BY <2>10, <3>1, <3>2, <3>3 DEF Pipes
  <2>11. CASE Call
    BY <2>2, <2>3, <2>11 DEF Call
  <2>12. CASE Succeed
    BY <2>2, <2>3, <2>12 DEF Succeed
  <2>13. CASE AwaitDiagnostics
    BY <2>13, <2>4 DEF AwaitDiagnostics
  <2>14. CASE Notify
    BY <2>2, <2>3, <2>14 DEF Notify
  <2>15. CASE RequestError
    BY <2>2, <2>3, <2>15 DEF RequestError, Exited
  <2>16. CASE CallError
    BY <2>2, <2>3, <2>16 DEF CallError
  <2>17. CASE SendExit
    BY <1>2, <2>2, <2>3, <2>17 DEF SendExit, OneCall
  <2>18. CASE Verdict
    BY <2>2, <2>3, <2>18 DEF Verdict
  <2>19. CASE TearDown
    BY <2>2, <2>3, <2>19 DEF TearDown, Fail, Kill, Close, Classify
  <2>20. CASE UNCHANGED vars
    BY <2>2, <2>3, <2>20 DEF vars
  <2> QED BY <1>2, <2>5, <2>6, <2>7, <2>8, <2>9, <2>10, <2>11, <2>12, <2>13,
         <2>14, <2>15, <2>16, <2>17, <2>18, <2>19, <2>20 DEF Next, Drive
<1>3. Values /\ OneCall /\ Kept /\ Settled /\ (~fault => Healthy) /\ [Next]_vars
        => (~fault => Healthy)'
  BY <1>2
<1> QED BY <1>1, <1>3, ValuesHold, KeptHolds, SettledHolds, PTL DEF Spec

\* A server that does not misbehave is "ok", or "timeout" when a budget was over,
\* for every cycle and whenever the budgets end (runner.go:249-441).
THEOREM HealthyIsOkHolds == Spec => []HealthyIsOk
<1>1. (~fault => Healthy) => HealthyIsOk
  BY DEF Healthy, HealthyIsOk
<1> QED BY <1>1, HealthyHolds, PTL
==============================================================================
