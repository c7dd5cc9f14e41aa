--------------------------- MODULE ExecCallProofs ---------------------------
(***************************************************************************)
(* IndInv is an invariant of a call that runs an external program, for     *)
(* every script of the child, every input and every capacity of the pipes. *)
(***************************************************************************)
EXTENDS ExecCall, TLAPS

LEMMA LinesAt ==
    /\ LinesOf["out"] = "out_lines" /\ LinesOf["err"] = "err_lines"
    /\ \A s \in Streams : s \in {"out", "err"} /\ LinesOf[s] \in {"out_lines", "err_lines"}
BY DEF LinesOf, Streams

LEMMA FdsStep == IndInv /\ [Next]_vars => FdsInv'
<1> SUFFICES ASSUME IndInv, [Next]_vars PROVE FdsInv'
  OBVIOUS
<1> USE DEF IndInv, TypeOK, CallerTypeOK, ChildTypeOK, PCs, FdsInv, Streams, Return, callerVars, childVars
<1>1. CASE SpawnFails BY <1>1 DEF SpawnFails
<1>2. CASE Spawn BY <1>2 DEF Spawn
<1>3. CASE SpawnSync BY <1>3 DEF SpawnSync
<1>4. CASE Write BY <1>4 DEF Write
<1>5. CASE WriteKills BY <1>5 DEF WriteKills
<1>6. CASE WriteFails BY <1>6 DEF WriteFails
<1>7. CASE CloseInput BY <1>7 DEF CloseInput
<1>8. CASE Reap BY <1>8 DEF Reap
<1>9. CASE Poll BY <1>9 DEF Poll, Events
<1>10. CASE PollFails BY <1>10 DEF PollFails, Abandon
<1>11. ASSUME NEW s \in Streams, Read(s) PROVE FdsInv'
  BY <1>11 DEF Read
<1>12. ASSUME NEW s \in Streams, ReadFails(s) PROVE FdsInv'
  BY <1>12, LinesAt DEF ReadFails, Abandon
<1>13. ASSUME NEW s \in Streams, ProcessFd(s) PROVE FdsInv'
  BY <1>13, LinesAt DEF ProcessFd, After
<1>14. ASSUME NEW s \in Streams, SkipFd(s) PROVE FdsInv'
  BY <1>14 DEF SkipFd, After
<1>15. ASSUME NEW s \in Streams, SyncRead(s) PROVE FdsInv'
  BY <1>15 DEF SyncRead
<1>16. CASE Wait
  BY <1>16 DEF Wait, Reaped, NoChild, WaitFails, Complete, Fail
<1>17. CASE WaitAfterFailure BY <1>17 DEF WaitAfterFailure
<1>18. CASE SyncDone BY <1>18 DEF SyncDone
<1>25. ASSUME NEW s \in Streams, ReadEnds(s) PROVE FdsInv'
  BY <1>25, LinesAt DEF ReadEnds
<1>26. ASSUME NEW s \in Streams, TakeLine(s) PROVE FdsInv'
  BY <1>26, LinesAt DEF TakeLine
<1>19. ASSUME NEW s \in Streams, ChildWrite(s) PROVE FdsInv'
  BY <1>19 DEF ChildWrite, Step
<1>20. ASSUME NEW s \in Streams, ChildKilled(s) PROVE FdsInv'
  BY <1>20 DEF ChildKilled, Exited
<1>21. CASE ChildRead BY <1>21 DEF ChildRead, Step
<1>22. CASE ChildClose BY <1>22 DEF ChildClose, Step
<1>23. CASE ChildExit BY <1>23 DEF ChildExit, Exited
<1>24. CASE UNCHANGED vars BY <1>24 DEF vars
<1> QED
  BY <1>1, <1>2, <1>3, <1>4, <1>5, <1>6, <1>7, <1>8, <1>9, <1>10, <1>11, <1>12, <1>13,
     <1>14, <1>15, <1>16, <1>17, <1>18, <1>19, <1>20, <1>21, <1>22, <1>23, <1>24,
     <1>25, <1>26
  DEF Next, Caller, Child

LEMMA ReapStep == IndInv /\ [Next]_vars => ReapInv'
<1> SUFFICES ASSUME IndInv, [Next]_vars PROVE ReapInv'
  OBVIOUS
<1> USE ExecAssumption DEF IndInv, TypeOK, CallerTypeOK, ChildTypeOK, PCs, ReapInv, Streams, Return, callerVars, childVars, Signal
<1>1. CASE SpawnFails BY <1>1 DEF SpawnFails
<1>2. CASE Spawn BY <1>2 DEF Spawn
<1>3. CASE SpawnSync BY <1>3 DEF SpawnSync
<1>4. CASE Write BY <1>4 DEF Write
<1>5. CASE WriteKills BY <1>5 DEF WriteKills
<1>6. CASE WriteFails BY <1>6 DEF WriteFails
<1>7. CASE CloseInput BY <1>7 DEF CloseInput
<1>8. CASE Reap BY <1>8 DEF Reap
<1>9. CASE Poll BY <1>9 DEF Poll, Events
<1>10. CASE PollFails BY <1>10 DEF PollFails, Abandon
<1>11. ASSUME NEW s \in Streams, Read(s) PROVE ReapInv'
  BY <1>11 DEF Read
<1>12. ASSUME NEW s \in Streams, ReadFails(s) PROVE ReapInv'
  BY <1>12, LinesAt DEF ReadFails, Abandon
<1>13. ASSUME NEW s \in Streams, ProcessFd(s) PROVE ReapInv'
  BY <1>13, LinesAt DEF ProcessFd, After
<1>14. ASSUME NEW s \in Streams, SkipFd(s) PROVE ReapInv'
  BY <1>14 DEF SkipFd, After
<1>15. ASSUME NEW s \in Streams, SyncRead(s) PROVE ReapInv'
  BY <1>15 DEF SyncRead
<1>16. CASE Wait
  BY <1>16 DEF Wait, Reaped, NoChild, WaitFails, Complete, Fail
<1>17. CASE WaitAfterFailure BY <1>17 DEF WaitAfterFailure
<1>18. CASE SyncDone BY <1>18 DEF SyncDone
<1>25. ASSUME NEW s \in Streams, ReadEnds(s) PROVE ReapInv'
  BY <1>25, LinesAt DEF ReadEnds
<1>26. ASSUME NEW s \in Streams, TakeLine(s) PROVE ReapInv'
  BY <1>26, LinesAt DEF TakeLine
<1>19. ASSUME NEW s \in Streams, ChildWrite(s) PROVE ReapInv'
  BY <1>19 DEF ChildWrite, Step
<1>20. ASSUME NEW s \in Streams, ChildKilled(s) PROVE ReapInv'
  BY <1>20 DEF ChildKilled, Exited
<1>21. CASE ChildRead BY <1>21 DEF ChildRead, Step
<1>22. CASE ChildClose BY <1>22 DEF ChildClose, Step
<1>23. CASE ChildExit BY <1>23 DEF ChildExit, Exited
<1>24. CASE UNCHANGED vars BY <1>24 DEF vars
<1> QED
  BY <1>1, <1>2, <1>3, <1>4, <1>5, <1>6, <1>7, <1>8, <1>9, <1>10, <1>11, <1>12, <1>13,
     <1>14, <1>15, <1>16, <1>17, <1>18, <1>19, <1>20, <1>21, <1>22, <1>23, <1>24,
     <1>25, <1>26
  DEF Next, Caller, Child

\* Progress leaves a task begun, and its end finishes it.
LEMMA ReportsGrow ==
    ASSUME NEW r \in Seq({"started", "progress", "finished"}), Begun(r)
    PROVE  /\ Append(r, "progress") \in Seq({"started", "progress", "finished"})
           /\ Begun(Append(r, "progress")) /\ Finished(Append(r, "finished"))
BY DEF Begun, Finished

LEMMA TaskStarted == Begun(<<"started">>)
BY DEF Begun

\* Whatever the lines are, progress is all that is reported about them.
LEMMA OnlyProgress ==
    ASSUME NEW s \in Streams, TakeLine(s) \/ ProcessFd(s)
    PROVE  reports' \in {reports, Append(reports, "progress")}
BY DEF TakeLine, ProcessFd, Keep

LEMMA ReportStep == IndInv /\ [Next]_vars => ReportInv'
<1> SUFFICES ASSUME IndInv, [Next]_vars PROVE ReportInv'
  OBVIOUS
<1> USE ExecAssumption, ReportsGrow
    DEF IndInv, TypeOK, CallerTypeOK, ChildTypeOK, PCs, ReportInv, Streams, Return, callerVars,
        childVars, Signal
<1>1. CASE SpawnFails BY <1>1 DEF SpawnFails
<1>2. CASE Spawn
  <2>1. reports' = <<"started">>
    BY <1>2 DEF Spawn
  <2> QED
    BY <1>2, <2>1, TaskStarted DEF Spawn
<1>3. CASE SpawnSync BY <1>3 DEF SpawnSync
<1>4. CASE Write BY <1>4 DEF Write
<1>5. CASE WriteKills BY <1>5 DEF WriteKills
<1>6. CASE WriteFails BY <1>6 DEF WriteFails
<1>7. CASE CloseInput BY <1>7 DEF CloseInput
<1>8. CASE Reap BY <1>8 DEF Reap
<1>9. CASE Poll BY <1>9 DEF Poll, Events
<1>10. CASE PollFails BY <1>10 DEF PollFails, Abandon
<1>11. ASSUME NEW s \in Streams, Read(s) PROVE ReportInv'
  BY <1>11 DEF Read
<1>12. ASSUME NEW s \in Streams, ReadFails(s) PROVE ReportInv'
  BY <1>12, LinesAt DEF ReadFails, Abandon
<1>13. ASSUME NEW s \in Streams, ProcessFd(s) PROVE ReportInv'
  <2>1. Begun(reports)
    BY <1>13, LinesAt DEF ProcessFd
  <2>2. Begun(reports')
    BY <1>13, <2>1, OnlyProgress
  <2> QED
    BY <1>13, <2>2, LinesAt DEF ProcessFd, After
<1>14. ASSUME NEW s \in Streams, SkipFd(s) PROVE ReportInv'
  BY <1>14 DEF SkipFd, After
<1>15. ASSUME NEW s \in Streams, SyncRead(s) PROVE ReportInv'
  BY <1>15 DEF SyncRead
<1>16. CASE Wait
  BY <1>16 DEF Wait, Reaped, NoChild, WaitFails, Complete, Fail
<1>17. CASE WaitAfterFailure BY <1>17 DEF WaitAfterFailure
<1>18. CASE SyncDone BY <1>18 DEF SyncDone
<1>25. ASSUME NEW s \in Streams, ReadEnds(s) PROVE ReportInv'
  BY <1>25, LinesAt DEF ReadEnds
<1>26. ASSUME NEW s \in Streams, TakeLine(s) PROVE ReportInv'
  <2>1. Begun(reports)
    BY <1>26, LinesAt DEF TakeLine
  <2>2. Begun(reports')
    BY <1>26, <2>1, OnlyProgress
  <2> QED
    BY <1>26, <2>2, LinesAt DEF TakeLine
<1>19. ASSUME NEW s \in Streams, ChildWrite(s) PROVE ReportInv'
  BY <1>19 DEF ChildWrite, Step
<1>20. ASSUME NEW s \in Streams, ChildKilled(s) PROVE ReportInv'
  BY <1>20 DEF ChildKilled, Exited
<1>21. CASE ChildRead BY <1>21 DEF ChildRead, Step
<1>22. CASE ChildClose BY <1>22 DEF ChildClose, Step
<1>23. CASE ChildExit BY <1>23 DEF ChildExit, Exited
<1>24. CASE UNCHANGED vars BY <1>24 DEF vars
<1> QED
  BY <1>1, <1>2, <1>3, <1>4, <1>5, <1>6, <1>7, <1>8, <1>9, <1>10, <1>11, <1>12, <1>13,
     <1>14, <1>15, <1>16, <1>17, <1>18, <1>19, <1>20, <1>21, <1>22, <1>23, <1>24,
     <1>25, <1>26
  DEF Next, Caller, Child

LEMMA PipeUpdated ==
    ASSUME PipeTypeOK, NEW s \in Streams, NEW q \in Seq(Bytes), Len(q) <= PipeSize,
           pipe' = [pipe EXCEPT ![s] = q]
    PROVE  PipeTypeOK'
<1>1. CASE s = "out"
  <2>1. pipe' = [in |-> pipe.in, out |-> q, err |-> pipe.err]
    BY <1>1 DEF PipeTypeOK
  <2> QED
    BY <2>1 DEF PipeTypeOK, Streams
<1>2. CASE s = "err"
  <2>1. pipe' = [in |-> pipe.in, out |-> pipe.out, err |-> q]
    BY <1>2 DEF PipeTypeOK
  <2> QED
    BY <2>1 DEF PipeTypeOK, Streams
<1> QED
  BY <1>1, <1>2 DEF Streams

LEMMA InputUpdated ==
    ASSUME PipeTypeOK, NEW n \in 0 .. PipeSize, pipe' = [pipe EXCEPT !.in = n]
    PROVE  PipeTypeOK'
<1>1. pipe' = [in |-> n, out |-> pipe.out, err |-> pipe.err]
  BY DEF PipeTypeOK
<1> QED
  BY <1>1 DEF PipeTypeOK, Streams

LEMMA ChildEnds ==
    ASSUME ChildTypeOK, NEW code \in Int, Exited(code), call' = call
    PROVE  ChildTypeOK'
<1>1. PICK st \in {"gone", "zombie"} : child' = [child EXCEPT !.state = st, !.status = code]
  BY DEF Exited
<1> QED
  BY <1>1 DEF Exited, ChildTypeOK

LEMMA ReportedType ==
    ASSUME CallerTypeOK, NEW s \in Streams, TakeLine(s) \/ ProcessFd(s)
    PROVE  reports' \in Seq({"started", "progress", "finished"})
<1>1. reports \in Seq({"started", "progress", "finished"})
  BY DEF CallerTypeOK
<1>2. Append(reports, "progress") \in Seq({"started", "progress", "finished"})
  BY <1>1
<1> QED
  BY <1>1, <1>2, OnlyProgress

LEMMA CallerTypeStep == IndInv /\ [Next]_vars => CallerTypeOK'
<1> SUFFICES ASSUME IndInv, [Next]_vars PROVE CallerTypeOK'
  OBVIOUS
<1> USE ExecAssumption, ReportsGrow
    DEF IndInv, TypeOK, CallerTypeOK, PCs, ReportInv, Return, callerVars, childVars
<1>1. CASE SpawnFails BY <1>1 DEF SpawnFails
<1>2. CASE Spawn BY <1>2 DEF Spawn
<1>3. CASE SpawnSync BY <1>3 DEF SpawnSync
<1>4. CASE Write BY <1>4 DEF Write
<1>5. CASE WriteKills BY <1>5 DEF WriteKills
<1>6. CASE WriteFails BY <1>6 DEF WriteFails
<1>7. CASE CloseInput BY <1>7 DEF CloseInput
<1>8. CASE Reap BY <1>8 DEF Reap
<1>9. CASE Poll BY <1>9 DEF Poll, Events
<1>10. CASE PollFails
  <2>1. reports' \in Seq({"started", "progress", "finished"})
    BY <1>10 DEF PollFails, Abandon
  <2>2. success' \in BOOLEAN
    BY <1>10 DEF PollFails, Abandon
  <2> QED
    BY <1>10, <2>1, <2>2 DEF PollFails, Abandon
<1>11. ASSUME NEW s \in Streams, Read(s) PROVE CallerTypeOK'
  BY <1>11 DEF Read
<1>12. ASSUME NEW s \in Streams, ReadFails(s) PROVE CallerTypeOK'
  <2>1. reports' \in Seq({"started", "progress", "finished"})
    BY <1>12 DEF ReadFails, Abandon
  <2>2. success' \in BOOLEAN
    BY <1>12 DEF ReadFails, Abandon
  <2> QED
    BY <1>12, <2>1, <2>2 DEF ReadFails, Abandon
<1>13. ASSUME NEW s \in Streams, ProcessFd(s) PROVE CallerTypeOK'
  <2>1. reports' \in Seq({"started", "progress", "finished"})
    BY <1>13, ReportedType
  <2>2. done' \in [Streams -> BOOLEAN]
    <3>1. Eof(s) \in BOOLEAN
      BY DEF Eof
    <3> QED
      BY <1>13, <3>1 DEF ProcessFd
  <2>3. pc' \in PCs /\ fds' \subseteq Streams \cup {"in"}
    BY <1>13 DEF ProcessFd, After
  <2> QED
    BY <1>13, <2>1, <2>2, <2>3 DEF ProcessFd
<1>14. ASSUME NEW s \in Streams, SkipFd(s) PROVE CallerTypeOK'
  BY <1>14 DEF SkipFd, After
<1>15. ASSUME NEW s \in Streams, SyncRead(s) PROVE CallerTypeOK'
  BY <1>15 DEF SyncRead
<1>16. CASE Wait
  <2>1. reports' = Append(reports, "finished")
    BY <1>16 DEF Wait, Reaped, NoChild, WaitFails, Complete, Fail
  <2>2. reports' \in Seq({"started", "progress", "finished"})
    BY <2>1
  <2>3. status' \in Int
    BY <1>16 DEF Wait, Reaped, NoChild, WaitFails, Complete, Fail, ChildTypeOK
  <2>4. pc' = "done" /\ ret' \in BOOLEAN /\ error' \in {NULL, "FAILED", "NOOUT"}
    BY <1>16 DEF Wait, Reaped, NoChild, WaitFails, Complete, Fail
  <2> QED
    BY <1>16, <2>2, <2>3, <2>4 DEF Wait
<1>17. CASE WaitAfterFailure BY <1>17 DEF WaitAfterFailure
<1>18. CASE SyncDone
  <2>1. status' \in Int
    BY <1>18 DEF SyncDone, ChildTypeOK
  <2>2. pc' = "done" /\ fds' = {} /\ ret' \in BOOLEAN /\ error' \in {NULL, "FAILED", "SPAWN"}
    BY <1>18 DEF SyncDone
  <2> QED
    BY <1>18, <2>1, <2>2 DEF SyncDone
<1>25. ASSUME NEW s \in Streams, ReadEnds(s) PROVE CallerTypeOK'
  BY <1>25, LinesAt DEF ReadEnds
<1>26. ASSUME NEW s \in Streams, TakeLine(s) PROVE CallerTypeOK'
  <2>1. reports' \in Seq({"started", "progress", "finished"})
    BY <1>26, ReportedType
  <2> QED
    BY <1>26, <2>1 DEF TakeLine
<1>19. ASSUME NEW s \in Streams, ChildWrite(s) PROVE CallerTypeOK'
  BY <1>19 DEF ChildWrite, Step
<1>20. ASSUME NEW s \in Streams, ChildKilled(s) PROVE CallerTypeOK'
  BY <1>20 DEF ChildKilled, Exited
<1>21. CASE ChildRead BY <1>21 DEF ChildRead, Step
<1>22. CASE ChildClose BY <1>22 DEF ChildClose, Step
<1>23. CASE ChildExit BY <1>23 DEF ChildExit, Exited
<1>24. CASE UNCHANGED vars BY <1>24 DEF vars
<1> QED
  BY <1>1, <1>2, <1>3, <1>4, <1>5, <1>6, <1>7, <1>8, <1>9, <1>10, <1>11, <1>12, <1>13,
     <1>14, <1>15, <1>16, <1>17, <1>18, <1>19, <1>20, <1>21, <1>22, <1>23, <1>24,
     <1>25, <1>26
  DEF Next, Caller, Child

\* What the child does next is an operation of its script.
LEMMA ThisOpType ==
    ASSUME IndInv
    PROVE  /\ ThisOp \in Ops /\ call.script \in Seq(Ops) /\ Len(call.script) \in Nat
           /\ ThisOp.op # "exit" => child.at + 1 \in 1 .. Len(call.script)
BY ExecAssumption DEF IndInv, TypeOK, CallerTypeOK, ChildTypeOK, ThisOp

LEMMA OpFields ==
    /\ \A o \in Ops : o.op \in Streams => o.byte \in Bytes
    /\ \A o \in Ops : o.op = "exit" => o.status \in Int
BY DEF Ops, Streams

LEMMA PipeTypeStep == IndInv /\ [Next]_vars => PipeTypeOK'
<1> SUFFICES ASSUME IndInv, [Next]_vars PROVE PipeTypeOK'
  OBVIOUS
<1> USE ExecAssumption, ThisOpType, OpFields DEF IndInv, TypeOK, PipeTypeOK, Streams, callerVars, childVars
<1>1. CASE SpawnFails BY <1>1 DEF SpawnFails
<1>2. CASE Spawn BY <1>2 DEF Spawn
<1>3. CASE SpawnSync BY <1>3 DEF SpawnSync
<1>4. CASE Write
  <2>1. pipe.in \in 0 .. PipeSize /\ pipe.in < PipeSize /\ PipeSize \in Nat
    BY <1>4 DEF Write
  <2>2. pipe.in + 1 \in 0 .. PipeSize
    BY ONLY <2>1
  <2>3. pipe' = [pipe EXCEPT !.in = pipe.in + 1]
    BY <1>4 DEF Write
  <2> QED
    BY ONLY IndInv, <2>2, <2>3, InputUpdated DEF IndInv, TypeOK
<1>5. CASE WriteKills BY <1>5 DEF WriteKills
<1>6. CASE WriteFails BY <1>6 DEF WriteFails
<1>7. CASE CloseInput BY <1>7 DEF CloseInput
<1>8. CASE Reap BY <1>8 DEF Reap
<1>9. CASE Poll BY <1>9 DEF Poll, Events
<1>10. CASE PollFails BY <1>10 DEF PollFails, Abandon
<1>11. ASSUME NEW s \in Streams, Read(s) PROVE PipeTypeOK'
  <2>1. pipe' = [pipe EXCEPT ![s] = <<>>]
    BY <1>11 DEF Read
  <2>2. <<>> \in Seq(Bytes) /\ Len(<<>>) <= PipeSize
    OBVIOUS
  <2> QED
    BY ONLY IndInv, <2>1, <2>2, PipeUpdated DEF IndInv, TypeOK, PipeTypeOK
<1>12. ASSUME NEW s \in Streams, ReadFails(s) PROVE PipeTypeOK'
  BY <1>12, LinesAt DEF ReadFails, Abandon
<1>13. ASSUME NEW s \in Streams, ProcessFd(s) PROVE PipeTypeOK'
  BY <1>13, LinesAt DEF ProcessFd, After
<1>14. ASSUME NEW s \in Streams, SkipFd(s) PROVE PipeTypeOK'
  BY <1>14 DEF SkipFd, After
<1>15. ASSUME NEW s \in Streams, SyncRead(s) PROVE PipeTypeOK'
  <2>1. pipe' = [pipe EXCEPT ![s] = <<>>]
    BY <1>15 DEF SyncRead
  <2>2. <<>> \in Seq(Bytes) /\ Len(<<>>) <= PipeSize
    OBVIOUS
  <2> QED
    BY ONLY IndInv, <2>1, <2>2, PipeUpdated DEF IndInv, TypeOK, PipeTypeOK
<1>16. CASE Wait
  BY <1>16 DEF Wait, Reaped, NoChild, WaitFails, Complete, Fail
<1>17. CASE WaitAfterFailure BY <1>17 DEF WaitAfterFailure
<1>18. CASE SyncDone BY <1>18 DEF SyncDone
<1>25. ASSUME NEW s \in Streams, ReadEnds(s) PROVE PipeTypeOK'
  BY <1>25, LinesAt DEF ReadEnds
<1>26. ASSUME NEW s \in Streams, TakeLine(s) PROVE PipeTypeOK'
  BY <1>26, LinesAt DEF TakeLine
<1>19. ASSUME NEW s \in Streams, ChildWrite(s) PROVE PipeTypeOK'
  <2>1. ThisOp.byte \in Bytes
    BY <1>19 DEF ChildWrite
  <2>2. pipe' = [pipe EXCEPT ![s] = Append(pipe[s], ThisOp.byte)] /\ Len(pipe[s]) < PipeSize
    BY <1>19 DEF ChildWrite
  <2>3. pipe[s] \in Seq(Bytes)
    OBVIOUS
  <2>4. Append(pipe[s], ThisOp.byte) \in Seq(Bytes) /\ Len(Append(pipe[s], ThisOp.byte)) <= PipeSize
    BY ONLY ExecAssumption, <2>1, <2>2, <2>3
  <2> QED
    BY ONLY IndInv, <2>2, <2>4, PipeUpdated DEF IndInv, TypeOK, PipeTypeOK
<1>20. ASSUME NEW s \in Streams, ChildKilled(s) PROVE PipeTypeOK'
  BY <1>20 DEF ChildKilled, Exited
<1>21. CASE ChildRead
  <2>1. CASE pipe' = pipe
    BY ONLY IndInv, <2>1 DEF IndInv, TypeOK, PipeTypeOK
  <2>2. CASE pipe.in > 0 /\ pipe' = [pipe EXCEPT !.in = pipe.in - 1]
    <3>1. pipe.in \in 0 .. PipeSize /\ PipeSize \in Nat
      OBVIOUS
    <3>2. pipe.in - 1 \in 0 .. PipeSize
      BY ONLY <2>2, <3>1
    <3> QED
      BY ONLY IndInv, <2>2, <3>2, InputUpdated DEF IndInv, TypeOK
  <2> QED
    BY <1>21, <2>1, <2>2 DEF ChildRead
<1>22. CASE ChildClose BY <1>22 DEF ChildClose, Step
<1>23. CASE ChildExit BY <1>23 DEF ChildExit, Exited
<1>24. CASE UNCHANGED vars BY <1>24 DEF vars
<1> QED
  BY <1>1, <1>2, <1>3, <1>4, <1>5, <1>6, <1>7, <1>8, <1>9, <1>10, <1>11, <1>12, <1>13,
     <1>14, <1>15, <1>16, <1>17, <1>18, <1>19, <1>20, <1>21, <1>22, <1>23, <1>24,
     <1>25, <1>26
  DEF Next, Caller, Child

LEMMA ChildTypeStep == IndInv /\ [Next]_vars => ChildTypeOK'
<1> SUFFICES ASSUME IndInv, [Next]_vars PROVE ChildTypeOK'
  OBVIOUS
<1> USE ExecAssumption, ThisOpType, OpFields DEF IndInv, TypeOK, ChildTypeOK, Streams, callerVars, childVars, Signal
<1>1. CASE SpawnFails BY <1>1 DEF SpawnFails
<1>2. CASE Spawn BY <1>2 DEF Spawn
<1>3. CASE SpawnSync BY <1>3 DEF SpawnSync
<1>4. CASE Write BY <1>4 DEF Write
<1>5. CASE WriteKills BY <1>5 DEF WriteKills
<1>6. CASE WriteFails BY <1>6 DEF WriteFails
<1>7. CASE CloseInput BY <1>7 DEF CloseInput
<1>8. CASE Reap BY <1>8 DEF Reap
<1>9. CASE Poll BY <1>9 DEF Poll, Events
<1>10. CASE PollFails BY <1>10 DEF PollFails, Abandon
<1>11. ASSUME NEW s \in Streams, Read(s) PROVE ChildTypeOK'
  BY <1>11 DEF Read
<1>12. ASSUME NEW s \in Streams, ReadFails(s) PROVE ChildTypeOK'
  BY <1>12, LinesAt DEF ReadFails, Abandon
<1>13. ASSUME NEW s \in Streams, ProcessFd(s) PROVE ChildTypeOK'
  BY <1>13, LinesAt DEF ProcessFd, After
<1>14. ASSUME NEW s \in Streams, SkipFd(s) PROVE ChildTypeOK'
  BY <1>14 DEF SkipFd, After
<1>15. ASSUME NEW s \in Streams, SyncRead(s) PROVE ChildTypeOK'
  BY <1>15 DEF SyncRead
<1>16. CASE Wait
  BY <1>16 DEF Wait, Reaped, NoChild, WaitFails, Complete, Fail
<1>17. CASE WaitAfterFailure BY <1>17 DEF WaitAfterFailure
<1>18. CASE SyncDone BY <1>18 DEF SyncDone
<1>25. ASSUME NEW s \in Streams, ReadEnds(s) PROVE ChildTypeOK'
  BY <1>25, LinesAt DEF ReadEnds
<1>26. ASSUME NEW s \in Streams, TakeLine(s) PROVE ChildTypeOK'
  BY <1>26, LinesAt DEF TakeLine
<1>19. ASSUME NEW s \in Streams, ChildWrite(s) PROVE ChildTypeOK'
  BY <1>19 DEF ChildWrite, Step
<1>20. ASSUME NEW s \in Streams, ChildKilled(s) PROVE ChildTypeOK'
  <2>1. Exited(-1) /\ call' = call
    BY <1>20 DEF ChildKilled
  <2> QED
    BY <2>1, ChildEnds
<1>21. CASE ChildRead BY <1>21 DEF ChildRead, Step
<1>22. CASE ChildClose BY <1>22 DEF ChildClose, Step
<1>23. CASE ChildExit BY <1>23 DEF ChildExit, Exited
<1>24. CASE UNCHANGED vars BY <1>24 DEF vars
<1> QED
  BY <1>1, <1>2, <1>3, <1>4, <1>5, <1>6, <1>7, <1>8, <1>9, <1>10, <1>11, <1>12, <1>13,
     <1>14, <1>15, <1>16, <1>17, <1>18, <1>19, <1>20, <1>21, <1>22, <1>23, <1>24,
     <1>25, <1>26
  DEF Next, Caller, Child

-----------------------------------------------------------------------------
(* Lines and what is kept of them.                                         *)

\* Places c + 1 to e of an output are a line, finished or the last one.
IsLine(bytes, c, e) ==
    /\ bytes \in Seq(Bytes) /\ c \in Nat /\ e \in c .. Len(bytes)
    /\ c = 0 \/ bytes[c] \in Ends
    /\ e = Len(bytes) \/ bytes[e] \in Ends
    /\ \A m \in c + 1 .. e - 1 : bytes[m] \notin Ends

LEMMA SameLine ==
    ASSUME NEW bytes, NEW c, NEW e, IsLine(bytes, c, e), NEW k \in c + 1 .. e, NEW j \in 1 .. Len(bytes)
    PROVE  Same(bytes, j, k) <=> j \in c + 1 .. e
<1>1. Len(bytes) \in Nat /\ c \in Nat /\ e \in Nat /\ c <= e /\ e <= Len(bytes)
  BY DEF IsLine
<1>2. ASSUME Same(bytes, j, k), j <= c PROVE FALSE
  <2>1. c \in 1 .. Len(bytes) /\ j <= c /\ c < k
    BY <1>1, <1>2
  <2>2. bytes[c] \in Ends
    BY <2>1 DEF IsLine
  <2> QED BY <1>2, <2>1, <2>2 DEF Same
<1>3. ASSUME Same(bytes, j, k), j > e PROVE FALSE
  <2>1. e \in 1 .. Len(bytes) /\ k <= e /\ e < j /\ e # Len(bytes)
    BY <1>1, <1>3
  <2>2. bytes[e] \in Ends
    BY <2>1 DEF IsLine
  <2> QED BY <1>3, <2>1, <2>2 DEF Same
<1>4. ASSUME j \in c + 1 .. e PROVE Same(bytes, j, k)
  <2> SUFFICES ASSUME NEW m \in 1 .. Len(bytes), (j <= m /\ m < k) \/ (k <= m /\ m < j)
               PROVE  bytes[m] \notin Ends
    BY DEF Same
  <2>1. m \in c + 1 .. e - 1
    BY <1>1, <1>4
  <2> QED BY <2>1 DEF IsLine
<1>5. j <= c \/ j > e \/ j \in c + 1 .. e
  BY <1>1
<1> QED BY <1>2, <1>3, <1>4, <1>5

LEMMA WantedInLine ==
    ASSUME NEW bytes, NEW c, NEW e, IsLine(bytes, c, e), NEW k \in c + 1 .. e, NEW x
    PROVE  Wanted(x, bytes, k) <=>
               bytes[k] # "nul" /\ (x => \A j \in c + 1 .. e : bytes[j] # "p")
<1>1. ASSUME NEW j \in c + 1 .. e PROVE j \in 1 .. Len(bytes)
  BY DEF IsLine
<1>2. \A j \in 1 .. Len(bytes) : Same(bytes, j, k) <=> j \in c + 1 .. e
  BY SameLine
<1> QED BY <1>1, <1>2 DEF Wanted

\* A byte more changes nothing in the lines before the last.
LEMMA WantedKept ==
    ASSUME NEW bytes \in Seq(Bytes), NEW b \in Bytes, NEW x, NEW c \in 0 .. Len(bytes),
           c = 0 \/ bytes[c] \in Ends
    PROVE  WantedIn(x, Append(bytes, b), c) = WantedIn(x, bytes, c)
<1> DEFINE more == Append(bytes, b)
<1>1. /\ Len(bytes) \in Nat /\ Len(more) = Len(bytes) + 1 /\ c \in Nat /\ c <= Len(bytes)
      /\ \A m \in 1 .. Len(bytes) : more[m] = bytes[m]
  OBVIOUS
<1> HIDE DEF more
<1>2. ASSUME NEW k \in 1 .. c PROVE Wanted(x, more, k) <=> Wanted(x, bytes, k)
  <2>1. k \in 1 .. Len(bytes) /\ more[k] = bytes[k] /\ c \in 1 .. Len(bytes) /\ c \in 1 .. Len(more)
    BY <1>1
  <2>2. more[c] \in Ends
    BY <1>1, <2>1
  <2>3. ASSUME NEW j \in 1 .. Len(more), Same(more, j, k) PROVE j \in 1 .. Len(bytes)
    <3>1. ~(k <= c /\ c < j)
      BY <2>1, <2>2, <2>3 DEF Same
    <3> QED BY <1>1, <3>1
  <2>4. ASSUME NEW j \in 1 .. Len(bytes) PROVE Same(more, j, k) <=> Same(bytes, j, k)
    <3>1. ASSUME NEW m \in 1 .. Len(bytes) PROVE m \in 1 .. Len(more) /\ more[m] = bytes[m]
      BY <1>1
    <3>2. ASSUME NEW m \in 1 .. Len(more), (j <= m /\ m < k) \/ (k <= m /\ m < j)
          PROVE  m \in 1 .. Len(bytes)
      BY <1>1, <2>1, <3>2
    <3> QED BY <3>1, <3>2 DEF Same
  <2>5. ASSUME NEW j \in 1 .. Len(bytes) PROVE j \in 1 .. Len(more) /\ more[j] = bytes[j]
    BY <1>1
  <2> QED BY <2>1, <2>3, <2>4, <2>5 DEF Wanted
<1> QED BY <1>2 DEF WantedIn, more

LEMMA PicksKept ==
    ASSUME NEW bytes \in Seq(Bytes), NEW b \in Bytes, NEW d, NEW W \in SUBSET (1 .. Len(bytes)),
           Picks(d, bytes, W)
    PROVE  Picks(d, Append(bytes, b), W)
<1> DEFINE more == Append(bytes, b)
<1>1. \A m \in 1 .. Len(bytes) : more[m] = bytes[m]
  OBVIOUS
<1> HIDE DEF more
<1>2. PICK h \in [1 .. Len(d) -> W] :
        /\ \A m, n \in 1 .. Len(d) : m < n => h[m] < h[n]
        /\ \A k \in W : \E n \in 1 .. Len(d) : h[n] = k
        /\ \A n \in 1 .. Len(d) : d[n] = bytes[h[n]]
  BY DEF Picks
<1>3. \A n \in 1 .. Len(d) : d[n] = more[h[n]]
  BY <1>1, <1>2
<1> QED BY <1>2, <1>3 DEF Picks, more

LEMMA PicksNothing == \A bytes : Picks(<<>>, bytes, {})
<1> SUFFICES ASSUME NEW bytes PROVE Picks(<<>>, bytes, {})
  OBVIOUS
<1>1. <<>> \in [1 .. Len(<<>>) -> {}] /\ 1 .. Len(<<>>) = {}
  OBVIOUS
<1> QED BY <1>1 DEF Picks

LEMMA PicksEmpty ==
    ASSUME NEW d \in Seq(Bytes), NEW bytes, NEW W, Picks(d, bytes, W)
    PROVE  d = <<>> <=> W = {}
<1>1. PICK h \in [1 .. Len(d) -> W] : \A k \in W : \E n \in 1 .. Len(d) : h[n] = k
  BY DEF Picks
<1>2. ASSUME d = <<>> PROVE W = {}
  <2>1. 1 .. Len(d) = {}
    BY <1>2
  <2> QED BY <1>1, <2>1
<1>3. ASSUME d # <<>> PROVE W # {}
  <2>1. 1 \in 1 .. Len(d)
    BY <1>3
  <2> QED BY <1>1, <2>1
<1> QED BY <1>2, <1>3

LEMMA PicksMore ==
    ASSUME NEW bytes \in Seq(Bytes), NEW d \in Seq(Bytes), NEW t \in Seq(Bytes), NEW c \in Nat,
           NEW W \in SUBSET (1 .. c), Picks(d, bytes, W),
           \A i \in 1 .. Len(t) : t[i] = bytes[c + i]
    PROVE  Picks(d \o t, bytes, W \cup (c + 1 .. c + Len(t)))
<1> DEFINE both == d \o t
           V == W \cup (c + 1 .. c + Len(t))
           n0 == Len(d)
           n1 == Len(t)
<1>1. PICK h \in [1 .. n0 -> W] :
        /\ \A m, n \in 1 .. n0 : m < n => h[m] < h[n]
        /\ \A k \in W : \E n \in 1 .. n0 : h[n] = k
        /\ \A n \in 1 .. n0 : d[n] = bytes[h[n]]
  BY DEF Picks
<1>2. n0 \in Nat /\ n1 \in Nat /\ Len(both) = n0 + n1
  OBVIOUS
<1>3. /\ \A n \in 1 .. n0 : both[n] = d[n]
      /\ \A n \in n0 + 1 .. n0 + n1 : both[n] = t[n - n0]
  OBVIOUS
<1> HIDE DEF both, n0, n1
<1> DEFINE g == [n \in 1 .. n0 + n1 |-> IF n <= n0 THEN h[n] ELSE c + (n - n0)]
<1>4. ASSUME NEW n \in 1 .. n0 + n1, n <= n0
      PROVE  n \in 1 .. n0 /\ g[n] = h[n] /\ h[n] \in W /\ h[n] \in 1 .. c
  <2>1. n \in 1 .. n0
    BY <1>2, <1>4
  <2> QED BY <1>1, <1>4, <2>1
<1>5. ASSUME NEW n \in 1 .. n0 + n1, ~(n <= n0)
      PROVE  n \in n0 + 1 .. n0 + n1 /\ n - n0 \in 1 .. n1 /\ g[n] = c + (n - n0) /\ g[n] \in c + 1 .. c + n1
  <2>1. n \in n0 + 1 .. n0 + n1 /\ n - n0 \in 1 .. n1
    BY <1>2, <1>5
  <2> QED BY <1>2, <1>5, <2>1
<1>6. g \in [1 .. n0 + n1 -> V]
  <2>1. ASSUME NEW n \in 1 .. n0 + n1 PROVE g[n] \in V
    <3>1. CASE n <= n0 BY <1>4, <3>1
    <3>2. CASE ~(n <= n0) BY <1>5, <3>2 DEF n1
    <3> QED BY <3>1, <3>2
  <2> QED BY <2>1
<1> HIDE DEF g
<1>7. ASSUME NEW m \in 1 .. n0 + n1, NEW n \in 1 .. n0 + n1, m < n PROVE g[m] < g[n]
  <2>1. CASE n <= n0
    <3>1. m <= n0
      BY <1>2, <1>7, <2>1
    <3>2. g[m] = h[m] /\ g[n] = h[n] /\ m \in 1 .. n0 /\ n \in 1 .. n0
      BY <1>4, <2>1, <3>1
    <3> QED BY <1>1, <1>7, <3>2
  <2>2. CASE ~(n <= n0) /\ m <= n0
    <3>1. g[m] \in 1 .. c
      BY <1>4, <2>2
    <3>2. g[n] \in c + 1 .. c + n1
      BY <1>5, <2>2
    <3> QED BY <3>1, <3>2, <1>2
  <2>3. CASE ~(m <= n0)
    <3>1. ~(n <= n0)
      BY <1>2, <1>7, <2>3
    <3>2. g[m] = c + (m - n0) /\ g[n] = c + (n - n0)
      BY <1>5, <2>3, <3>1
    <3> QED BY <1>2, <1>7, <3>2
  <2> QED BY <2>1, <2>2, <2>3
<1>8. ASSUME NEW k \in V PROVE \E n \in 1 .. n0 + n1 : g[n] = k
  <2>1. CASE k \in W
    <3>1. PICK n \in 1 .. n0 : h[n] = k
      BY <1>1, <2>1
    <3>2. n \in 1 .. n0 + n1 /\ n <= n0
      BY <1>2
    <3> QED BY <1>4, <3>1, <3>2
  <2>2. CASE k \in c + 1 .. c + n1
    <3>1. (k - c) + n0 \in 1 .. n0 + n1 /\ ~((k - c) + n0 <= n0) /\ c + (((k - c) + n0) - n0) = k
      BY <1>2, <2>2
    <3> QED BY <1>5, <3>1
  <2> QED BY <2>1, <2>2 DEF n1
<1>9. ASSUME NEW n \in 1 .. n0 + n1 PROVE both[n] = bytes[g[n]]
  <2>1. CASE n <= n0
    BY <1>1, <1>3, <1>4, <2>1
  <2>2. CASE ~(n <= n0)
    <3>1. both[n] = t[n - n0] /\ n - n0 \in 1 .. n1 /\ g[n] = c + (n - n0)
      BY <1>3, <1>5, <2>2
    <3> QED BY <3>1 DEF n1
  <2> QED BY <2>1, <2>2
<1> HIDE DEF V
<1>10. Picks(both, bytes, V)
  <2>1. g \in [1 .. Len(both) -> V]
    BY <1>2, <1>6
  <2>2. \A m, n \in 1 .. Len(both) : m < n => g[m] < g[n]
    BY <1>2, <1>7
  <2>3. \A k \in V : \E n \in 1 .. Len(both) : g[n] = k
    BY <1>2, <1>8
  <2>4. \A n \in 1 .. Len(both) : both[n] = bytes[g[n]]
    BY <1>2, <1>9
  <2> QED BY <2>1, <2>2, <2>3, <2>4 DEF Picks
<1> QED BY <1>10 DEF both, V

\* A line that has been dealt with as _process_fd_event does.
LEMMA LineTaken ==
    ASSUME NEW bytes, NEW c, NEW e, IsLine(bytes, c, e), c < e, NEW x \in BOOLEAN,
           NEW d \in Seq(Bytes), NEW d2, NEW line \in Seq(Bytes), Len(line) = e - c,
           \A i \in 1 .. Len(line) : line[i] = bytes[c + i],
           Picks(d, bytes, WantedIn(x, bytes, c)),
           d2 = IF x /\ \E k \in 1 .. Len(line) : line[k] = "p" THEN d ELSE d \o Text(line)
    PROVE  Picks(d2, bytes, WantedIn(x, bytes, e))
<1> DEFINE n == Len(line)
<1>1. n \in Nat /\ n > 0 /\ c \in Nat /\ e \in Nat /\ e = c + n /\ e <= Len(bytes) /\ Len(bytes) \in Nat
  BY DEF IsLine
<1>2. bytes \in Seq(Bytes)
  BY DEF IsLine
<1>3. ASSUME NEW j \in c + 1 .. e PROVE j - c \in 1 .. n /\ line[j - c] = bytes[j]
  <2>1. j - c \in 1 .. n /\ c + (j - c) = j
    BY <1>1
  <2> QED BY <2>1
<1>4. ASSUME NEW i \in 1 .. n PROVE c + i \in c + 1 .. e /\ line[i] = bytes[c + i]
  BY <1>1
<1>5. WantedIn(x, bytes, c) \in SUBSET (1 .. c)
  BY DEF WantedIn
<1>6. ASSUME NEW k \in 1 .. e PROVE k \in 1 .. c \/ k \in c + 1 .. e
  BY <1>1
<1>7. ASSUME NEW k \in c + 1 .. e PROVE k \in 1 .. e /\ ~(k \in 1 .. c)
  BY <1>1
<1>8. ASSUME NEW k \in 1 .. c PROVE k \in 1 .. e
  BY <1>1
<1> HIDE DEF n
<1>9. CASE x /\ \E k \in 1 .. n : line[k] = "p"
  <2>1. PICK i \in 1 .. n : line[i] = "p"
    BY <1>9
  <2>2. c + i \in c + 1 .. e /\ bytes[c + i] = "p"
    BY <1>4, <2>1
  <2>3. ASSUME NEW k \in c + 1 .. e PROVE ~Wanted(x, bytes, k)
    BY <1>9, <2>2, WantedInLine
  <2>4. WantedIn(x, bytes, e) = WantedIn(x, bytes, c)
    BY <1>6, <1>8, <2>3 DEF WantedIn
  <2> QED BY <1>9, <2>4 DEF n
<1>10. CASE ~(x /\ \E k \in 1 .. n : line[k] = "p")
  <2>1. ASSUME x, NEW j \in c + 1 .. e PROVE bytes[j] # "p"
    BY <1>3, <1>10, <2>1
  <2>2. ASSUME NEW k \in c + 1 .. e PROVE Wanted(x, bytes, k) <=> bytes[k] # "nul"
    BY <2>1, WantedInLine
  <2>3. ASSUME NEW k \in c + 1 .. e, k # e PROVE bytes[k] # "nul"
    <3>1. k \in c + 1 .. e - 1
      BY <1>1, <2>3
    <3> QED BY <3>1 DEF IsLine, Ends
  <2>4. e \in c + 1 .. e /\ line[n] = bytes[e] /\ n \in 1 .. n
    BY <1>1, <1>4
  <2>5. d2 = d \o Text(line)
    BY <1>10 DEF n
  <2>6. CASE line[n] = "nul"
    <3> DEFINE t == SubSeq(line, 1, n - 1)
    <3>1. t \in Seq(Bytes) /\ Len(t) = n - 1 /\ \A i \in 1 .. n - 1 : t[i] = line[i]
      BY <1>1 DEF n
    <3> HIDE DEF t
    <3>2. \A i \in 1 .. Len(t) : t[i] = bytes[c + i]
      BY <1>1, <1>4, <3>1
    <3>3. Picks(d \o t, bytes, WantedIn(x, bytes, c) \cup (c + 1 .. c + Len(t)))
      BY <1>1, <1>2, <1>5, <3>1, <3>2, PicksMore
    <3>4. c + Len(t) = e - 1
      BY <1>1, <3>1
    <3>5. ASSUME NEW k \in c + 1 .. e PROVE Wanted(x, bytes, k) <=> k \in c + 1 .. e - 1
      <4>1. k \in c + 1 .. e - 1 <=> k # e
        BY <1>1
      <4> QED BY <2>2, <2>3, <2>4, <2>6, <4>1
    <3>6. ASSUME NEW k \in c + 1 .. e - 1 PROVE k \in c + 1 .. e
      BY <1>1
    <3>7. WantedIn(x, bytes, e) = WantedIn(x, bytes, c) \cup (c + 1 .. e - 1)
      BY <1>6, <1>7, <1>8, <3>5, <3>6 DEF WantedIn
    <3>8. d2 = d \o t
      BY <2>5, <2>6 DEF Text, t, n
    <3> QED BY <3>3, <3>4, <3>7, <3>8
  <2>7. CASE line[n] # "nul"
    <3>1. Picks(d \o line, bytes, WantedIn(x, bytes, c) \cup (c + 1 .. c + Len(line)))
      BY <1>1, <1>2, <1>5, PicksMore
    <3>2. c + Len(line) = e
      BY <1>1 DEF n
    <3>3. ASSUME NEW k \in c + 1 .. e PROVE Wanted(x, bytes, k)
      BY <2>2, <2>3, <2>4, <2>7
    <3>4. WantedIn(x, bytes, e) = WantedIn(x, bytes, c) \cup (c + 1 .. e)
      BY <1>6, <1>7, <1>8, <3>3 DEF WantedIn
    <3>5. d2 = d \o line
      BY <2>5, <2>7 DEF Text, n
    <3> QED BY <3>1, <3>2, <3>4, <3>5
  <2> QED BY <2>6, <2>7
<1> QED BY <1>9, <1>10

-----------------------------------------------------------------------------
(* The bytes on their way from the child to the result.                    *)

LEMMA LineTypes ==
    ASSUME NEW r \in Seq(Bytes), NEW k \in 1 .. Len(r)
    PROVE  /\ SubSeq(r, 1, k) \in Seq(Bytes) /\ Len(SubSeq(r, 1, k)) = k
           /\ \A i \in 1 .. k : SubSeq(r, 1, k)[i] = r[i]
           /\ SubSeq(r, k + 1, Len(r)) \in Seq(Bytes) /\ Len(SubSeq(r, k + 1, Len(r))) = Len(r) - k
           /\ \A i \in 1 .. Len(r) - k : SubSeq(r, k + 1, Len(r))[i] = r[k + i]
OBVIOUS

LEMMA TextType == ASSUME NEW line \in Seq(Bytes), line # <<>> PROVE Text(line) \in Seq(Bytes)
<1>1. Len(line) \in Nat /\ Len(line) > 0
  OBVIOUS
<1> QED BY <1>1 DEF Text

LEMMA KeepType ==
    ASSUME NEW s \in Streams, NEW line \in Seq(Bytes), line # <<>>,
           data \in [Streams -> Seq(Bytes)], Keep(s, line)
    PROVE  data' \in [Streams -> Seq(Bytes)]
<1>1. data[s] \o Text(line) \in Seq(Bytes)
  BY TextType
<1> QED BY <1>1 DEF Keep

LEMMA BytesTypeStep == IndInv /\ [Next]_vars => BytesTypeOK'
<1> SUFFICES ASSUME IndInv, [Next]_vars PROVE BytesTypeOK'
  OBVIOUS
<1> USE DEF IndInv, OutputInv, BytesTypeOK, callerVars, childVars
<1>1. CASE SpawnFails
  BY <1>1 DEF SpawnFails
<1>2. CASE Spawn
  BY <1>2 DEF Spawn
<1>3. CASE SpawnSync
  BY <1>3 DEF SpawnSync
<1>4. CASE Write
  BY <1>4 DEF Write
<1>5. CASE WriteKills
  BY <1>5 DEF WriteKills
<1>6. CASE WriteFails
  BY <1>6 DEF WriteFails
<1>7. CASE CloseInput
  BY <1>7 DEF CloseInput
<1>8. CASE Reap
  BY <1>8 DEF Reap
<1>9. CASE Poll
  BY <1>9 DEF Poll, Events
<1>10. CASE PollFails
  BY <1>10 DEF PollFails, Abandon
<1>11. ASSUME NEW s \in Streams, Read(s) PROVE BytesTypeOK'
  <2>1. pipe[s] \in Seq(Bytes) /\ rest[s] \in Seq(Bytes)
    BY DEF TypeOK, PipeTypeOK, Streams
  <2>2. rest[s] \o pipe[s] \in Seq(Bytes)
    BY <2>1
  <2> QED BY <1>11, <2>2 DEF Read
<1>12. ASSUME NEW s \in Streams, ReadEnds(s) PROVE BytesTypeOK'
  BY <1>12 DEF ReadEnds
<1>13. ASSUME NEW s \in Streams, TakeLine(s) PROVE BytesTypeOK'
  <2>1. PICK k \in 1 .. Len(rest[s]) :
            /\ Keep(s, SubSeq(rest[s], 1, k))
            /\ rest' = [rest EXCEPT ![s] = SubSeq(rest[s], k + 1, Len(rest[s]))]
    BY <1>13 DEF TakeLine, LineEnds
  <2>2. SubSeq(rest[s], 1, k) \in Seq(Bytes) /\ SubSeq(rest[s], k + 1, Len(rest[s])) \in Seq(Bytes)
        /\ Len(SubSeq(rest[s], 1, k)) = k
    BY LineTypes
  <2>3. SubSeq(rest[s], 1, k) # <<>>
    <3>1. Len(<<>>) = 0 /\ k # 0
      OBVIOUS
    <3> QED BY <2>2, <3>1
  <2>4. data' \in [Streams -> Seq(Bytes)]
    BY <2>1, <2>2, <2>3, KeepType
  <2>5. rest' \in [Streams -> Seq(Bytes)] /\ sent' = sent
    BY <1>13, <2>1, <2>2 DEF TakeLine
  <2> QED BY <2>4, <2>5
<1>14. ASSUME NEW s \in Streams, ReadFails(s) PROVE BytesTypeOK'
  BY <1>14 DEF ReadFails, Abandon
<1>15. ASSUME NEW s \in Streams, ProcessFd(s) PROVE BytesTypeOK'
  <2>1. data' = data \/ (rest[s] # <<>> /\ Keep(s, rest[s]))
    BY <1>15 DEF ProcessFd
  <2>2. data' \in [Streams -> Seq(Bytes)]
    BY <2>1, KeepType
  <2> QED BY <1>15, <2>2 DEF ProcessFd
<1>16. ASSUME NEW s \in Streams, SkipFd(s) PROVE BytesTypeOK'
  BY <1>16 DEF SkipFd, After
<1>17. ASSUME NEW s \in Streams, SyncRead(s) PROVE BytesTypeOK'
  <2>1. pipe[s] \in Seq(Bytes) /\ data[s] \in Seq(Bytes)
    BY DEF TypeOK, PipeTypeOK, Streams
  <2>2. data[s] \o pipe[s] \in Seq(Bytes)
    BY <2>1
  <2> QED BY <1>17, <2>2 DEF SyncRead
<1>18. CASE Wait
  BY <1>18 DEF Wait, Reaped, NoChild, WaitFails, Complete, Fail
<1>19. CASE WaitAfterFailure
  BY <1>19 DEF WaitAfterFailure
<1>20. CASE SyncDone
  BY <1>20 DEF SyncDone
<1>21. ASSUME NEW s \in Streams, ChildWrite(s) PROVE BytesTypeOK'
  <2>1. ThisOp.byte \in Bytes
    BY <1>21, ThisOpType, OpFields DEF ChildWrite
  <2>2. Append(sent[s], ThisOp.byte) \in Seq(Bytes)
    BY <2>1
  <2> QED BY <1>21, <2>2 DEF ChildWrite
<1>22. ASSUME NEW s \in Streams, ChildKilled(s) PROVE BytesTypeOK'
  BY <1>22 DEF ChildKilled, Exited
<1>23. CASE ChildRead
  BY <1>23 DEF ChildRead, Step
<1>24. CASE ChildClose
  BY <1>24 DEF ChildClose, Step
<1>25. CASE ChildExit
  BY <1>25 DEF ChildExit, Exited
<1>26. CASE UNCHANGED vars
  BY <1>26 DEF vars
<1> QED
  BY <1>1, <1>2, <1>3, <1>4, <1>5, <1>6, <1>7, <1>8, <1>9, <1>10, <1>11, <1>12, <1>13,
     <1>14, <1>15, <1>16, <1>17, <1>18, <1>19, <1>20, <1>21, <1>22, <1>23, <1>24, <1>25, <1>26
  DEF Next, Caller, Child

LEMMA ClosedStep == IndInv /\ [Next]_vars => ClosedInv'
<1> SUFFICES ASSUME IndInv, [Next]_vars PROVE ClosedInv'
  OBVIOUS
<1> USE ExecAssumption DEF IndInv, OutputInv, ClosedInv, TypeOK, ChildTypeOK, callerVars, childVars
<1>1. CASE SpawnFails
  BY <1>1 DEF SpawnFails
<1>2. CASE Spawn
  BY <1>2 DEF Spawn
<1>3. CASE SpawnSync
  BY <1>3 DEF SpawnSync
<1>4. CASE Write
  BY <1>4 DEF Write
<1>5. CASE WriteKills
  BY <1>5 DEF WriteKills
<1>6. CASE WriteFails
  BY <1>6 DEF WriteFails
<1>7. CASE CloseInput
  BY <1>7 DEF CloseInput
<1>8. CASE Reap
  BY <1>8 DEF Reap
<1>9. CASE Poll
  BY <1>9 DEF Poll, Events
<1>10. CASE PollFails
  BY <1>10 DEF PollFails, Abandon
<1>11. ASSUME NEW s \in Streams, Read(s) PROVE ClosedInv'
  BY <1>11 DEF Read
<1>12. ASSUME NEW s \in Streams, ReadEnds(s) PROVE ClosedInv'
  BY <1>12 DEF ReadEnds
<1>13. ASSUME NEW s \in Streams, TakeLine(s) PROVE ClosedInv'
  BY <1>13 DEF TakeLine
<1>14. ASSUME NEW s \in Streams, ReadFails(s) PROVE ClosedInv'
  BY <1>14 DEF ReadFails, Abandon
<1>15. ASSUME NEW s \in Streams, ProcessFd(s) PROVE ClosedInv'
  BY <1>15 DEF ProcessFd, After
<1>16. ASSUME NEW s \in Streams, SkipFd(s) PROVE ClosedInv'
  BY <1>16 DEF SkipFd, After
<1>17. ASSUME NEW s \in Streams, SyncRead(s) PROVE ClosedInv'
  BY <1>17 DEF SyncRead
<1>18. CASE Wait
  <2>1. child'.state = "gone" \/ child' = child
    BY <1>18 DEF Wait, Reaped, NoChild, WaitFails
  <2>2. call' = call /\ wopen' = wopen
    BY <1>18 DEF Wait
  <2> QED BY <2>1, <2>2
<1>19. CASE WaitAfterFailure
  BY <1>19 DEF WaitAfterFailure
<1>20. CASE SyncDone
  BY <1>20 DEF SyncDone
<1>21. ASSUME NEW s \in Streams, ChildWrite(s) PROVE ClosedInv'
  BY <1>21 DEF ChildWrite, Step
<1>22. ASSUME NEW s \in Streams, ChildKilled(s) PROVE ClosedInv'
  BY <1>22 DEF ChildKilled, Exited
<1>23. CASE ChildRead
  BY <1>23 DEF ChildRead, Step
<1>24. CASE ChildClose
  <2> SUFFICES ASSUME NEW q \in Streams \ wopen' PROVE
                   \E i \in 1 .. child'.at - 1 : call'.script[i].op = "close" /\ call'.script[i].fd = q
    OBVIOUS
  <2>1. child'.at = child.at + 1 /\ child.at \in Nat /\ child.at > 0 /\ call' = call
    BY <1>24 DEF ChildClose, Step
  <2>2. CASE q \in wopen
    <3>1. child.at \in 1 .. child'.at - 1
      BY <2>1
    <3>2. call.script[child.at].op = "close" /\ call.script[child.at].fd = q
      BY <1>24, <2>2 DEF ChildClose, ThisOp
    <3> QED BY <2>1, <3>1, <3>2
  <2>3. CASE q \notin wopen
    <3>1. PICK i \in 1 .. child.at - 1 : call.script[i].op = "close" /\ call.script[i].fd = q
      BY <1>24, <2>3 DEF ChildClose
    <3>2. i \in 1 .. child'.at - 1
      BY <2>1
    <3> QED BY <2>1, <3>1, <3>2
  <2> QED BY <2>2, <2>3
<1>25. CASE ChildExit
  BY <1>25 DEF ChildExit, Exited
<1>26. CASE UNCHANGED vars
  BY <1>26 DEF vars
<1> QED
  BY <1>1, <1>2, <1>3, <1>4, <1>5, <1>6, <1>7, <1>8, <1>9, <1>10, <1>11, <1>12, <1>13,
     <1>14, <1>15, <1>16, <1>17, <1>18, <1>19, <1>20, <1>21, <1>22, <1>23, <1>24, <1>25, <1>26
  DEF Next, Caller, Child

\* The child writes to what it has open.
LEMMA WritesOpen ==
    ASSUME IndInv, NEW s \in Streams, ChildWrite(s)
    PROVE  s \in wopen
<1> SUFFICES ASSUME s \notin wopen PROVE FALSE
  OBVIOUS
<1>1. PICK i \in 1 .. child.at - 1 : call.script[i].op = "close" /\ call.script[i].fd = s
  BY DEF IndInv, OutputInv, ClosedInv, ChildWrite
<1>2. child.at \in 1 .. Len(call.script) /\ Len(call.script) \in Nat /\ call \in Calls
  BY ThisOpType DEF IndInv, TypeOK, ChildTypeOK, CallerTypeOK
<1>3. i \in 1 .. Len(call.script) /\ i < child.at
  BY <1>2
<1>4. call.script[child.at].op = s
  BY DEF ChildWrite, ThisOp
<1> QED BY <1>1, <1>2, <1>3, <1>4, ExecAssumption

LEMMA EventsStep == IndInv /\ [Next]_vars => EventsInv'
<1> SUFFICES ASSUME IndInv, [Next]_vars PROVE EventsInv'
  OBVIOUS
<1> USE LinesAt DEF IndInv, OutputInv, EventsInv, Eof, Return, callerVars, childVars, Streams
<1>1. CASE SpawnFails
  BY <1>1 DEF SpawnFails
<1>2. CASE Spawn
  BY <1>2 DEF Spawn
<1>3. CASE SpawnSync
  BY <1>3 DEF SpawnSync
<1>4. CASE Write
  <2>1. pc' = "write"
    BY <1>4 DEF Write
  <2> QED BY <2>1
<1>5. CASE WriteKills
  BY <1>5 DEF WriteKills
<1>6. CASE WriteFails
  BY <1>6 DEF WriteFails
<1>7. CASE CloseInput
  BY <1>7 DEF CloseInput
<1>8. CASE Reap
  BY <1>8 DEF Reap
<1>9. CASE Poll
  BY <1>9 DEF Poll, Events
<1>10. CASE PollFails
  BY <1>10 DEF PollFails, Abandon
<1>11. ASSUME NEW s \in Streams, Read(s) PROVE EventsInv'
  <2>1. pipe' = [pipe EXCEPT ![s] = <<>>] /\ pipe \in [in : 0 .. PipeSize, out : Seq(Bytes), err : Seq(Bytes)]
    BY <1>11 DEF Read, TypeOK, PipeTypeOK
  <2>2. \A q \in Streams : pipe'[q] = pipe[q] \/ pipe'[q] = <<>>
    BY <2>1
  <2>3. pc \in Streams /\ UNCHANGED <<pc, revents, last, done, wopen>>
    BY <1>11 DEF Read
  <2> QED BY <2>2, <2>3
<1>12. ASSUME NEW s \in Streams, ReadEnds(s) PROVE EventsInv'
  BY <1>12 DEF ReadEnds
<1>13. ASSUME NEW s \in Streams, TakeLine(s) PROVE EventsInv'
  BY <1>13 DEF TakeLine
<1>14. ASSUME NEW s \in Streams, ReadFails(s) PROVE EventsInv'
  BY <1>14 DEF ReadFails, Abandon
<1>15. ASSUME NEW s \in Streams, ProcessFd(s) PROVE EventsInv'
  BY <1>15 DEF ProcessFd, After
<1>16. ASSUME NEW s \in Streams, SkipFd(s) PROVE EventsInv'
  BY <1>16 DEF SkipFd, After
<1>17. ASSUME NEW s \in Streams, SyncRead(s) PROVE EventsInv'
  BY <1>17 DEF SyncRead
<1>18. CASE Wait
  BY <1>18 DEF Wait, Reaped, NoChild, WaitFails, Complete, Fail
<1>19. CASE WaitAfterFailure
  BY <1>19 DEF WaitAfterFailure
<1>20. CASE SyncDone
  BY <1>20 DEF SyncDone
<1>21. ASSUME NEW s \in Streams, ChildWrite(s) PROVE EventsInv'
  <2>1. s \in wopen /\ UNCHANGED <<pc, revents, last, done, wopen>>
    BY <1>21, WritesOpen DEF ChildWrite
  <2>2. \A q \in Streams : q # s => pipe'[q] = pipe[q]
    BY <1>21 DEF ChildWrite, TypeOK, PipeTypeOK
  <2> QED BY <2>1, <2>2
<1>22. ASSUME NEW s \in Streams, ChildKilled(s) PROVE EventsInv'
  BY <1>22 DEF ChildKilled, Exited
<1>23. CASE ChildRead
  <2>1. pipe' = pipe \/ pipe' = [pipe EXCEPT !.in = @ - 1]
    BY <1>23 DEF ChildRead
  <2>2. \A q \in Streams : pipe'[q] = pipe[q]
    BY <2>1 DEF TypeOK, PipeTypeOK
  <2>3. UNCHANGED <<pc, revents, last, done, wopen>>
    BY <1>23 DEF ChildRead
  <2> QED BY <2>2, <2>3
<1>24. CASE ChildClose
  BY <1>24 DEF ChildClose, Step
<1>25. CASE ChildExit
  BY <1>25 DEF ChildExit, Exited
<1>26. CASE UNCHANGED vars
  BY <1>26 DEF vars
<1> QED
  BY <1>1, <1>2, <1>3, <1>4, <1>5, <1>6, <1>7, <1>8, <1>9, <1>10, <1>11, <1>12, <1>13,
     <1>14, <1>15, <1>16, <1>17, <1>18, <1>19, <1>20, <1>21, <1>22, <1>23, <1>24, <1>25, <1>26
  DEF Next, Caller, Child

\* A step that leaves an output alone.
LEMMA StreamFrame ==
    ASSUME NEW s \in Streams, StreamInv(s), call' = call, done'[s] = done[s], rest'[s] = rest[s],
           data'[s] = data[s], sent'[s] = sent[s], pipe'[s] = pipe[s], s \in wopen' => s \in wopen \/ ~done[s]
    PROVE  StreamInv(s)'
BY DEF StreamInv, Taken

LEMMA PipeOf == IndInv => \A q \in Streams : pipe[q] \in Seq(Bytes)
BY DEF IndInv, TypeOK, PipeTypeOK, Streams

\* What has been taken and what waits are all that was sent.
LEMMA StreamSizes ==
    ASSUME IndInv, NEW s \in Streams, StreamInv(s), ~done[s]
    PROVE  /\ sent[s] \in Seq(Bytes) /\ rest[s] \in Seq(Bytes) /\ data[s] \in Seq(Bytes)
           /\ pipe[s] \in Seq(Bytes)
           /\ Len(sent[s]) \in Nat /\ Len(rest[s]) \in Nat /\ Len(pipe[s]) \in Nat /\ Taken(s) \in Nat
           /\ Len(sent[s]) = Taken(s) + Len(rest[s]) + Len(pipe[s])
<1>1. sent[s] \in Seq(Bytes) /\ rest[s] \in Seq(Bytes) /\ data[s] \in Seq(Bytes) /\ pipe[s] \in Seq(Bytes)
  BY PipeOf DEF IndInv, OutputInv, BytesTypeOK
<1>2. Taken(s) \in Nat
  BY DEF StreamInv
<1>3. Taken(s) = Len(sent[s]) - Len(rest[s]) - Len(pipe[s])
  BY DEF Taken
<1>4. Len(sent[s]) \in Nat /\ Len(rest[s]) \in Nat /\ Len(pipe[s]) \in Nat
  BY <1>1
<1>5. Len(sent[s]) = Taken(s) + Len(rest[s]) + Len(pipe[s])
  BY ONLY <1>2, <1>3, <1>4
<1> QED BY <1>1, <1>2, <1>4, <1>5

LEMMA StreamRead ==
    ASSUME IndInv, NEW s \in Streams, StreamInv(s), Read(s)
    PROVE  StreamInv(s)'
<1> DEFINE c == Taken(s)
           r == rest[s]
           w == pipe[s]
           b == sent[s]
<1>1. /\ b \in Seq(Bytes) /\ r \in Seq(Bytes) /\ w \in Seq(Bytes)
      /\ Len(b) \in Nat /\ Len(r) \in Nat /\ Len(w) \in Nat /\ c \in Nat /\ Len(b) = c + Len(r) + Len(w)
  BY StreamSizes DEF Read
<1>2. /\ c = 0 \/ b[c] \in Ends
      /\ \A i \in 1 .. Len(r) : b[c + i] = r[i]
      /\ \A i \in 1 .. Len(w) : b[c + Len(r) + i] = w[i]
      /\ Picks(data[s], b, WantedIn(call.extract, b, c))
  BY DEF StreamInv, Read
<1>3. /\ rest'[s] = r \o w /\ pipe'[s] = <<>> /\ sent'[s] = b /\ data'[s] = data[s]
      /\ ~done'[s] /\ call' = call
  <2>1. rest \in [Streams -> Seq(Bytes)]
    BY DEF IndInv, OutputInv, BytesTypeOK
  <2>2. pipe'[s] = <<>>
    BY DEF Read, IndInv, TypeOK, PipeTypeOK, Streams
  <2> QED BY <2>1, <2>2 DEF Read, childVars
<1>4. Taken(s)' = Len(b) - Len(r \o w) - Len(<<>>)
  BY <1>3 DEF Taken
<1> HIDE DEF c, r, w, b
<1>5. Len(r \o w) = Len(r) + Len(w) /\ Len(<<>>) = 0
  BY <1>1
<1>6. Taken(s)' = c
  BY <1>1, <1>4, <1>5
<1>7. ASSUME NEW i \in 1 .. Len(r \o w) PROVE b[c + i] = (r \o w)[i]
  <2>1. CASE i <= Len(r)
    <3>1. i \in 1 .. Len(r) /\ (r \o w)[i] = r[i]
      BY <1>1, <2>1
    <3> QED BY <1>2, <3>1
  <2>2. CASE ~(i <= Len(r))
    <3>1. i - Len(r) \in 1 .. Len(w) /\ (r \o w)[i] = w[i - Len(r)] /\ c + Len(r) + (i - Len(r)) = c + i
      BY <1>1, <1>5, <2>2
    <3> QED BY <1>2, <3>1
  <2> QED BY <2>1, <2>2
<1>8. 1 .. Len(<<>>) = {}
  BY <1>5
<1> QED
  BY <1>1, <1>2, <1>3, <1>6, <1>7, <1>8 DEF StreamInv

LEMMA StreamLine ==
    ASSUME IndInv, NEW s \in Streams, StreamInv(s), TakeLine(s)
    PROVE  StreamInv(s)'
<1> DEFINE c == Taken(s)
           r == rest[s]
           w == pipe[s]
           b == sent[s]
           x == call.extract
<1>0. ~done[s]
  BY DEF TakeLine, IndInv, OutputInv, EventsInv
<1>1. /\ b \in Seq(Bytes) /\ r \in Seq(Bytes) /\ w \in Seq(Bytes) /\ data[s] \in Seq(Bytes)
      /\ Len(b) \in Nat /\ Len(r) \in Nat /\ Len(w) \in Nat /\ c \in Nat /\ Len(b) = c + Len(r) + Len(w)
  BY <1>0, StreamSizes
<1>2. /\ c = 0 \/ b[c] \in Ends
      /\ \A i \in 1 .. Len(r) : b[c + i] = r[i]
      /\ \A i \in 1 .. Len(w) : b[c + Len(r) + i] = w[i]
      /\ Picks(data[s], b, WantedIn(x, b, c))
  BY <1>0 DEF StreamInv
<1>3. PICK k \in LineEnds(r) :
        /\ \A j \in LineEnds(r) : k <= j
        /\ Keep(s, SubSeq(r, 1, k))
        /\ rest' = [rest EXCEPT ![s] = SubSeq(r, k + 1, Len(r))]
  BY DEF TakeLine
<1>4. k \in 1 .. Len(r) /\ r[k] \in Ends
  BY <1>3 DEF LineEnds
<1> DEFINE line == SubSeq(r, 1, k)
           more == SubSeq(r, k + 1, Len(r))
<1>5. /\ line \in Seq(Bytes) /\ Len(line) = k /\ \A i \in 1 .. k : line[i] = r[i]
      /\ more \in Seq(Bytes) /\ Len(more) = Len(r) - k /\ \A i \in 1 .. Len(r) - k : more[i] = r[k + i]
  BY <1>1, <1>4, LineTypes
<1>6. data'[s] = IF x /\ \E j \in 1 .. Len(line) : line[j] = "p" THEN data[s] ELSE data[s] \o Text(line)
  BY <1>3 DEF Keep, Progress, IndInv, OutputInv, BytesTypeOK
<1>7. /\ rest'[s] = more /\ pipe' = pipe /\ sent' = sent /\ ~done'[s] /\ call' = call
  BY <1>0, <1>3 DEF TakeLine, IndInv, OutputInv, BytesTypeOK, childVars
<1>8. x \in BOOLEAN
  BY ExecAssumption DEF IndInv, TypeOK, CallerTypeOK
<1>9. Taken(s)' = Len(b) - Len(more) - Len(w)
  BY <1>7 DEF Taken
<1> HIDE DEF c, r, w, b, x, line, more
<1>10. c + k \in Nat /\ c < c + k /\ c + k <= Len(b) /\ c + k \in c .. Len(b) /\ (c + k) - c = k
  BY <1>1, <1>4
<1>11. Taken(s)' = c + k
  BY <1>1, <1>4, <1>5, <1>9
<1>12. IsLine(b, c, c + k)
  <2>1. b[c + k] \in Ends
    BY <1>2, <1>4
  <2>2. ASSUME NEW m \in c + 1 .. (c + k) - 1 PROVE b[m] \notin Ends
    <3>1. m - c \in 1 .. Len(r) /\ ~(k <= m - c) /\ c + (m - c) = m
      BY <1>1, <1>4
    <3>2. m - c \notin LineEnds(r)
      BY <1>3, <3>1
    <3>3. r[m - c] \notin Ends
      BY <3>1, <3>2 DEF LineEnds
    <3> QED BY <1>2, <3>1, <3>3
  <2> QED BY <1>1, <1>2, <1>10, <2>1, <2>2 DEF IsLine
<1>13. \A i \in 1 .. Len(line) : line[i] = b[c + i]
  <2>1. \A i \in 1 .. k : i \in 1 .. Len(r)
    BY <1>1, <1>4
  <2> QED BY <1>2, <1>5, <2>1
<1>14. Picks(data'[s], b, WantedIn(x, b, c + k))
  BY <1>1, <1>2, <1>5, <1>6, <1>8, <1>10, <1>12, <1>13, LineTaken
<1>15. \A i \in 1 .. Len(more) : b[(c + k) + i] = more[i]
  <2> SUFFICES ASSUME NEW i \in 1 .. Len(more) PROVE b[(c + k) + i] = more[i]
    OBVIOUS
  <2>1. i \in 1 .. Len(r) - k /\ k + i \in 1 .. Len(r) /\ c + (k + i) = (c + k) + i
    BY <1>1, <1>4, <1>5
  <2> QED BY <1>2, <1>5, <2>1
<1>16. \A i \in 1 .. Len(w) : b[(c + k) + Len(more) + i] = w[i]
  <2> SUFFICES ASSUME NEW i \in 1 .. Len(w) PROVE b[(c + k) + Len(more) + i] = w[i]
    OBVIOUS
  <2>1. (c + k) + Len(more) + i = c + Len(r) + i
    BY <1>1, <1>4, <1>5
  <2> QED BY <1>2, <2>1
<1>17. b[c + k] \in Ends
  BY <1>2, <1>4
<1>18. pipe'[s] = w /\ sent'[s] = b /\ call'.extract = x
  BY <1>7 DEF w, b, x
<1> QED
  BY <1>7, <1>10, <1>11, <1>14, <1>15, <1>16, <1>17, <1>18 DEF StreamInv

\* End of file: nothing is left in the pipe, and what is left in the buffer is the
\* last line.
LEMMA StreamEnd ==
    ASSUME IndInv, NEW s \in Streams, StreamInv(s), ProcessFd(s)
    PROVE  StreamInv(s)'
<1> DEFINE c == Taken(s)
           r == rest[s]
           w == pipe[s]
           b == sent[s]
           x == call.extract
<1>0. ~done[s]
  BY DEF ProcessFd, IndInv, OutputInv, EventsInv
<1>1. /\ b \in Seq(Bytes) /\ r \in Seq(Bytes) /\ w \in Seq(Bytes) /\ data[s] \in Seq(Bytes)
      /\ Len(b) \in Nat /\ Len(r) \in Nat /\ Len(w) \in Nat /\ c \in Nat /\ Len(b) = c + Len(r) + Len(w)
  BY <1>0, StreamSizes
<1>2. /\ c = 0 \/ b[c] \in Ends
      /\ \A i \in 1 .. Len(r) : b[c + i] = r[i]
      /\ Picks(data[s], b, WantedIn(x, b, c))
  BY <1>0 DEF StreamInv
<1>3. /\ UNCHANGED <<call, pipe, rest, sent, wopen>>
      /\ IF Eof(s) /\ r # <<>> THEN Keep(s, r) ELSE UNCHANGED data
      /\ LineEnds(r) = {} /\ last # "error"
  BY DEF ProcessFd, childVars
<1>4. done'[s] = Eof(s)
  BY DEF ProcessFd, IndInv, TypeOK, CallerTypeOK
<1>5. CASE ~Eof(s)
  <2>1. ~done'[s] /\ data' = data
    BY <1>3, <1>4, <1>5
  <2> QED BY <1>0, <1>3, <2>1 DEF StreamInv, Taken
<1>6. CASE Eof(s)
  <2>1. s \notin wopen /\ pipe[s] = <<>>
    BY <1>3, <1>6 DEF IndInv, OutputInv, EventsInv, ProcessFd
  <2>2. Len(b) = c + Len(r)
    <3>1. Len(<<>>) = 0
      OBVIOUS
    <3>2. Len(w) = 0
      BY <2>1, <3>1
    <3> HIDE DEF c, r, w, b
    <3> QED BY ONLY <1>1, <3>2
  <2>3. x \in BOOLEAN
    BY ExecAssumption DEF IndInv, TypeOK, CallerTypeOK
  <2>4. Picks(data'[s], b, WantedIn(x, b, Len(b)))
    <3>1. CASE r = <<>>
      <4>1. Len(r) = 0 /\ data' = data
        BY <1>3, <3>1
      <4> HIDE DEF c, r, w, b, x
      <4>2. c = Len(b)
        BY <1>1, <2>2, <4>1
      <4> QED BY <1>2, <4>1, <4>2
    <3>2. CASE r # <<>>
      <4>1. data'[s] = IF x /\ \E j \in 1 .. Len(r) : r[j] = "p" THEN data[s] ELSE data[s] \o Text(r)
        BY <1>3, <1>6, <3>2 DEF Keep, Progress, IndInv, OutputInv, BytesTypeOK
      <4> HIDE DEF c, r, w, b, x
      <4>2. Len(r) > 0
        BY <1>1, <3>2
      <4> DEFINE nb == Len(b)
                 nr == Len(r)
      <4>a. c \in Nat /\ nb \in Nat /\ nr \in Nat /\ nb = c + nr /\ nr > 0
        BY <1>1, <2>2, <4>2
      <4>3. c < nb /\ nr = nb - c /\ nb \in c .. nb /\ c \in 0 .. nb
        <5> HIDE DEF nb, nr
        <5> QED BY ONLY <4>a
      <4>4. ASSUME NEW m \in c + 1 .. Len(b) PROVE b[m] \notin Ends
        <5>1. m - c \in 1 .. Len(r) /\ c + (m - c) = m
          BY <1>1, <2>2
        <5>2. r[m - c] \notin Ends
          BY <1>3, <5>1 DEF LineEnds
        <5> QED BY <1>2, <5>1, <5>2
      <4>5. ASSUME NEW m \in c + 1 .. Len(b) - 1 PROVE m \in c + 1 .. Len(b)
        BY <1>1
      <4>6. IsLine(b, c, Len(b))
        BY <1>1, <1>2, <4>3, <4>4, <4>5 DEF IsLine
      <4> QED BY <1>1, <1>2, <2>3, <4>1, <4>3, <4>6, LineTaken
    <3> QED BY <3>1, <3>2
  <2>5. done'[s] /\ s \notin wopen' /\ pipe'[s] = <<>> /\ call'.extract = x /\ sent'[s] = b
    BY <1>3, <1>4, <1>6, <2>1
  <2> QED BY <2>4, <2>5 DEF StreamInv, Filtered
<1> QED BY <1>5, <1>6

\* The child adds to the pipe what it adds to what it sent.
LEMMA StreamWrite ==
    ASSUME IndInv, NEW s \in Streams, StreamInv(s), ChildWrite(s)
    PROVE  StreamInv(s)'
<1> DEFINE c == Taken(s)
           r == rest[s]
           w == pipe[s]
           b == sent[s]
           x == call.extract
           y == ThisOp.byte
<1>0. ~done[s]
  BY WritesOpen DEF StreamInv
<1>1. /\ b \in Seq(Bytes) /\ r \in Seq(Bytes) /\ w \in Seq(Bytes) /\ data[s] \in Seq(Bytes)
      /\ Len(b) \in Nat /\ Len(r) \in Nat /\ Len(w) \in Nat /\ c \in Nat /\ Len(b) = c + Len(r) + Len(w)
  BY <1>0, StreamSizes
<1>2. /\ c = 0 \/ b[c] \in Ends
      /\ \A i \in 1 .. Len(r) : b[c + i] = r[i]
      /\ \A i \in 1 .. Len(w) : b[c + Len(r) + i] = w[i]
      /\ Picks(data[s], b, WantedIn(x, b, c))
  BY <1>0 DEF StreamInv
<1>3. y \in Bytes
  BY ThisOpType, OpFields DEF ChildWrite, IndInv
<1>4. /\ pipe'[s] = Append(w, y) /\ sent'[s] = Append(b, y)
      /\ UNCHANGED <<call, rest, data, done>>
  <2>1. sent'[s] = Append(b, y)
    BY DEF ChildWrite, IndInv, OutputInv, BytesTypeOK
  <2>2. pipe'[s] = Append(w, y)
    BY DEF ChildWrite, IndInv, TypeOK, PipeTypeOK, Streams
  <2> QED BY <2>1, <2>2 DEF ChildWrite, callerVars
<1>5. Taken(s)' = Len(Append(b, y)) - Len(r) - Len(Append(w, y))
  BY <1>4 DEF Taken
<1> HIDE DEF c, r, w, b, x, y
<1>6. /\ Len(Append(b, y)) = Len(b) + 1 /\ Len(Append(w, y)) = Len(w) + 1
      /\ \A i \in 1 .. Len(b) : Append(b, y)[i] = b[i]
      /\ \A i \in 1 .. Len(w) : Append(w, y)[i] = w[i]
      /\ Append(b, y)[Len(b) + 1] = y /\ Append(w, y)[Len(w) + 1] = y
  BY <1>1, <1>3
<1>7. Taken(s)' = c
  BY <1>1, <1>5, <1>6
<1>8. c \in 0 .. Len(b) /\ (c = 0 \/ c \in 1 .. Len(b))
  BY <1>1
<1>9. c = 0 \/ Append(b, y)[c] \in Ends
  BY <1>2, <1>6, <1>8
<1>10. ASSUME NEW i \in 1 .. Len(r) PROVE Append(b, y)[c + i] = r[i]
  <2>1. c + i \in 1 .. Len(b)
    BY <1>1
  <2> QED BY <1>2, <1>6, <2>1
<1>11. ASSUME NEW i \in 1 .. Len(Append(w, y)) PROVE Append(b, y)[c + Len(r) + i] = Append(w, y)[i]
  <2>1. CASE i = Len(w) + 1
    <3>1. c + Len(r) + i = Len(b) + 1
      BY <1>1, <2>1
    <3> QED BY <1>6, <2>1, <3>1
  <2>2. CASE i # Len(w) + 1
    <3>1. i \in 1 .. Len(w) /\ c + Len(r) + i \in 1 .. Len(b)
      BY <1>1, <1>6, <2>2
    <3> QED BY <1>2, <1>6, <3>1
  <2> QED BY <2>1, <2>2
<1>12. WantedIn(x, Append(b, y), c) = WantedIn(x, b, c)
  BY <1>1, <1>2, <1>3, <1>8, WantedKept
<1>13. WantedIn(x, b, c) \in SUBSET (1 .. Len(b))
  <2>1. \A k \in 1 .. c : k \in 1 .. Len(b)
    BY <1>1
  <2> QED BY <2>1 DEF WantedIn
<1>14. Picks(data[s], Append(b, y), WantedIn(x, Append(b, y), c))
  BY <1>1, <1>2, <1>3, <1>12, <1>13, PicksKept
<1>15. ~done'[s] /\ rest'[s] = r /\ data'[s] = data[s] /\ call'.extract = x
  BY <1>0, <1>4 DEF r, x
<1> QED
  BY <1>1, <1>4, <1>7, <1>9, <1>10, <1>11, <1>14, <1>15 DEF StreamInv

\* A step that leaves both outputs alone.
LEMMA StreamsFrame ==
    ASSUME IndInv, UNCHANGED <<call, done, rest, data, sent>>, \A q \in Streams : pipe'[q] = pipe[q],
           wopen' \subseteq wopen \/ done = Both(FALSE)
    PROVE  StreamsInv'
<1>1. \A q \in Streams : q \in wopen' => q \in wopen \/ ~done[q]
  BY DEF Both
<1>2. call'.api = call.api
  OBVIOUS
<1>3. ASSUME call.api # "status", NEW q \in Streams PROVE StreamInv(q)'
  BY <1>1, <1>3, StreamFrame DEF IndInv, OutputInv, StreamsInv
<1> QED BY <1>2, <1>3 DEF StreamsInv

LEMMA StreamsStep == IndInv /\ [Next]_vars => StreamsInv'
<1> SUFFICES ASSUME IndInv, [Next]_vars PROVE StreamsInv'
  OBVIOUS
<1> USE DEF callerVars, childVars
<1>1. CASE SpawnFails
  <2>1. UNCHANGED <<call, done, rest, data, sent, pipe, wopen>>
    BY <1>1 DEF SpawnFails
  <2> QED BY <2>1, StreamsFrame
<1>2. CASE Spawn
  <2>1. done = Both(FALSE)
    BY <1>2 DEF Spawn, IndInv, OutputInv, QuoteInv
  <2>2. UNCHANGED <<call, done, rest, data, sent, pipe>>
    BY <1>2 DEF Spawn
  <2> QED BY <2>1, <2>2, StreamsFrame
<1>3. CASE SpawnSync
  <2>1. done = Both(FALSE)
    BY <1>3 DEF SpawnSync, IndInv, OutputInv, QuoteInv
  <2>2. UNCHANGED <<call, done, rest, data, sent, pipe>>
    BY <1>3 DEF SpawnSync
  <2> QED BY <2>1, <2>2, StreamsFrame
<1>4. CASE Write
  <2>1. pipe' = pipe \/ \E v : pipe' = [pipe EXCEPT !.in = v]
    BY <1>4 DEF Write
  <2>2. \A q \in Streams : pipe'[q] = pipe[q]
    BY <2>1 DEF IndInv, TypeOK, PipeTypeOK, Streams
  <2>3. UNCHANGED <<call, done, rest, data, sent, wopen>>
    BY <1>4 DEF Write
  <2> QED BY <2>2, <2>3, StreamsFrame
<1>5. CASE WriteKills
  <2>1. UNCHANGED <<call, done, rest, data, sent, pipe, wopen>>
    BY <1>5 DEF WriteKills
  <2> QED BY <2>1, StreamsFrame
<1>6. CASE WriteFails
  <2>1. UNCHANGED <<call, done, rest, data, sent, pipe, wopen>>
    BY <1>6 DEF WriteFails
  <2> QED BY <2>1, StreamsFrame
<1>7. CASE CloseInput
  <2>1. UNCHANGED <<call, done, rest, data, sent, pipe, wopen>>
    BY <1>7 DEF CloseInput
  <2> QED BY <2>1, StreamsFrame
<1>8. CASE Reap
  <2>1. UNCHANGED <<call, done, rest, data, sent, pipe, wopen>>
    BY <1>8 DEF Reap
  <2> QED BY <2>1, StreamsFrame
<1>9. CASE Poll
  <2>1. UNCHANGED <<call, done, rest, data, sent, pipe, wopen>>
    BY <1>9 DEF Poll, Events
  <2> QED BY <2>1, StreamsFrame
<1>10. CASE PollFails
  <2>1. UNCHANGED <<call, done, rest, data, sent, pipe, wopen>>
    BY <1>10 DEF PollFails, Abandon
  <2> QED BY <2>1, StreamsFrame
<1>11. ASSUME NEW s \in Streams, Read(s) PROVE StreamsInv'
  <2>1. call' = call /\ wopen' = wopen
    BY <1>11 DEF Read
  <2>2. ASSUME NEW q \in Streams, q # s
        PROVE  /\ done'[q] = done[q] /\ rest'[q] = rest[q] /\ data'[q] = data[q]
               /\ sent'[q] = sent[q] /\ pipe'[q] = pipe[q]
    <3>1. done'[q] = done[q]
      BY <1>11, <2>2 DEF Read, IndInv, TypeOK, CallerTypeOK
    <3>2. rest'[q] = rest[q] /\ data'[q] = data[q] /\ sent'[q] = sent[q]
      BY <1>11, <2>2 DEF Read, IndInv, OutputInv, BytesTypeOK
    <3>3. pipe'[q] = pipe[q]
      BY <1>11, <2>2 DEF Read, IndInv, TypeOK, PipeTypeOK, Streams
    <3> QED BY <3>1, <3>2, <3>3
  <2>3. ASSUME call.api # "status", NEW q \in Streams PROVE StreamInv(q)'
    <3>1. StreamInv(q)
      BY <2>3 DEF IndInv, OutputInv, StreamsInv
    <3> QED BY <1>11, <2>1, <2>2, <3>1, StreamFrame, StreamRead
  <2> QED BY <2>1, <2>3 DEF StreamsInv
<1>12. ASSUME NEW s \in Streams, ReadEnds(s) PROVE StreamsInv'
  <2>1. UNCHANGED <<call, done, rest, data, sent, pipe, wopen>>
    BY <1>12 DEF ReadEnds
  <2> QED BY <2>1, StreamsFrame
<1>13. ASSUME NEW s \in Streams, TakeLine(s) PROVE StreamsInv'
  <2>1. call' = call /\ wopen' = wopen
    BY <1>13 DEF TakeLine
  <2>2. ASSUME NEW q \in Streams, q # s
        PROVE  /\ done'[q] = done[q] /\ rest'[q] = rest[q] /\ data'[q] = data[q]
               /\ sent'[q] = sent[q] /\ pipe'[q] = pipe[q]
    <3>1. done'[q] = done[q]
      BY <1>13, <2>2 DEF TakeLine, IndInv, TypeOK, CallerTypeOK
    <3>2. rest'[q] = rest[q] /\ data'[q] = data[q] /\ sent'[q] = sent[q]
      BY <1>13, <2>2 DEF TakeLine, Keep, IndInv, OutputInv, BytesTypeOK
    <3>3. pipe'[q] = pipe[q]
      BY <1>13, <2>2 DEF TakeLine, IndInv, TypeOK, PipeTypeOK, Streams
    <3> QED BY <3>1, <3>2, <3>3
  <2>3. ASSUME call.api # "status", NEW q \in Streams PROVE StreamInv(q)'
    <3>1. StreamInv(q)
      BY <2>3 DEF IndInv, OutputInv, StreamsInv
    <3> QED BY <1>13, <2>1, <2>2, <3>1, StreamFrame, StreamLine
  <2> QED BY <2>1, <2>3 DEF StreamsInv
<1>14. ASSUME NEW s \in Streams, ReadFails(s) PROVE StreamsInv'
  <2>1. UNCHANGED <<call, done, rest, data, sent, pipe, wopen>>
    BY <1>14 DEF ReadFails, Abandon
  <2> QED BY <2>1, StreamsFrame
<1>15. ASSUME NEW s \in Streams, ProcessFd(s) PROVE StreamsInv'
  <2>1. call' = call /\ wopen' = wopen
    BY <1>15 DEF ProcessFd
  <2>2. ASSUME NEW q \in Streams, q # s
        PROVE  /\ done'[q] = done[q] /\ rest'[q] = rest[q] /\ data'[q] = data[q]
               /\ sent'[q] = sent[q] /\ pipe'[q] = pipe[q]
    <3>1. done'[q] = done[q]
      BY <1>15, <2>2 DEF ProcessFd, IndInv, TypeOK, CallerTypeOK
    <3>2. rest'[q] = rest[q] /\ data'[q] = data[q] /\ sent'[q] = sent[q]
      BY <1>15, <2>2 DEF ProcessFd, Keep, IndInv, OutputInv, BytesTypeOK
    <3>3. pipe'[q] = pipe[q]
      BY <1>15, <2>2 DEF ProcessFd, IndInv, TypeOK, PipeTypeOK, Streams
    <3> QED BY <3>1, <3>2, <3>3
  <2>3. ASSUME call.api # "status", NEW q \in Streams PROVE StreamInv(q)'
    <3>1. StreamInv(q)
      BY <2>3 DEF IndInv, OutputInv, StreamsInv
    <3> QED BY <1>15, <2>1, <2>2, <3>1, StreamFrame, StreamEnd
  <2> QED BY <2>1, <2>3 DEF StreamsInv
<1>16. ASSUME NEW s \in Streams, SkipFd(s) PROVE StreamsInv'
  <2>1. UNCHANGED <<call, done, rest, data, sent, pipe, wopen>>
    BY <1>16 DEF SkipFd, After
  <2> QED BY <2>1, StreamsFrame
<1>17. ASSUME NEW s \in Streams, SyncRead(s) PROVE StreamsInv'
  <2>1. call'.api = "status"
    BY <1>17 DEF SyncRead, IndInv, OutputInv, QuoteInv
  <2> QED BY <2>1 DEF StreamsInv
<1>18. CASE Wait
  <2>1. UNCHANGED <<call, done, rest, data, sent, pipe, wopen>>
    BY <1>18 DEF Wait, Reaped, NoChild, WaitFails, Complete, Fail
  <2> QED BY <2>1, StreamsFrame
<1>19. CASE WaitAfterFailure
  <2>1. UNCHANGED <<call, done, rest, data, sent, pipe, wopen>>
    BY <1>19 DEF WaitAfterFailure
  <2> QED BY <2>1, StreamsFrame
<1>20. CASE SyncDone
  <2>1. UNCHANGED <<call, done, rest, data, sent, pipe, wopen>>
    BY <1>20 DEF SyncDone
  <2> QED BY <2>1, StreamsFrame
<1>21. ASSUME NEW s \in Streams, ChildWrite(s) PROVE StreamsInv'
  <2>1. call' = call /\ wopen' = wopen
    BY <1>21 DEF ChildWrite
  <2>2. ASSUME NEW q \in Streams, q # s
        PROVE  /\ done'[q] = done[q] /\ rest'[q] = rest[q] /\ data'[q] = data[q]
               /\ sent'[q] = sent[q] /\ pipe'[q] = pipe[q]
    <3>1. done'[q] = done[q]
      BY <1>21, <2>2 DEF ChildWrite, IndInv, TypeOK, CallerTypeOK
    <3>2. rest'[q] = rest[q] /\ data'[q] = data[q] /\ sent'[q] = sent[q]
      BY <1>21, <2>2 DEF ChildWrite, IndInv, OutputInv, BytesTypeOK
    <3>3. pipe'[q] = pipe[q]
      BY <1>21, <2>2 DEF ChildWrite, IndInv, TypeOK, PipeTypeOK, Streams
    <3> QED BY <3>1, <3>2, <3>3
  <2>3. ASSUME call.api # "status", NEW q \in Streams PROVE StreamInv(q)'
    <3>1. StreamInv(q)
      BY <2>3 DEF IndInv, OutputInv, StreamsInv
    <3> QED BY <1>21, <2>1, <2>2, <3>1, StreamFrame, StreamWrite
  <2> QED BY <2>1, <2>3 DEF StreamsInv
<1>22. ASSUME NEW s \in Streams, ChildKilled(s) PROVE StreamsInv'
  <2>1. UNCHANGED <<call, done, rest, data, sent, pipe>> /\ wopen' \subseteq wopen
    BY <1>22 DEF ChildKilled, Exited
  <2> QED BY <2>1, StreamsFrame
<1>23. CASE ChildRead
  <2>1. pipe' = pipe \/ \E v : pipe' = [pipe EXCEPT !.in = v]
    BY <1>23 DEF ChildRead
  <2>2. \A q \in Streams : pipe'[q] = pipe[q]
    BY <2>1 DEF IndInv, TypeOK, PipeTypeOK, Streams
  <2>3. UNCHANGED <<call, done, rest, data, sent, wopen>>
    BY <1>23 DEF ChildRead
  <2> QED BY <2>2, <2>3, StreamsFrame
<1>24. CASE ChildClose
  <2>1. UNCHANGED <<call, done, rest, data, sent, pipe>> /\ wopen' \subseteq wopen
    BY <1>24 DEF ChildClose, Step
  <2> QED BY <2>1, StreamsFrame
<1>25. CASE ChildExit
  <2>1. UNCHANGED <<call, done, rest, data, sent, pipe>> /\ wopen' \subseteq wopen
    BY <1>25 DEF ChildExit, Exited
  <2> QED BY <2>1, StreamsFrame
<1>26. CASE UNCHANGED vars
  <2>1. UNCHANGED <<call, done, rest, data, sent, pipe, wopen>>
    BY <1>26 DEF vars
  <2> QED BY <2>1, StreamsFrame
<1> QED
  BY <1>1, <1>2, <1>3, <1>4, <1>5, <1>6, <1>7, <1>8, <1>9, <1>10, <1>11, <1>12, <1>13,
     <1>14, <1>15, <1>16, <1>17, <1>18, <1>19, <1>20, <1>21, <1>22, <1>23, <1>24, <1>25, <1>26
  DEF Next, Caller, Child

LEMMA AllDone == ASSUME NEW f \in [Streams -> BOOLEAN], \A q \in Streams : f[q] PROVE f = Both(TRUE)
BY DEF Both

LEMMA QuoteStep == IndInv /\ [Next]_vars => QuoteInv'
<1> SUFFICES ASSUME IndInv, [Next]_vars PROVE QuoteInv'
  OBVIOUS
<1> USE LinesAt DEF IndInv, OutputInv, QuoteInv, Quoted, Return, callerVars, childVars, Streams
<1>1. CASE SpawnFails
  BY <1>1 DEF SpawnFails
<1>2. CASE Spawn
  BY <1>2 DEF Spawn
<1>3. CASE SpawnSync
  BY <1>3 DEF SpawnSync
<1>4. CASE Write
  BY <1>4 DEF Write
<1>5. CASE WriteKills
  BY <1>5 DEF WriteKills
<1>6. CASE WriteFails
  BY <1>6 DEF WriteFails
<1>7. CASE CloseInput
  BY <1>7 DEF CloseInput
<1>8. CASE Reap
  <2>1. status' = 0 /\ pc' = "done" /\ UNCHANGED <<call, done, reports>> /\ call.api # "status"
    BY <1>8 DEF Reap
  <2>2. status' \notin 1 .. 127
    BY <2>1
  <2> QED BY <2>1, <2>2
<1>9. CASE Poll
  BY <1>9 DEF Poll, Events
<1>10. CASE PollFails
  BY <1>10 DEF PollFails, Abandon
<1>11. ASSUME NEW s \in Streams, Read(s) PROVE QuoteInv'
  BY <1>11 DEF Read
<1>12. ASSUME NEW s \in Streams, ReadEnds(s) PROVE QuoteInv'
  BY <1>12 DEF ReadEnds
<1>13. ASSUME NEW s \in Streams, TakeLine(s) PROVE QuoteInv'
  BY <1>13 DEF TakeLine
<1>14. ASSUME NEW s \in Streams, ReadFails(s) PROVE QuoteInv'
  BY <1>14 DEF ReadFails, Abandon
<1>15. ASSUME NEW s \in Streams, ProcessFd(s) PROVE QuoteInv'
  <2>1. call.api # "status" /\ pc \notin {"done", "sync"} /\ status = 0
    BY <1>15 DEF ProcessFd
  <2>2. UNCHANGED <<call, status>> /\ pc' \in {"err", "poll", "wait"}
    BY <1>15 DEF ProcessFd, After
  <2>3. done' \in [Streams -> BOOLEAN]
    BY CallerTypeStep DEF CallerTypeOK
  <2>4. pc' = "wait" => \A q \in Streams : done'[q]
    BY <1>15 DEF ProcessFd, After
  <2>5. pc' = "wait" => done' = Both(TRUE)
    BY <2>3, <2>4, AllDone
  <2> QED BY <2>1, <2>2, <2>5
<1>16. ASSUME NEW s \in Streams, SkipFd(s) PROVE QuoteInv'
  <2>1. call.api # "status" /\ pc \notin {"done", "sync"} /\ status = 0
    BY <1>16 DEF SkipFd
  <2>2. UNCHANGED <<call, status>> /\ pc' \in {"err", "poll", "wait"}
    BY <1>16 DEF SkipFd, After
  <2>3. done' \in [Streams -> BOOLEAN]
    BY CallerTypeStep DEF CallerTypeOK
  <2>4. pc' = "wait" => \A q \in Streams : done'[q]
    BY <1>16 DEF SkipFd, After
  <2>5. pc' = "wait" => done' = Both(TRUE)
    BY <2>3, <2>4, AllDone
  <2> QED BY <2>1, <2>2, <2>5
<1>17. ASSUME NEW s \in Streams, SyncRead(s) PROVE QuoteInv'
  BY <1>17 DEF SyncRead
<1>18. CASE Wait
  <2>1. pc' = "done" /\ UNCHANGED <<call, done, data>> /\ call.api # "status" /\ done = Both(TRUE) /\ status = 0
    BY <1>18 DEF Wait, Reaped, NoChild, WaitFails, Complete, Fail
  <2>2. status' \in {0, 128} \/ message' = Quoted
    BY <1>18, <2>1 DEF Wait, Reaped, NoChild, WaitFails, Complete, Fail
  <2>3. 0 \notin 1 .. 127 /\ 128 \notin 1 .. 127
    OBVIOUS
  <2> QED BY <2>1, <2>2, <2>3
<1>19. CASE WaitAfterFailure
  <2>1. status' = 0 /\ pc' = "done" /\ UNCHANGED <<call, done, reports>> /\ call.api # "status"
    BY <1>19 DEF WaitAfterFailure
  <2>2. status' \notin 1 .. 127
    BY <2>1
  <2> QED BY <2>1, <2>2
<1>20. CASE SyncDone
  BY <1>20 DEF SyncDone
<1>21. ASSUME NEW s \in Streams, ChildWrite(s) PROVE QuoteInv'
  BY <1>21 DEF ChildWrite, Step
<1>22. ASSUME NEW s \in Streams, ChildKilled(s) PROVE QuoteInv'
  BY <1>22 DEF ChildKilled, Exited
<1>23. CASE ChildRead
  BY <1>23 DEF ChildRead, Step
<1>24. CASE ChildClose
  BY <1>24 DEF ChildClose, Step
<1>25. CASE ChildExit
  BY <1>25 DEF ChildExit, Exited
<1>26. CASE UNCHANGED vars
  BY <1>26 DEF vars
<1> QED
  BY <1>1, <1>2, <1>3, <1>4, <1>5, <1>6, <1>7, <1>8, <1>9, <1>10, <1>11, <1>12, <1>13,
     <1>14, <1>15, <1>16, <1>17, <1>18, <1>19, <1>20, <1>21, <1>22, <1>23, <1>24, <1>25, <1>26
  DEF Next, Caller, Child

LEMMA ExecInitInv == Init => IndInv
<1> SUFFICES ASSUME Init PROVE IndInv
  OBVIOUS
<1>1. CallerTypeOK
  <2>1. done \in [Streams -> BOOLEAN] /\ revents \in [Streams -> SUBSET {"IN", "HUP"}]
    BY DEF Init, Both
  <2>2. success \in BOOLEAN
    BY DEF Init
  <2>3. reports \in Seq({"started", "progress", "finished"}) /\ left \in Nat /\ status \in Int
    BY DEF Init
  <2> QED
    BY <2>1, <2>2, <2>3 DEF Init, CallerTypeOK, PCs
<1>2. PipeTypeOK
  BY ExecAssumption DEF Init, PipeTypeOK, Streams
<1>3. ChildTypeOK
  <2>1. Len(call.script) \in Nat \ {0}
    BY ExecAssumption DEF Init
  <2> QED
    BY <2>1 DEF Init, ChildTypeOK
<1>4. FdsInv /\ ReportInv /\ ReapInv
  BY DEF Init, FdsInv, ReportInv, ReapInv
<1>5. BytesTypeOK
  BY DEF Init, BytesTypeOK, Both
<1>6. ClosedInv
  BY DEF Init, ClosedInv
<1>7. EventsInv /\ QuoteInv
  BY LinesAt DEF Init, EventsInv, QuoteInv, Both, Streams
<1>8. ASSUME NEW s \in Streams PROVE StreamInv(s)
  <2>1. sent[s] = <<>> /\ rest[s] = <<>> /\ data[s] = <<>> /\ pipe[s] = <<>> /\ ~done[s]
    BY DEF Init, Both, Streams
  <2>2. Len(<<>>) = 0 /\ 1 .. 0 = {}
    OBVIOUS
  <2>3. Taken(s) = 0
    <3>1. Taken(s) = 0 - 0 - 0
      BY <2>1, <2>2 DEF Taken
    <3> QED BY <3>1
  <2>4. WantedIn(call.extract, sent[s], 0) = {}
    BY <2>2 DEF WantedIn
  <2>5. Picks(data[s], sent[s], WantedIn(call.extract, sent[s], Taken(s)))
    BY <2>1, <2>3, <2>4, PicksNothing
  <2>6. Taken(s) \in Nat /\ 1 .. Len(rest[s]) = {} /\ 1 .. Len(pipe[s]) = {}
    BY <2>1, <2>2, <2>3
  <2> QED BY <2>1, <2>3, <2>5, <2>6 DEF StreamInv
<1> QED
  BY <1>1, <1>2, <1>3, <1>4, <1>5, <1>6, <1>7, <1>8 DEF IndInv, OutputInv, StreamsInv, TypeOK

\* IndInv holds in every state of a call and its child, whatever fails.
THEOREM IndInvCorrect == Spec => []IndInv
<1>1. IndInv /\ [Next]_vars => IndInv'
  BY CallerTypeStep, PipeTypeStep, ChildTypeStep, FdsStep, ReportStep, ReapStep,
     BytesTypeStep, ClosedStep, EventsStep, StreamsStep, QuoteStep
  DEF IndInv, OutputInv, TypeOK
<1> QED
  BY ExecInitInv, <1>1, PTL DEF Spec

\* However a call of bd_utils_exec_* ends, its result and its error agree, TRUE
\* means that the child exited with 0 unless SIGCHLD is ignored, and a task that
\* was reported as started is reported as finished once, at the end.
THEOREM HonestCorrect == Spec => []HonestEnd
<1>1. IndInv => ErrorIffFalse /\ SuccessMeansExitZero
  BY DEF IndInv, ReportInv, ReapInv, ErrorIffFalse, SuccessMeansExitZero, Returned
<1>2. ASSUME IndInv PROVE ReportsPaired
  <2>1. reports \in Seq({"started", "progress", "finished"})
    BY <1>2 DEF IndInv, TypeOK, CallerTypeOK
  <2>2. reports = <<>> \/ Begun(reports) \/ Finished(reports)
    BY <1>2 DEF IndInv, TypeOK, CallerTypeOK, PCs, ReportInv
  <2>3. Returned => reports = <<>> \/ Finished(reports)
    BY <1>2 DEF IndInv, ReportInv, Returned
  <2> QED
    BY <2>1, <2>2, <2>3 DEF ReportsPaired, Started, Begun, Finished
<1>3. IndInv => HonestEnd
  BY <1>1, <1>2 DEF HonestEnd
<1> QED
  BY <1>3, IndInvCorrect, PTL

\* A call that has returned has closed its pipe ends, and the child is reaped
\* unless waitpid failed.
THEOREM NothingLeftCorrect == Spec => []NothingLeft
<1>1. IndInv => NothingLeft
  BY DEF IndInv, FdsInv, ReapInv, NothingLeft, Returned
<1> QED
  BY <1>1, IndInvCorrect, PTL

\* Whatever the child writes to either pipe, in whatever portions poll () and
\* read () see it, the result of a call that was not cut short has every byte of
\* it once and in order, less NULs and progress lines, and the error of a process
\* that failed quotes its error output, or its output if that was empty.
THEOREM OutputCorrect == Spec => []OutputExact
<1>1. ASSUME IndInv PROVE OutputExact
  <2>1. ASSUME done = Both(TRUE), NEW s \in Streams PROVE Filtered(call.extract, data[s], sent[s])
    <3>1. done[s] /\ done # Both(FALSE)
      BY <2>1 DEF Both
    <3>2. StreamInv(s)
      BY <1>1, <3>1 DEF IndInv, OutputInv, StreamsInv, QuoteInv
    <3> QED BY <3>1, <3>2 DEF StreamInv
  <2> DEFINE none == WantedIn(call.extract, sent["err"], Len(sent["err"])) = {}
  <2>2. ASSUME Returned, error = "FAILED", status \in 1 .. 127, Started
        PROVE  Filtered(call.extract, message, sent[IF none THEN "out" ELSE "err"])
    <3>1. done = Both(TRUE) /\ message = Quoted
      BY <1>1, <2>2 DEF IndInv, OutputInv, QuoteInv, Returned, Started
    <3>2. "err" \in Streams /\ "out" \in Streams
      BY DEF Streams
    <3>3. Filtered(call.extract, data["err"], sent["err"]) /\ Filtered(call.extract, data["out"], sent["out"])
      BY <2>1, <3>1, <3>2
    <3>4. data["err"] \in Seq(Bytes)
      BY <1>1, <3>2 DEF IndInv, OutputInv, BytesTypeOK
    <3>5. data["err"] = <<>> <=> none
      BY <3>3, <3>4, PicksEmpty DEF Filtered
    <3> QED BY <3>1, <3>3, <3>5 DEF Quoted
  <2> QED BY <2>1, <2>2 DEF OutputExact
<1> QED
  BY <1>1, IndInvCorrect, PTL
=============================================================================
