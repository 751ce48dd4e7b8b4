-------------------------- MODULE Supervise_proofs --------------------------
(***************************************************************************)
(* Theorems about Supervise, for any adapter, pipe and limits: which group *)
(* a kill can reach, what a supervisor that has reported leaves behind,    *)
(* and what an exit may lose; and about Sanitize: what fits of the run's   *)
(* output when it is handed over.                                          *)
(***************************************************************************)
EXTENDS Supervise, Sanitize, SequenceTheorems, TLAPS

-----------------------------------------------------------------------------
(* The pipe *)

(* Everything but the pipe's content has a small type of its own.          *)
PipeType == pipe \in Seq(Item) /\ Len(pipe) <= PipeSize

(* A record that is written goes behind the others.                        *)
LEMMA AppendFacts ==
    ASSUME NEW s \in Seq(Item), NEW e \in Item
    PROVE  /\ Append(s, e) \in Seq(Item)
           /\ Len(Append(s, e)) = Len(s) + 1
           /\ DOMAIN Append(s, e) = 1..Len(s) + 1
           /\ DOMAIN s = 1..Len(s)
           /\ \A i \in 1..Len(s) : Append(s, e)[i] = s[i]
           /\ Append(s, e)[Len(s) + 1] = e
OBVIOUS

(* A record that is read was the first one.                                *)
LEMMA TailFacts ==
    ASSUME NEW s \in Seq(Item), s # <<>>
    PROVE  /\ Tail(s) \in Seq(Item) /\ Head(s) \in Item /\ Head(s) = s[1]
           /\ Len(s) \in Nat /\ Len(s) >= 1 /\ Len(Tail(s)) = Len(s) - 1
           /\ DOMAIN s = 1..Len(s) /\ DOMAIN Tail(s) = 1..Len(s) - 1
           /\ \A i \in 1..Len(s) - 1 : Tail(s)[i] = s[i + 1]
OBVIOUS

-----------------------------------------------------------------------------
(* The stages of the supervisor, and whose group a kill can reach *)

(* StageInv and IdInv need no more than this of the types.                 *)
LEMMA InitProcess == Init => StageInv /\ IdInv /\ KillInv
BY DEF Init, StageInv, IdInv, KillInv, KillsOwnGroup, LeavesNobody

(* Every step that starts the child keeps the stages, the child's id and   *)
(* the group in order.                                                     *)
LEMMA StartProcess ==
    ASSUME TypeOK, StageInv, IdInv, KillInv, Start
    PROVE  StageInv' /\ IdInv' /\ KillInv'
<1> USE DEF StageInv, IdInv, KillInv, KillsOwnGroup, LeavesNobody, GroupDead, Goto,
            processVars, waitVars, resultVars, outputVars, drainVars
<1>1. CASE SpawnFails  BY <1>1 DEF SpawnFails
<1>2. CASE Spawn  BY <1>2 DEF Spawn
<1>3. CASE BindFails  BY <1>3 DEF BindFails, KillAll
<1>4. CASE Abort  BY <1>4 DEF Abort
<1>5. CASE Begin
  <2>1. sup = "bind" /\ sup' = "select" /\ UNCHANGED <<cause, leader, helper, stray>>
    BY <1>5 DEF Begin
  <2>2. waiter' \in {"waiting", "reaping"} /\ (waiter' = "reaping" => fellBack')
    BY <1>5 DEF Begin
  <2> QED BY <2>1, <2>2
<1> QED BY <1>1, <1>2, <1>3, <1>4, <1>5 DEF Start

(* So does every step of a process, which can fork only while the child    *)
(* runs.                                                                   *)
LEMMA ProcessesProcess ==
    ASSUME TypeOK, StageInv, IdInv, KillInv, Processes
    PROVE  StageInv' /\ IdInv' /\ KillInv'
<1> USE DEF StageInv, IdInv, KillInv, KillsOwnGroup, LeavesNobody, GroupDead,
            processVars, waitVars, resultVars, outputVars, drainVars
<1>1. CASE Say  BY <1>1 DEF Say
<1>2. CASE EndTurn  BY <1>2 DEF EndTurn
<1>3. CASE Exit  BY <1>3 DEF Exit
<1>4. CASE HelperExits  BY <1>4 DEF HelperExits
<1>5. CASE \E where \in {"group", "escaped"} : Fork(where)  BY <1>5 DEF Fork
<1>6. CASE PromptRead  BY <1>6 DEF PromptRead
<1>7. CASE PromptBroken  BY <1>7 DEF PromptBroken
<1> QED BY <1>1, <1>2, <1>3, <1>4, <1>5, <1>6, <1>7 DEF Processes

(* So do the reader and the waiter.                                        *)
LEMMA WaiterProcess ==
    ASSUME TypeOK, StageInv, IdInv, KillInv, Reader \/ Waiter
    PROVE  StageInv' /\ IdInv' /\ KillInv'
<1> USE DEF StageInv, IdInv, KillInv, KillsOwnGroup, LeavesNobody, GroupDead,
            processVars, waitVars, resultVars, outputVars, drainVars
<1>1. CASE Read  BY <1>1 DEF Read
<1>2. CASE ReaderEnds  BY <1>2 DEF ReaderEnds
<1>3. CASE WaitExitReturns  BY <1>3 DEF WaitExitReturns
<1>4. CASE WaitExitFails  BY <1>4 DEF WaitExitFails
<1>5. CASE WaiterReaps  BY <1>5 DEF WaiterReaps
<1>6. CASE WaiterReturns  BY <1>6 DEF WaiterReturns
<1> QED BY <1>1, <1>2, <1>3, <1>4, <1>5, <1>6 DEF Reader, Waiter

(* So does the supervisor: it kills while the child's id is not free, or   *)
(* after a failed wait.                                                    *)
LEMMA SupervisorProcess ==
    ASSUME TypeOK, StageInv, IdInv, KillInv, Supervisor
    PROVE  StageInv' /\ IdInv' /\ KillInv'
<1> USE DEF StageInv, IdInv, KillInv, KillsOwnGroup, LeavesNobody, GroupDead, Goto,
            KillAll, processVars, waitVars, resultVars, outputVars, drainVars
<1>1. CASE SeesExit  BY <1>1 DEF SeesExit
<1>2. CASE TimesOut  BY <1>2 DEF TimesOut
<1>3. CASE SeesCancel  BY <1>3 DEF SeesCancel
<1>4. CASE ReadersDone  BY <1>4 DEF ReadersDone
<1>5. CASE GraceOver
  <2>1. CASE sup = "grace1"  BY <1>5, <2>1 DEF GraceOver
  <2>2. CASE sup = "grace2"  BY <1>5, <2>2 DEF GraceOver
  <2>3. CASE sup = "grace3"  BY <1>5, <2>3 DEF GraceOver
  <2> QED BY <1>5, <2>1, <2>2, <2>3 DEF GraceOver
<1>6. CASE Drained  BY <1>6 DEF Drained
<1>7. CASE Reap  BY <1>7 DEF Reap
<1> QED BY <1>1, <1>2, <1>3, <1>4, <1>5, <1>6, <1>7 DEF Supervisor

(* Together: the three parts are inductive.                                *)
LEMMA NextProcess ==
    TypeOK /\ StageInv /\ IdInv /\ KillInv /\ [Next]_vars => (StageInv /\ IdInv /\ KillInv)'
<1> SUFFICES ASSUME TypeOK, StageInv, IdInv, KillInv, [Next]_vars
             PROVE  (StageInv /\ IdInv /\ KillInv)'
  OBVIOUS
<1> USE DEF processVars, waitVars, resultVars, outputVars, drainVars
<1>1. CASE Cancel
  BY <1>1 DEF Cancel, StageInv, IdInv, KillInv, KillsOwnGroup, LeavesNobody, GroupDead
<1>2. CASE Rest
  BY <1>2 DEF Rest, StageInv, IdInv, KillInv, KillsOwnGroup, LeavesNobody, GroupDead
<1>3. CASE UNCHANGED vars
  BY <1>3 DEF vars, StageInv, IdInv, KillInv, KillsOwnGroup, LeavesNobody, GroupDead
<1> QED BY <1>1, <1>2, <1>3, StartProcess, ProcessesProcess, WaiterProcess,
           SupervisorProcess
        DEF Next

-----------------------------------------------------------------------------
(* What is said, kept and logged *)

(* A pipe with a record that ends the turn is not empty.                   *)
LEMMA UnreadType ==
    TypeOK => Unread \in Nat /\ Unread <= Len(pipe) /\ (pipe = <<>> => Unread = 0)
BY DEF TypeOK, Unread, HasResult

(* A step that leaves the pipe and what is counted alone.                  *)
CountedVars == <<pipe, said, turnOver, kept, cut, logged>>

(* Then the counts still add up.                                           *)
LEMMA CountKept == CountInv /\ UNCHANGED CountedVars => CountInv'
BY DEF CountInv, CountedVars, Unread, HasResult

(* A message that is said waits in the pipe.                               *)
LEMMA SayCount ==
    ASSUME TypeOK, CountInv, Say
    PROVE  CountInv'
<1> USE DEF TypeOK
<1>1. /\ pipe' = Append(pipe, "message") /\ said' = said + 1
      /\ UNCHANGED <<turnOver, kept, cut, logged>>
  BY DEF Say, outputVars
<1>2. "message" \in Item /\ pipe \in Seq(Item)  BY DEF Item
<1>3. /\ Len(pipe') = Len(pipe) + 1 /\ DOMAIN pipe' = 1..Len(pipe) + 1
      /\ DOMAIN pipe = 1..Len(pipe) /\ Len(pipe) \in Nat
      /\ \A i \in 1..Len(pipe) : pipe'[i] = pipe[i]
      /\ pipe'[Len(pipe) + 1] = "message"
  BY <1>1, <1>2, AppendFacts
<1>4. \A i \in DOMAIN pipe' : pipe'[i] = "result" =>
         i \in DOMAIN pipe /\ pipe[i] = "result"
  BY <1>3
<1>5. HasResult' <=> HasResult  BY <1>3, <1>4 DEF HasResult
<1>6. Unread' = Unread + 1 /\ Unread \in Nat  BY <1>3, <1>5, UnreadType DEF Unread
<1>7. \A i, j \in DOMAIN pipe' : pipe'[i] = "result" /\ pipe'[j] = "result" => i = j
  <2> SUFFICES ASSUME NEW i \in DOMAIN pipe', NEW j \in DOMAIN pipe',
                      pipe'[i] = "result", pipe'[j] = "result"
               PROVE  i = j
    OBVIOUS
  <2>1. i \in DOMAIN pipe /\ j \in DOMAIN pipe /\ pipe[i] = "result" /\ pipe[j] = "result"
    BY <1>4
  <2> QED BY <2>1 DEF CountInv
<1>8. HasResult' => turnOver'  BY <1>1, <1>5 DEF CountInv
<1>9. kept' + Unread' <= said' /\ (~cut' => kept' + Unread' = said')
  BY <1>1, <1>6 DEF CountInv
<1>10. logged' + Len(pipe') <= said' + (IF turnOver' THEN 1 ELSE 0)
  BY <1>1, <1>3 DEF CountInv
<1> QED BY <1>7, <1>8, <1>9, <1>10 DEF CountInv

(* So does the record that ends the turn, of which there is one.           *)
LEMMA EndTurnCount ==
    ASSUME TypeOK, CountInv, EndTurn
    PROVE  CountInv'
<1> USE DEF TypeOK
<1>1. /\ pipe' = Append(pipe, "result") /\ turnOver' = TRUE /\ ~turnOver
      /\ UNCHANGED <<said, kept, cut, logged>>
  BY DEF EndTurn, outputVars
<1>2. "result" \in Item /\ pipe \in Seq(Item)  BY DEF Item
<1>3. /\ Len(pipe') = Len(pipe) + 1 /\ DOMAIN pipe' = 1..Len(pipe) + 1
      /\ DOMAIN pipe = 1..Len(pipe) /\ Len(pipe) \in Nat
      /\ \A i \in 1..Len(pipe) : pipe'[i] = pipe[i]
      /\ pipe'[Len(pipe) + 1] = "result"
  BY <1>1, <1>2, AppendFacts
<1>4. ~HasResult  BY <1>1 DEF CountInv
<1>5. \A i \in 1..Len(pipe) : pipe'[i] # "result"  BY <1>3, <1>4 DEF HasResult
<1>6. HasResult'  BY <1>3 DEF HasResult
<1>7. Unread' = Unread  BY <1>3, <1>4, <1>6 DEF Unread
<1>8. \A i, j \in DOMAIN pipe' : pipe'[i] = "result" /\ pipe'[j] = "result" => i = j
  BY <1>3, <1>5
<1> QED BY <1>1, <1>3, <1>7, <1>8 DEF CountInv

(* What is read is kept or cut, and recorded at most once.                 *)
LEMMA ReadCount ==
    ASSUME TypeOK, CountInv, Read
    PROVE  CountInv' /\ kept' \in Nat /\ logged' \in Nat
<1> USE DEF TypeOK
<1>1. pipe \in Seq(Item) /\ pipe # <<>> /\ pipe' = Tail(pipe)
      /\ UNCHANGED <<said, turnOver>>
  BY DEF Read
<1>2. /\ pipe' \in Seq(Item) /\ Head(pipe) \in Item /\ Head(pipe) = pipe[1]
      /\ Len(pipe) \in Nat /\ Len(pipe) >= 1 /\ Len(pipe') = Len(pipe) - 1
      /\ DOMAIN pipe = 1..Len(pipe) /\ DOMAIN pipe' = 1..Len(pipe) - 1
      /\ \A i \in 1..Len(pipe) - 1 : pipe'[i] = pipe[i + 1]
  BY <1>1, TailFacts
<1>3. \A i \in DOMAIN pipe' : pipe'[i] = "result" =>
         i + 1 \in DOMAIN pipe /\ pipe[i + 1] = "result"
  BY <1>2
<1>4. \A i, j \in DOMAIN pipe' : pipe'[i] = "result" /\ pipe'[j] = "result" => i = j
  <2>1. ASSUME NEW i \in DOMAIN pipe', NEW j \in DOMAIN pipe',
               pipe'[i] = "result", pipe'[j] = "result"
        PROVE  i = j
    <3>1. i + 1 = j + 1  BY <1>3, <2>1 DEF CountInv
    <3> QED BY <1>2, <3>1
  <2> QED BY <2>1
<1>5. HasResult' => HasResult  BY <1>3 DEF HasResult
<1>6. /\ Head(pipe) = "result" => HasResult /\ ~HasResult'
      /\ Head(pipe) = "message" => (HasResult => HasResult')
  <2>1. ASSUME Head(pipe) = "result"  PROVE HasResult /\ ~HasResult'
    <3>1. 1 \in DOMAIN pipe /\ pipe[1] = "result"  BY <1>2, <2>1
    <3>2. ASSUME NEW i \in DOMAIN pipe', pipe'[i] = "result"  PROVE FALSE
      <4>1. i + 1 = 1  BY <1>3, <3>1, <3>2 DEF CountInv
      <4> QED BY <1>2, <4>1
    <3> QED BY <3>1, <3>2 DEF HasResult
  <2>2. ASSUME Head(pipe) = "message", HasResult  PROVE HasResult'
    <3>1. PICK i \in DOMAIN pipe : pipe[i] = "result"  BY <2>2 DEF HasResult
    <3>2. i # 1 /\ i - 1 \in DOMAIN pipe' /\ pipe'[i - 1] = pipe[(i - 1) + 1]
      BY <1>2, <2>2, <3>1
    <3>3. (i - 1) + 1 = i  BY <1>2
    <3> QED BY <3>1, <3>2, <3>3 DEF HasResult
  <2> QED BY <2>1, <2>2
<1>7. /\ Head(pipe) = "result" => Unread' = Unread
      /\ Head(pipe) = "message" => Unread' = Unread - 1
      /\ Unread \in Nat
  BY <1>2, <1>5, <1>6, UnreadType DEF Unread
<1>8. Store(Head(pipe))  BY DEF Read
<1>9. Head(pipe) \in {"message", "result"}  BY <1>2 DEF Item
<1>10. kept \in Nat /\ said \in Nat  OBVIOUS
<1>11. /\ kept' \in Nat
       /\ kept' + Unread' <= said'
       /\ ~cut' => kept' + Unread' = said'
  <2>1. kept + Unread <= said /\ (~cut => kept + Unread = said)  BY DEF CountInv
  <2>2. CASE Head(pipe) = "result" /\ UNCHANGED <<kept, cut>>
    BY <1>1, <1>7, <1>10, <2>1, <2>2
  <2>3. CASE Head(pipe) = "message" /\ kept' = kept + 1 /\ UNCHANGED cut
    BY <1>1, <1>7, <1>10, <2>1, <2>3
  <2>4. CASE Head(pipe) = "message" /\ cut' = TRUE /\ UNCHANGED kept
    BY <1>1, <1>7, <1>10, <2>1, <2>4
  <2> QED BY <1>8, <2>2, <2>3, <2>4 DEF Store
<1>12. logged' \in {logged, logged + 1}  BY DEF Read, Record
<1>13. logged \in Nat  OBVIOUS
<1>14. logged' + Len(pipe') <= said' + (IF turnOver' THEN 1 ELSE 0)
  BY <1>1, <1>2, <1>10, <1>12, <1>13 DEF CountInv
<1> QED BY <1>1, <1>4, <1>5, <1>11, <1>12, <1>13, <1>14 DEF CountInv

(* Nothing else is counted.                                                *)
LEMMA CountStep ==
    ASSUME TypeOK, CountInv, [Next]_vars
    PROVE  CountInv' /\ kept' \in Nat /\ logged' \in Nat
<1>1. CASE Say  BY <1>1, SayCount DEF Say, TypeOK
<1>2. CASE EndTurn  BY <1>2, EndTurnCount DEF EndTurn, TypeOK
<1>3. CASE Read  BY <1>3, ReadCount
<1>4. ASSUME UNCHANGED CountedVars  PROVE CountInv' /\ kept' \in Nat /\ logged' \in Nat
  BY <1>4, CountKept DEF CountedVars, TypeOK
<1> USE DEF CountedVars, outputVars
<1>5. CASE Start
  BY <1>4, <1>5 DEF Start, SpawnFails, Spawn, BindFails, Abort, Begin
<1>6. CASE Exit \/ HelperExits \/ (\E where \in {"group", "escaped"} : Fork(where))
           \/ PromptRead \/ PromptBroken
  BY <1>4, <1>6 DEF Exit, HelperExits, Fork, PromptRead, PromptBroken
<1>7. CASE ReaderEnds \/ Waiter
  BY <1>4, <1>7
  DEF ReaderEnds, Waiter, WaitExitReturns, WaitExitFails, WaiterReaps, WaiterReturns
<1>8. CASE Supervisor
  BY <1>4, <1>8
  DEF Supervisor, SeesExit, TimesOut, SeesCancel, ReadersDone, GraceOver, Drained, Reap
<1>9. CASE Cancel \/ Rest  BY <1>4, <1>9 DEF Cancel, Rest
<1>10. CASE UNCHANGED vars  BY <1>4, <1>10 DEF vars
<1> QED BY <1>1, <1>2, <1>3, <1>5, <1>6, <1>7, <1>8, <1>9, <1>10
        DEF Next, Processes, Reader

-----------------------------------------------------------------------------
(* Type correctness *)

(* TypeOK without the bounds that follow from CountInv.                    *)
PartType ==
    /\ adapter \in Adapter
    /\ state \in Finished \cup {"running", "needs_input"}
    /\ sup \in {"spawn", "bind", "abort", "select", "grace1", "grace2", "grace3",
                "drained", "reap", "done"}
    /\ cause \in {"none", "exited", "timeout", "cancelled"}
    /\ leader \in {"unborn", "running", "zombie", "reaped"}
    /\ helper \in {"none", "group", "escaped", "gone"}
    /\ waiter \in {"unborn", "waiting", "reaping", "copying", "exited"}
    /\ pipe \in Seq(Item) /\ Len(pipe) <= PipeSize
    /\ reader \in {"unborn", "reading", "ended"}
    /\ said \in 0..MaxItems
    /\ {truncated, ctxDone, fellBack, stray, cut, stuck, forced, overflow, logFailed,
        turnOver} \subseteq BOOLEAN
    /\ stdin \in {"none", "copying", "open", "closed"}

CountType == kept \in Nat /\ logged \in Nat

(* It is part of the type invariant.                                       *)
LEMMA PartOfType == TypeOK => PartType
BY DEF TypeOK, PartType

(* With its counts, a state of these types is one of TypeOK.               *)
LEMMA TypeOfParts ==
    ASSUME PartType, CountInv, CountType
    PROVE  TypeOK
<1> USE SuperviseAssumption DEF CountType
<1>1. Unread \in Nat
  BY DEF PartType, Unread, HasResult
<1>2. kept <= MaxItems
  BY <1>1 DEF CountInv, PartType
<1>3. Len(pipe) \in Nat  BY DEF PartType
<1>4. logged <= MaxItems + 1
  BY <1>3 DEF CountInv, PartType
<1> QED BY <1>2, <1>4 DEF PartType, TypeOK

(* finish and the kill keep the types of what they change.                 *)
LEMMA FinishType ==
    ASSUME PartType, NEW o \in Finished, NEW short \in BOOLEAN, Finish(o, short)
    PROVE  state' \in Finished \cup {"running", "needs_input"} /\ truncated' \in BOOLEAN
BY DEF Finish, PartType, resultVars

(* KillAll keeps the types of the processes.                               *)
LEMMA KillType ==
    ASSUME PartType, KillAll
    PROVE  /\ leader' \in {"unborn", "running", "zombie", "reaped"}
           /\ helper' \in {"none", "group", "escaped", "gone"}
           /\ stray' \in BOOLEAN
BY DEF KillAll, PartType

(* Every step keeps these types.                                           *)
LEMMA PartTypeStep ==
    ASSUME PartType, StageInv, [Next]_vars
    PROVE  PartType'
<1> USE DEF PartType, Goto, processVars, waitVars, resultVars, outputVars, drainVars
<1>1. CASE SpawnFails
  <2>1. "failed" \in Finished /\ FALSE \in BOOLEAN  BY DEF Finished
  <2>2. state' \in Finished \cup {"running", "needs_input"} /\ truncated' \in BOOLEAN
    BY <1>1, <2>1, FinishType DEF SpawnFails
  <2> QED BY <1>1, <2>2 DEF SpawnFails
<1>2. CASE Spawn
  <2>1. adapter.prompt \in {"argv", "stdin", "stream"}  BY DEF Adapter
  <2>2. stdin' \in {"none", "copying", "open"}  BY <1>2, <2>1 DEF Spawn
  <2>3. sup' = "bind" /\ leader' = "running"  BY <1>2 DEF Spawn
  <2>4. UNCHANGED <<adapter, resultVars, ctxDone, cause, helper, stray, waitVars, outputVars,
                    drainVars>>
    BY <1>2 DEF Spawn
  <2> QED BY <2>2, <2>3, <2>4
<1>3. CASE BindFails  BY <1>3, KillType DEF BindFails
<1>4. CASE Abort  BY <1>4, FinishType DEF Abort, Finished
<1>5. CASE Begin
  <2>1. adapter.waits \in BOOLEAN  BY DEF Adapter
  <2> QED BY <1>5, <2>1 DEF Begin
<1>6. CASE Say
  <2>1. pipe' \in Seq(Item) /\ Len(pipe') = Len(pipe) + 1
    BY <1>6, AppendFacts DEF Say, Item
  <2>2. said' \in 0..MaxItems  BY <1>6, SuperviseAssumption DEF Say
  <2> QED BY <1>6, <2>1, <2>2, SuperviseAssumption DEF Say
<1>7. CASE EndTurn
  <2>1. pipe' \in Seq(Item) /\ Len(pipe') = Len(pipe) + 1
    BY <1>7, AppendFacts DEF EndTurn, Item
  <2> QED BY <1>7, <2>1, SuperviseAssumption DEF EndTurn
<1>8. CASE Exit \/ HelperExits \/ PromptRead \/ PromptBroken
  BY <1>8 DEF Exit, HelperExits, PromptRead, PromptBroken
<1>9. CASE \E where \in {"group", "escaped"} : Fork(where)  BY <1>9 DEF Fork
<1>10. CASE Read
  <2>1. pipe' \in Seq(Item) /\ Len(pipe') = Len(pipe) - 1 /\ Len(pipe) \in Nat
    BY <1>10, TailFacts DEF Read
  <2>2. cut' \in BOOLEAN  BY <1>10 DEF Read, Store
  <2>3. /\ logFailed' \in BOOLEAN /\ overflow' \in BOOLEAN /\ ctxDone' \in BOOLEAN
        /\ reader' \in {"unborn", "reading", "ended"}
    <3>1. CASE UNCHANGED <<logged, overflow, logFailed, ctxDone, reader>>  BY <3>1
    <3>2. CASE logFailed' = TRUE /\ UNCHANGED <<logged, overflow, ctxDone, reader>>  BY <3>2
    <3>3. CASE /\ overflow' = (logged + 1 > Limit)
               /\ ctxDone' = (ctxDone \/ logged + 1 > Limit)
               /\ reader' = IF logged + 1 > Limit THEN "ended" ELSE reader
               /\ UNCHANGED logFailed
      <4>1. overflow' \in BOOLEAN /\ ctxDone' \in BOOLEAN
        <5>1. CASE logged + 1 > Limit  BY <3>3, <5>1
        <5>2. CASE ~(logged + 1 > Limit)  BY <3>3, <5>2
        <5> QED BY <5>1, <5>2
      <4> QED BY <3>3, <4>1
    <3> QED BY <1>10, <3>1, <3>2, <3>3 DEF Read, Record
  <2>4. stdin' \in {"none", "copying", "open", "closed"}  BY <1>10 DEF Read
  <2>5. Len(pipe') <= PipeSize  BY <2>1, SuperviseAssumption
  <2> QED BY <1>10, <2>1, <2>2, <2>3, <2>4, <2>5 DEF Read
<1>11. CASE ReaderEnds  BY <1>11 DEF ReaderEnds
<1>12. CASE Waiter
  BY <1>12 DEF Waiter, WaitExitReturns, WaitExitFails, WaiterReaps, WaiterReturns
<1>13. CASE SeesExit
  BY <1>13, KillType DEF SeesExit
<1>14. CASE TimesOut \/ SeesCancel  BY <1>14, KillType DEF TimesOut, SeesCancel
<1>15. CASE ReadersDone  BY <1>15 DEF ReadersDone
<1>16. CASE GraceOver
  <2>1. CASE sup = "grace1" /\ KillAll /\ sup' = "grace2" /\ UNCHANGED drainVars
    BY <1>16, <2>1, KillType DEF GraceOver
  <2>2. CASE /\ sup = "grace2" /\ forced' = TRUE /\ sup' = "grace3"
             /\ UNCHANGED <<processVars, stuck>>
    BY <1>16, <2>2 DEF GraceOver
  <2>3. CASE /\ sup = "grace3" /\ stuck' = TRUE /\ sup' = "drained"
             /\ UNCHANGED <<processVars, forced>>
    BY <1>16, <2>3 DEF GraceOver
  <2> QED BY <1>16, <2>1, <2>2, <2>3 DEF GraceOver
<1>17. CASE Drained  BY <1>17, KillType DEF Drained
<1>18. CASE Reap
  <2>1. cause \in {"exited", "timeout", "cancelled"}  BY <1>18 DEF Reap, StageInv
  <2>2. Outcome \subseteq Finished  BY <2>1 DEF Outcome, Finished
  <2>3. state' \in Finished \cup {"running", "needs_input"} /\ truncated' \in BOOLEAN
    BY <1>18, <2>2, FinishType DEF Reap
  <2> QED BY <1>18, <2>3 DEF Reap
<1>19. CASE Cancel \/ Rest  BY <1>19 DEF Cancel, Rest
<1>20. CASE UNCHANGED vars  BY <1>20 DEF vars
<1> QED BY <1>1, <1>2, <1>3, <1>4, <1>5, <1>6, <1>7, <1>8, <1>9, <1>10, <1>11, <1>12,
           <1>13, <1>14, <1>15, <1>16, <1>17, <1>18, <1>19, <1>20
        DEF Next, Start, Processes, Reader, Supervisor

(* The types, the counts, the stages and the group hold together.          *)
ProcessInv == TypeOK /\ CountInv /\ StageInv /\ IdInv /\ KillInv

(* They hold before the child is spawned.                                  *)
LEMMA ProcessInvInit == Init => ProcessInv
<1> SUFFICES ASSUME Init  PROVE ProcessInv  OBVIOUS
<1>1. <<>> \in Seq(Item) /\ Len(<<>>) = 0 /\ DOMAIN <<>> = {}  OBVIOUS
<1>2. TypeOK
  <2>1. pipe \in Seq(Item) /\ Len(pipe) <= PipeSize
    BY <1>1, SuperviseAssumption DEF Init
  <2>2. {said, kept} \subseteq 0..MaxItems /\ logged \in 0..MaxItems + 1
    BY SuperviseAssumption DEF Init
  <2>3. {truncated, ctxDone, fellBack, stray, cut, stuck, forced, overflow, logFailed,
         turnOver} \subseteq BOOLEAN
    BY DEF Init
  <2> QED BY <2>1, <2>2, <2>3 DEF Init, TypeOK
<1>3. ~HasResult /\ Unread = 0  BY <1>1 DEF Init, HasResult, Unread
<1>4. CountInv  BY <1>1, <1>3 DEF Init, CountInv
<1> QED BY <1>2, <1>4, InitProcess DEF ProcessInv

(* The same of the next state.                                             *)
LEMMA TypeOfPartsNext == PartType' /\ CountInv' /\ CountType' => TypeOK'
<1>1. PartType /\ CountInv /\ CountType => TypeOK
  BY TypeOfParts
<1> QED BY <1>1, PTL

(* Each step keeps all of them.                                            *)
LEMMA ProcessInvNext == ProcessInv /\ [Next]_vars => ProcessInv'
<1> SUFFICES ASSUME ProcessInv, [Next]_vars  PROVE ProcessInv'  OBVIOUS
<1>1. CountInv' /\ kept' \in Nat /\ logged' \in Nat  BY CountStep DEF ProcessInv
<1>2. PartType'  BY PartOfType, PartTypeStep DEF ProcessInv
<1>3. TypeOK'  BY <1>1, <1>2, TypeOfPartsNext DEF CountType
<1> QED BY <1>1, <1>3, NextProcess DEF ProcessInv

(* Hence they hold in every state.                                         *)
LEMMA ProcessInvCorrect == Spec => []ProcessInv
BY ProcessInvInit, ProcessInvNext, PTL DEF Spec

(* Every variable keeps its type; in particular no more is kept or logged  *)
(* than was written.                                                       *)
THEOREM TypeCorrect == Spec => []TypeOK
<1>1. ProcessInv => TypeOK  BY DEF ProcessInv
<1> QED BY <1>1, ProcessInvCorrect, PTL

(* Unless the wait for the exit has failed or there is none, no kill       *)
(* reaches a group that is not the child's.                                *)
THEOREM KillsCorrect == Spec => []KillsOwnGroup
<1>1. ProcessInv => KillsOwnGroup  BY DEF ProcessInv, IdInv
<1> QED BY <1>1, ProcessInvCorrect, PTL

(* A supervisor that has reported leaves neither the child nor anything of *)
(* its group, whichever way the run has ended.                             *)
THEOREM NobodyLeft == Spec => []LeavesNobody
<1>1. ProcessInv => LeavesNobody  BY DEF ProcessInv, KillInv
<1> QED BY <1>1, ProcessInvCorrect, PTL

-----------------------------------------------------------------------------
(* An exit discards no output *)

(* ReaderInv is inductive: a reader that ends by itself leaves an empty    *)
(* pipe that nobody fills again, and the drain gives up only with stuck.   *)
LEMMA ReaderStep ==
    ASSUME ProcessInv, ReaderInv, [Next]_vars
    PROVE  ReaderInv'
<1>0. TypeOK /\ StageInv  BY DEF ProcessInv
<1> USE DEF ReaderInv, Goto, processVars, waitVars, resultVars, outputVars, drainVars
<1>1. CASE SpawnFails  BY <1>1 DEF SpawnFails, Finish
<1>2. CASE Spawn  BY <1>2 DEF Spawn
<1>3. CASE BindFails
  <2>1. waiter = "unborn"  BY <1>0, <1>3 DEF BindFails, StageInv
  <2> QED BY <1>3, <2>1 DEF BindFails
<1>4. CASE Abort  BY <1>4 DEF Abort, Finish
<1>5. CASE Begin
  <2>1. waiter = "unborn" /\ reader' = "reading" /\ sup' = "select"
        /\ UNCHANGED <<state, truncated>>
    BY <1>0, <1>5 DEF Begin, StageInv
  <2> QED BY <2>1
<1>6. CASE Say \/ EndTurn
  BY <1>6 DEF Say, EndTurn, Readable
<1>7. CASE Exit \/ HelperExits \/ PromptRead \/ PromptBroken
  BY <1>7 DEF Exit, HelperExits, PromptRead, PromptBroken
<1>8. CASE \E where \in {"group", "escaped"} : Fork(where)  BY <1>8 DEF Fork
<1>9. CASE Read
  <2>1. /\ reader = "reading" /\ UNCHANGED <<state, truncated, sup, stuck, forced, waiter>>
        /\ reader' \in {"reading", "ended"}
        /\ reader' = "ended" => overflow'
    BY <1>9 DEF Read, Record
  <2> QED BY <2>1
<1>10. CASE ReaderEnds  BY <1>10 DEF ReaderEnds
<1>11. CASE Waiter
  BY <1>11 DEF Waiter, WaitExitReturns, WaitExitFails, WaiterReaps, WaiterReturns
<1>12. CASE SeesExit \/ TimesOut \/ SeesCancel
  BY <1>12 DEF SeesExit, TimesOut, SeesCancel
<1>13. CASE ReadersDone  BY <1>13 DEF ReadersDone
<1>14. CASE GraceOver
  <2>1. CASE sup = "grace1"  BY <1>14, <2>1 DEF GraceOver
  <2>2. CASE sup = "grace2"  BY <1>14, <2>2 DEF GraceOver
  <2>3. CASE sup = "grace3"  BY <1>14, <2>3 DEF GraceOver
  <2> QED BY <1>14, <2>1, <2>2, <2>3 DEF GraceOver
<1>15. CASE Drained  BY <1>15 DEF Drained
<1>16. CASE Reap
  <2>1. /\ sup = "reap" /\ waiter = "exited" /\ sup' = "done"
        /\ UNCHANGED <<overflow, forced, waiter, pipe, reader, cut, stuck>>
    BY <1>16 DEF Reap
  <2>2. CASE state = "running"
    <3>1. truncated' = (cut \/ stuck)  BY <1>16, <2>2 DEF Reap, Finish
    <3> QED BY <2>1, <3>1
  <2>3. CASE state # "running"
    <3>1. UNCHANGED <<state, truncated>>  BY <1>16, <2>3 DEF Reap, Finish
    <3> QED BY <2>1, <3>1
  <2> QED BY <2>2, <2>3
<1>17. CASE Cancel \/ Rest  BY <1>17 DEF Cancel, Rest
<1>18. CASE UNCHANGED vars  BY <1>18 DEF vars
<1> QED BY <1>1, <1>2, <1>3, <1>4, <1>5, <1>6, <1>7, <1>8, <1>9, <1>10, <1>11, <1>12,
           <1>13, <1>14, <1>15, <1>16, <1>17, <1>18
        DEF Next, Start, Processes, Reader, Supervisor

(* The inductive invariant, for every value of the constants.              *)
THEOREM SuperviseInvCorrect == Spec => []SuperviseInv
<1>1. Init => ReaderInv  BY DEF Init, ReaderInv
<1>2. ProcessInv /\ ReaderInv => SuperviseInv  BY DEF ProcessInv, SuperviseInv
<1> QED BY <1>1, <1>2, ProcessInvInit, ProcessInvNext, ReaderStep, PTL DEF Spec

(* A run that completed and does not say truncated has every message its   *)
(* child and its helpers wrote, unless the transcript's limit stopped the  *)
(* reader or the drain closed the pipe.                                    *)
THEOREM OutputWhole == Spec => []WholeOutput
<1>1. SuperviseInv => WholeOutput
  <2> SUFFICES ASSUME SuperviseInv, state = "completed", ~truncated, ~overflow, ~forced
               PROVE  kept = said
    BY DEF WholeOutput
  <2>1. pipe = <<>> /\ ~cut  BY DEF SuperviseInv, ReaderInv
  <2>2. Unread = 0  BY <2>1, UnreadType DEF SuperviseInv
  <2> QED BY <2>1, <2>2 DEF SuperviseInv, CountInv, TypeOK
<1> QED BY <1>1, SuperviseInvCorrect, PTL

-----------------------------------------------------------------------------
(* What is handed over of the output *)

(* Clean keeps to its cap, cuts only what is over it, and says so.         *)
LEMMA CleanBounds ==
    ASSUME NEW t \in Text, NEW cap \in Int, NEW back \in Back
    PROVE  LET r == Clean(t, cap, back) IN
           /\ r.bytes \in Nat /\ r.truncated \in BOOLEAN
           /\ r.bytes <= t.bytes
           /\ cap > 0 => r.bytes <= cap
           /\ r.truncated <=> (cap > 0 /\ t.bytes > cap)
           /\ r.bytes < t.bytes => r.truncated
<1>1. t.bytes \in Nat  BY DEF Text
<1>2. CASE cap > 0 /\ t.bytes > cap
  <2>1. back \in Int /\ 0 <= back  BY DEF Back
  <2>2. TruncateUTF8(cap, back) \in Nat /\ TruncateUTF8(cap, back) <= cap
    BY <1>2, <2>1 DEF TruncateUTF8
  <2>3. Clean(t, cap, back) = [bytes |-> TruncateUTF8(cap, back), truncated |-> TRUE]
    BY <1>2 DEF Clean
  <2> QED BY <1>1, <1>2, <2>2, <2>3
<1>3. CASE ~(cap > 0 /\ t.bytes > cap)
  BY <1>1, <1>3 DEF Clean, Whole
<1> QED BY <1>2, <1>3

(* When the cap is one, the body is never cleaned with the zero that Clean *)
(* takes for no cap.                                                       *)
LEMMA BodyBounds ==
    ASSUME NEW body \in Text, NEW tail \in Text, NEW cap \in Int, NEW backs \in Backs
    PROVE  LET b == BodyOf(body, tail, cap, backs) IN
           /\ b.bytes \in Nat /\ b.truncated \in BOOLEAN
           /\ b.bytes < body.bytes => b.truncated
           /\ cap > 0 /\ ~tail.given => b.bytes <= cap
           /\ cap > 0 /\ tail.given /\ b.bytes > 0 =>
                 b.bytes + 1 + Clean(tail, cap, backs.tail).bytes <= cap
<1> DEFINE t == Clean(tail, cap, backs.tail)
           budget == Budget(tail, cap, backs.tail)
<1>1. /\ body.bytes \in Nat /\ body.given \in BOOLEAN /\ tail.given \in BOOLEAN
      /\ body.bytes > 0 => body.given
      /\ backs.body \in Back /\ backs.tail \in Back
  BY DEF Text, Backs
<1>2. t.bytes \in Nat  BY <1>1, CleanBounds
<1>3. budget \in Int /\ (cap > 0 => budget = cap - t.bytes - 1) /\ (cap <= 0 => budget = 0)
  BY <1>2 DEF Budget
<1> HIDE DEF t, budget
<1>4. CASE ~tail.given
  BY <1>1, <1>4, CleanBounds DEF BodyOf
<1>5. CASE tail.given /\ cap > 0 /\ budget <= 0
  BY <1>1, <1>5 DEF BodyOf, budget
<1>6. CASE tail.given /\ ~(cap > 0 /\ budget <= 0)
  <2>1. BodyOf(body, tail, cap, backs) = Clean(body, budget, backs.body)
    BY <1>6 DEF BodyOf, budget
  <2>2. LET r == Clean(body, budget, backs.body) IN
        /\ r.bytes \in Nat /\ r.truncated \in BOOLEAN
        /\ budget > 0 => r.bytes <= budget
        /\ r.bytes < body.bytes => r.truncated
    BY <1>1, <1>3, CleanBounds
  <2>3. cap > 0 => budget > 0 /\ budget = cap - t.bytes - 1  BY <1>3, <1>6
  <2> DEFINE r == Clean(body, budget, backs.body)
  <2>4. r.bytes \in Nat /\ r.truncated \in BOOLEAN
        /\ (budget > 0 => r.bytes <= budget) /\ (r.bytes < body.bytes => r.truncated)
    BY <2>2
  <2> HIDE DEF r
  <2>5. cap > 0 => r.bytes + 1 + t.bytes <= cap  BY <1>2, <1>3, <2>3, <2>4
  <2>6. BodyOf(body, tail, cap, backs) = r  BY <2>1 DEF r
  <2> QED BY <1>6, <2>4, <2>5, <2>6 DEF t
<1> QED BY <1>1, <1>4, <1>5, <1>6

(* Body, newline and tail together stay within max_output_bytes, for every *)
(* cap and wherever the two cuts fall.                                     *)
THEOREM PayloadFits ==
    ASSUME NEW body \in Text, NEW tail \in Text, NEW cap \in Nat, NEW backs \in Backs,
           cap > 0
    PROVE  EnvelopeTail(body, tail, cap, backs).payload <= cap
<1> DEFINE b == BodyOf(body, tail, cap, backs)
           t == TailOf(tail, cap, backs)
<1>1. backs.tail \in Back /\ tail.given \in BOOLEAN  BY DEF Backs, Text
<1>2. CASE tail.given
  <2>1. t.bytes \in Nat /\ t.bytes <= cap /\ t = Clean(tail, cap, backs.tail)
    BY <1>1, <1>2, CleanBounds DEF TailOf
  <2>2. b.bytes \in Nat /\ (b.bytes > 0 => b.bytes + 1 + t.bytes <= cap)
    BY <1>2, <2>1, BodyBounds
  <2> HIDE DEF b, t
  <2> QED BY <1>2, <2>1, <2>2 DEF EnvelopeTail, b, t
<1>3. CASE ~tail.given
  <2>1. t.bytes = 0  BY <1>3 DEF TailOf, Whole
  <2>2. b.bytes \in Nat /\ b.bytes <= cap  BY <1>3, BodyBounds
  <2> HIDE DEF b, t
  <2> QED BY <1>3, <2>1, <2>2 DEF EnvelopeTail, b, t
<1> QED BY <1>1, <1>2, <1>3

(* The evidence behind a result comes before the result: the tail is cut   *)
(* only when it is over the cap by itself, however long the body.          *)
THEOREM TailComesFirst ==
    ASSUME NEW body \in Text, NEW tail \in Text, NEW cap \in Int, NEW backs \in Backs,
           cap <= 0 \/ tail.bytes <= cap
    PROVE  EnvelopeTail(body, tail, cap, backs).tail = tail.bytes
<1>1. /\ tail.bytes \in Nat /\ tail.given \in BOOLEAN
      /\ ~tail.given => tail.bytes = 0
  BY DEF Text
<1>2. TailOf(tail, cap, backs).bytes = tail.bytes
  BY <1>1 DEF TailOf, Clean, Whole
<1> QED BY <1>2 DEF EnvelopeTail

(* Nothing is left out in silence: a result that lacks a byte of the body  *)
(* or of the tail says that it is truncated.                               *)
THEOREM TruncationTold ==
    ASSUME NEW body \in Text, NEW tail \in Text, NEW cap \in Int, NEW backs \in Backs
    PROVE  LET e == EnvelopeTail(body, tail, cap, backs) IN
           e.body < body.bytes \/ e.tail < tail.bytes => e.truncated
<1> DEFINE b == BodyOf(body, tail, cap, backs)
           t == TailOf(tail, cap, backs)
<1>1. /\ tail.bytes \in Nat /\ tail.given \in BOOLEAN /\ backs.tail \in Back
      /\ ~tail.given => tail.bytes = 0
  BY DEF Text, Backs
<1>2. b.bytes < body.bytes => b.truncated  BY BodyBounds
<1>3. t.bytes < tail.bytes => t.truncated
  BY <1>1, CleanBounds DEF TailOf, Whole
<1> HIDE DEF b, t
<1> QED BY <1>2, <1>3 DEF EnvelopeTail, b, t

=============================================================================
