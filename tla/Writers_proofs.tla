---------------------------- MODULE Writers_proofs ----------------------------
(***************************************************************************)
(* Theorems about what several writers share: the stdin of one child       *)
(* (Steering), for any steer calls of agents and operators, any budget and *)
(* any size of the pipe; and the audit log of all servers of a user        *)
(* (AuditLog), for any number of servers, any templates, any size and      *)
(* number of files that are kept, and any number of lines.                 *)
(*                                                                         *)
(* The two modules share no variable: each specification is proved about   *)
(* by itself.                                                              *)
(***************************************************************************)
EXTENDS Steering, AuditLog, FiniteSetTheorems, SequenceTheorems, WellFoundedInduction,
        TLAPS

-----------------------------------------------------------------------------
(* Steering: types *)

(* Each method that is called on the run turns it into a Run.              *)
LEMMA RunType ==
    ASSUME NEW r \in RunRecord
    PROVE  /\ \A o \in {"completed", "failed", "cancelled"} : Finish(r, o) \in RunRecord
           /\ \A q \in Question : Ask(r, q) \in RunRecord
           /\ Resolve(r) \in RunRecord
           /\ CancelRested(NeedsInput(r)) \in RunRecord
<1>1. \A o \in {"completed", "failed", "cancelled"} : Finish(r, o) \in RunRecord
  BY DEF Finish, RunRecord, States
<1>2. \A q \in Question : Ask(r, q) \in RunRecord  BY DEF Ask, RunRecord
<1>3. Resolve(r) \in RunRecord  BY DEF Resolve, RunRecord
<1>4. CancelRested(NeedsInput(r)) \in RunRecord
  <2> DEFINE rests == NeedsInput(r)
             stop == rests.stopped \/ rests.owes
  <2>1. rests \in RunRecord
    <3>1. CASE Settled(r.state)  BY <3>1 DEF NeedsInput
    <3>2. CASE ~Settled(r.state)
      <4> DEFINE due == IF r.asked THEN "ahead" ELSE r.deadline
      <4>1. due \in {"unset", "ahead", "passed"}  BY DEF RunRecord
      <4>2. rests = [r EXCEPT !.state = "needs_input", !.done = TRUE, !.pending = None,
                              !.deadline = due, !.owes = r.cancel]
        BY <3>2 DEF NeedsInput
      <4> HIDE DEF due, rests
      <4> QED BY <4>1, <4>2 DEF RunRecord, States
    <3> QED BY <3>1, <3>2
  <2> HIDE DEF rests
  <2>2. stop \in BOOLEAN  BY <2>1 DEF RunRecord
  <2>3. CancelRested(rests) = [rests EXCEPT !.owes = FALSE, !.stopped = stop]
    BY DEF CancelRested
  <2> HIDE DEF stop
  <2>4. CancelRested(rests) \in RunRecord  BY <2>1, <2>2, <2>3 DEF RunRecord
  <2> QED BY <2>4 DEF rests
<1> QED BY <1>1, <1>2, <1>3, <1>4

(* A message that is written fits, and so does what is left when the child *)
(* has read one.                                                           *)
LEMMA InboxType ==
    ASSUME TypeOK
    PROVE  /\ \A m \in Call \cup {"task"} :
                 Write(m) => inbox' \in Seq(Call \cup {"task"}) /\ Len(inbox') <= PipeSize
           /\ inbox # <<>> => /\ Tail(inbox) \in Seq(Call \cup {"task"})
                              /\ Len(Tail(inbox)) <= PipeSize
<1>1. PipeSize \in Nat /\ inbox \in Seq(Call \cup {"task"}) /\ Len(inbox) <= PipeSize
  BY SteeringAssumption DEF TypeOK
<1>2. ASSUME NEW m \in Call \cup {"task"}, Write(m)
      PROVE  inbox' \in Seq(Call \cup {"task"}) /\ Len(inbox') <= PipeSize
  BY <1>1, <1>2 DEF Write
<1>3. ASSUME inbox # <<>>
      PROVE  Tail(inbox) \in Seq(Call \cup {"task"}) /\ Len(Tail(inbox)) <= PipeSize
  BY <1>1, <1>3
<1> QED BY <1>2, <1>3

(* A step of a steer call keeps the types.                                 *)
LEMMA CallType ==
    ASSUME TypeOK, NEW c \in Call, Admit(c) \/ Refuse(c) \/ SteerStep(c)
    PROVE  TypeOK'
<1> USE DEF TypeOK, CallStep, pipeVars, goroutines
<1>1. CASE Admit(c)
  <2>1. agentSteers' \in 0..MaxAgentSteers
    BY <1>1, SteeringAssumption DEF Admit, Passes
  <2> QED BY <1>1, <2>1 DEF Admit
<1>2. CASE Refuse(c)  BY <1>2 DEF Refuse
<1>3. CASE Send(c)
  <2>1. lock' \in Call \cup Owner \cup {None}  BY <1>3 DEF Send, Acquire
  <2>2. call' \in [Call -> CallStep]  BY <1>3 DEF Send
  <2> QED BY <1>3, <2>1, <2>2 DEF Send
<1>4. CASE Written(c)
  <2>1. inbox' \in Seq(Call \cup {"task"}) /\ Len(inbox') <= PipeSize
    BY <1>4, InboxType DEF Written
  <2> QED BY <1>4, <2>1 DEF Written, Release
<1>5. CASE WriteFails(c)  BY <1>5 DEF WriteFails, Release
<1>6. CASE Told(c)  BY <1>6 DEF Told
<1> QED BY <1>1, <1>2, <1>3, <1>4, <1>5, <1>6 DEF SteerStep

(* So do the supervisor and the reader.                                    *)
LEMMA GoroutineType ==
    ASSUME TypeOK, Supervisor \/ Reader
    PROVE  TypeOK'
<1> USE DEF TypeOK, pipeVars, goroutines
<1>1. \A o \in {"completed", "failed", "cancelled"} : Settle(o) => run' \in RunRecord
  BY RunType DEF Settle
<1>2. Close => channel' \in {"none", "open", "closed"}  BY DEF Close
<1>3. CASE Attach  BY <1>3 DEF Attach
<1>4. CASE Spawn  BY <1>1, <1>4 DEF Spawn
<1>5. CASE SendTask  BY <1>5 DEF SendTask, Acquire, Owner
<1>6. CASE TaskWritten
  <2>1. inbox' \in Seq(Call \cup {"task"}) /\ Len(inbox') <= PipeSize
    BY <1>6, InboxType DEF TaskWritten
  <2> QED BY <1>6, <2>1 DEF TaskWritten, Release
<1>7. CASE TaskFails  BY <1>1, <1>7 DEF TaskFails, Release
<1>8. CASE StopWatching  BY <1>8 DEF StopWatching
<1>9. CASE DrainOver  BY <1>9 DEF DrainOver
<1>10. CASE Reap  BY <1>1, <1>10 DEF Reap
<1>11. CASE CloseAtEnd  BY <1>2, <1>11 DEF CloseAtEnd, Close
<1>12. CASE CloseSteer  BY <1>2, <1>12 DEF CloseSteer, Close
<1>13. CASE ReaderEnds  BY <1>13 DEF ReaderEnds
<1> QED BY <1>3, <1>4, <1>5, <1>6, <1>7, <1>8, <1>9, <1>10, <1>11, <1>12, <1>13
        DEF Supervisor, Reader

(* So does the child: TypeOK is inductive.                                 *)
LEMMA NextType == TypeOK /\ [Next]_vars => TypeOK'
<1> SUFFICES ASSUME TypeOK, [Next]_vars  PROVE TypeOK'  OBVIOUS
<1> USE DEF TypeOK, pipeVars, goroutines
<1>1. CASE ChildReads  BY <1>1, InboxType DEF ChildReads
<1>2. CASE ChildExits  BY <1>2 DEF ChildExits
<1>3. CASE TurnEnds  BY <1>3 DEF TurnEnds
<1>4. CASE Answered  BY <1>4, RunType DEF Answered
<1>5. CASE GivesUp  BY <1>5, RunType DEF GivesUp
<1>6. ASSUME NEW q \in Question, ChildAsks(q)  PROVE TypeOK'
  BY <1>6, RunType DEF ChildAsks
<1>7. CASE UNCHANGED vars  BY <1>7 DEF vars
<1> QED BY <1>1, <1>2, <1>3, <1>4, <1>5, <1>6, <1>7, CallType, GoroutineType
        DEF Next, Child

(* Every variable keeps its type: in particular an agent's calls never     *)
(* take the counter beyond the budget, nor the inbox beyond the pipe.      *)
THEOREM TypeCorrect == Spec => []TypeOK
<1>1. Init => TypeOK
  <2> SUFFICES ASSUME Init  PROVE TypeOK  OBVIOUS
  <2>1. run \in RunRecord
    BY DEF Init, NewRun, NoRun, RunRecord, States
  <2>2. inbox \in Seq(Call \cup {"task"}) /\ Len(inbox) <= PipeSize
    BY SteeringAssumption DEF Init
  <2> QED BY <2>1, <2>2, SteeringAssumption DEF Init, TypeOK, CallStep
<1> QED BY <1>1, NextType, PTL DEF Spec

-----------------------------------------------------------------------------
(* Steering: the budget and the truth of what callers are told *)

(* Only steer calls touch the counter, their own state and what is         *)
(* delivered.                                                              *)
LEMMA CallsOnly ==
    ASSUME [Next]_vars
    PROVE  \/ \E c \in Call : Admit(c) \/ Refuse(c) \/ SteerStep(c)
           \/ UNCHANGED <<agentSteers, call, delivered>>
BY DEF Next, Supervisor, Reader, Child, Attach, Spawn, SendTask, TaskWritten, TaskFails,
       StopWatching, DrainOver, Reap, CloseAtEnd, CloseSteer, ReaderEnds, ChildReads,
       ChildExits, TurnEnds, Answered, GivesUp, ChildAsks, vars

(* A call that is not admitted leaves no more calls counted than before.   *)
LEMMA NotCounted ==
    ASSUME TypeOK, SteerInv, agentSteers' = agentSteers, Counted' \subseteq Counted
    PROVE  IsFiniteSet(Counted)' /\ (Cardinality(Counted) <= agentSteers)'
<1>1. IsFiniteSet(Counted') /\ Cardinality(Counted') <= Cardinality(Counted)
  BY FS_Subset DEF SteerInv
<1>2. /\ Cardinality(Counted') \in Nat /\ Cardinality(Counted) \in Nat
      /\ agentSteers \in Nat
  BY <1>1, FS_CardinalityType, SteeringAssumption DEF SteerInv, TypeOK
<1>3. Cardinality(Counted') <= agentSteers'  BY <1>1, <1>2 DEF SteerInv
<1> QED BY <1>1, <1>3

(* A call that is admitted is counted before r.mu is released.             *)
LEMMA AdmitCounted ==
    ASSUME TypeOK, SteerInv, NEW c \in Call, Admit(c)
    PROVE  IsFiniteSet(Counted)' /\ (Cardinality(Counted) <= agentSteers)'
<1>1. call[c] = "idle" /\ call' = [call EXCEPT ![c] = "admitted"]
  BY DEF Admit
<1>2. CASE c \in AgentCall
  <2>1. Counted' = Counted \cup {c} /\ c \notin Counted
    BY <1>1, <1>2 DEF Counted, TypeOK, Call
  <2>2. IsFiniteSet(Counted') /\ Cardinality(Counted') = Cardinality(Counted) + 1
    BY <2>1, FS_AddElement DEF SteerInv
  <2>3. Cardinality(Counted) \in Nat /\ agentSteers \in Nat
    BY FS_CardinalityType, SteeringAssumption DEF SteerInv, TypeOK
  <2>4. agentSteers' = agentSteers + 1  BY <1>2 DEF Admit, Passes
  <2> QED BY <2>2, <2>3, <2>4 DEF SteerInv
<1>3. CASE c \notin AgentCall
  <2>1. Counted' \subseteq Counted  BY <1>1, <1>3 DEF Counted, TypeOK, Call
  <2>2. agentSteers' = agentSteers  BY <1>3 DEF Admit, Passes
  <2> QED BY <2>1, <2>2, NotCounted
<1> QED BY <1>2, <1>3

(* SteerInv is inductive, given the types.                                 *)
LEMMA SteerNext == TypeOK /\ SteerInv /\ [Next]_vars => SteerInv'
<1> SUFFICES ASSUME TypeOK, SteerInv, [Next]_vars  PROVE SteerInv'  OBVIOUS
<1> DEFINE Matches(x) == x \in delivered <=> call[x] \in {"sent", "queued"}
<1>1. ASSUME NEW c \in Call, Admit(c)  PROVE SteerInv'
  <2>1. \A x \in Call : Matches(x)'
    BY <1>1 DEF Admit, SteerInv, TypeOK
  <2> QED BY <1>1, <2>1, AdmitCounted DEF SteerInv
<1>2. ASSUME NEW c \in Call, NEW to \in {"refused", "writing", "queued"},
             call' = [call EXCEPT ![c] = to],
             agentSteers' = agentSteers, delivered' = delivered,
             to # "refused" => call[c] \in {"admitted", "sent"},
             to = "queued" <=> call[c] = "sent",
             call[c] # "queued"
      PROVE  SteerInv'
  <2>1. Counted' \subseteq Counted  BY <1>2 DEF Counted, TypeOK, Call
  <2>2. \A x \in Call : Matches(x)'  BY <1>2 DEF SteerInv, TypeOK
  <2> QED BY <1>2, <2>1, <2>2, NotCounted DEF SteerInv
<1>3. ASSUME NEW c \in Call, Refuse(c)  PROVE SteerInv'
  BY <1>2, <1>3 DEF Refuse
<1>4. ASSUME NEW c \in Call, Send(c)  PROVE SteerInv'
  <2>1. CASE channel = "closed"  BY <1>2, <1>4, <2>1 DEF Send
  <2>2. CASE channel # "closed"  BY <1>2, <1>4, <2>2 DEF Send
  <2> QED BY <2>1, <2>2
<1>5. ASSUME NEW c \in Call, Written(c)  PROVE SteerInv'
  <2>1. /\ call[c] = "writing" /\ call' = [call EXCEPT ![c] = "sent"]
        /\ delivered' = delivered \cup {c} /\ agentSteers' = agentSteers
    BY <1>5 DEF Written
  <2>2. Counted' \subseteq Counted  BY <2>1 DEF Counted, TypeOK, Call
  <2>3. \A x \in Call : Matches(x)'  BY <2>1 DEF SteerInv, TypeOK
  <2> QED BY <2>1, <2>2, <2>3, NotCounted DEF SteerInv
<1>6. ASSUME NEW c \in Call, WriteFails(c)  PROVE SteerInv'
  BY <1>2, <1>6 DEF WriteFails
<1>7. ASSUME NEW c \in Call, Told(c)  PROVE SteerInv'
  BY <1>2, <1>7 DEF Told
<1>8. CASE UNCHANGED <<agentSteers, call, delivered>>
  <2>1. Counted' \subseteq Counted  BY <1>8 DEF Counted
  <2> QED BY <1>8, <2>1, NotCounted DEF SteerInv
<1> QED BY <1>1, <1>3, <1>4, <1>5, <1>6, <1>7, <1>8, CallsOnly DEF SteerStep

(* Before the first call.                                                  *)
LEMMA SteerInit == Init => SteerInv
<1> SUFFICES ASSUME Init  PROVE SteerInv  OBVIOUS
<1>1. Counted = {}  BY DEF Init, Counted, Call
<1> QED BY <1>1, FS_EmptySet DEF Init, SteerInv

(* However many calls of the host agent run at once, no more of their      *)
(* messages reach the child than max_agent_steers: Steer counts a call     *)
(* before it releases the lock under which it checked the budget.          *)
THEOREM BudgetCorrect == Spec => []AgentBudget
<1>1. ASSUME TypeOK, SteerInv  PROVE AgentBudget
  <2>1. delivered \cap AgentCall \subseteq Counted
    BY <1>1 DEF SteerInv, Counted, Call
  <2>2. /\ IsFiniteSet(delivered \cap AgentCall)
        /\ Cardinality(delivered \cap AgentCall) <= Cardinality(Counted)
    BY <1>1, <2>1, FS_Subset DEF SteerInv
  <2>3. Cardinality(delivered \cap AgentCall) \in Nat /\ Cardinality(Counted) \in Nat
    BY <1>1, <2>2, FS_CardinalityType DEF SteerInv
  <2> QED BY <1>1, <2>2, <2>3, SteeringAssumption DEF SteerInv, TypeOK, AgentBudget
<1> QED BY <1>1, SteerInit, SteerNext, TypeCorrect, PTL DEF Spec

(* A caller who is told that the guidance is queued has it in the child's  *)
(* input, and one who is refused does not: there is no silent no-op.       *)
THEOREM NoticeCorrect == Spec => []NoSilentSteer
<1>1. SteerInv => NoSilentSteer  BY DEF SteerInv, NoSilentSteer
<1> QED BY <1>1, SteerInit, SteerNext, TypeCorrect, PTL DEF Spec
-----------------------------------------------------------------------------
(* Audit log: files *)

(* The files are numbered in the order of their creation.                  *)
LEMMA FilesDomain ==
    ASSUME AuditTypeOK
    PROVE  /\ DOMAIN files = 1..Len(files) /\ Len(files) \in Nat
           /\ \A f \in DOMAIN files : files[f] \in LogFile
           /\ \A f \in DOMAIN files : /\ files[f].lines \in Seq(Line)
                                      /\ DOMAIN files[f].lines = 1..Len(files[f].lines)
                                      /\ Len(files[f].lines) \in Nat
<1>1. files \in Seq(LogFile)  BY DEF AuditTypeOK
<1>2. DOMAIN files = 1..Len(files) /\ Len(files) \in Nat  BY <1>1, LenProperties
<1>3. \A f \in DOMAIN files : files[f] \in LogFile  BY <1>1, <1>2, ElementOfSeq
<1>4. \A f \in DOMAIN files : files[f].lines \in Seq(Line)  BY <1>3 DEF LogFile
<1> QED BY <1>2, <1>3, <1>4, LenProperties

(* A line that is written is the new last one of the writer's file, and    *)
(* nothing else about the files changes.                                   *)
LEMMA LineAdded ==
    ASSUME AuditTypeOK, NEW p \in Process, handle[p] # NoFile, NEW line \in Line,
           AppendLine(p, line)
    PROVE  /\ files' \in Seq(LogFile) /\ Len(files') = Len(files)
           /\ DOMAIN files' = DOMAIN files /\ handle[p] \in DOMAIN files
           /\ \A f \in DOMAIN files : /\ files'[f].age = files[f].age
                                      /\ files'[f].ahead = files[f].ahead
                                      /\ files'[f].clobbered = files[f].clobbered
                                      /\ f # handle[p] => files'[f] = files[f]
           /\ files'[handle[p]].lines = Append(files[handle[p]].lines, line)
<1> DEFINE h == handle[p]
           file == [files[h] EXCEPT !.lines = Append(files[h].lines, line)]
<1>1. h \in DOMAIN files  BY FilesDomain DEF AuditTypeOK, NoFile
<1>2. files[h] \in LogFile /\ files[h].lines \in Seq(Line)  BY <1>1, FilesDomain
<1>3. Append(files[h].lines, line) \in Seq(Line)  BY <1>2, AppendProperties
<1>4. file \in LogFile  BY <1>2, <1>3 DEF LogFile
<1>5. /\ file.lines = Append(files[h].lines, line) /\ file.age = files[h].age
      /\ file.ahead = files[h].ahead /\ file.clobbered = files[h].clobbered
  BY <1>2 DEF LogFile
<1>6. files' = [files EXCEPT ![h] = file]  BY DEF AppendLine
<1> HIDE DEF file, h
<1>7. files \in Seq(LogFile)  BY DEF AuditTypeOK
<1>8. /\ [files EXCEPT ![h] = file] \in Seq(LogFile)
      /\ Len([files EXCEPT ![h] = file]) = Len(files)
  BY <1>1, <1>4, <1>7, FilesDomain, ExceptSeq
<1>9. files' \in Seq(LogFile) /\ Len(files') = Len(files)  BY <1>6, <1>8
<1>10. DOMAIN files' = DOMAIN files  BY <1>6
<1>11. \A f \in DOMAIN files : files'[f] = IF f = h THEN file ELSE files[f]  BY <1>6
<1> QED BY <1>1, <1>5, <1>9, <1>10, <1>11 DEF h

(* Opening the log appends an empty file, or changes no file.              *)
LEMMA PathOpened ==
    ASSUME AuditTypeOK, NEW p \in Process, OpenPath(p)
    PROVE  /\ files' \in Seq(LogFile) /\ rotated' = rotated
           /\ live' # NoFile /\ live' \in 0..Len(files')
           /\ handle' = [handle EXCEPT ![p] = live']
           /\ \/ files' = files /\ live' = live
              \/ /\ live = NoFile /\ live' = Len(files) + 1 /\ Len(files') = Len(files) + 1
                 /\ DOMAIN files' = DOMAIN files \cup {Len(files) + 1}
                 /\ \A f \in DOMAIN files : files'[f] = files[f]
                 /\ files'[Len(files) + 1] = NewFile
<1>1. files \in Seq(LogFile) /\ live \in 0..Len(files)  BY DEF AuditTypeOK
<1>2. CASE live # NoFile  BY <1>1, <1>2 DEF OpenPath, dirVars
<1>3. CASE live = NoFile
  <2>1. << >> \in Seq(Line)  OBVIOUS
  <2>2. NewFile \in LogFile  BY <2>1 DEF NewFile, LogFile
  <2>3. files' = Append(files, NewFile) /\ live' = Len(files) + 1 /\ rotated' = rotated
        /\ handle' = [handle EXCEPT ![p] = Len(files) + 1]
    BY <1>3 DEF OpenPath
  <2>4. /\ files' \in Seq(LogFile) /\ Len(files') = Len(files) + 1
        /\ \A f \in 1..Len(files) : files'[f] = files[f]
        /\ files'[Len(files) + 1] = NewFile
    BY <1>1, <2>2, <2>3, AppendProperties
  <2>5. DOMAIN files' = 1..Len(files')  BY <2>4, LenProperties
  <2>6. Len(files) \in Nat /\ DOMAIN files = 1..Len(files)  BY FilesDomain
  <2>7. DOMAIN files' = DOMAIN files \cup {Len(files) + 1}  BY <2>4, <2>5, <2>6
  <2>8. live' # NoFile /\ live' \in 0..Len(files')  BY <2>3, <2>4, <2>6 DEF NoFile
  <2> QED BY <1>3, <2>3, <2>4, <2>6, <2>7, <2>8
<1> QED BY <1>2, <1>3

(* The newer names are finitely many.                                      *)
LEMMA NewerFinite ==
    ASSUME NEW t \in Second
    PROVE  IsFiniteSet(Newer(t)) /\ Cardinality(Newer(t)) \in Nat
<1>1. IsFiniteSet(Second)  BY FS_Interval, AuditAssumption DEF Second
<1>2. Newer(t) \in SUBSET Second  BY DEF Newer
<1>3. IsFiniteSet(Newer(t))  BY <1>1, <1>2, FS_Subset
<1> QED BY <1>3, FS_CardinalityType

(* A rotation makes the files that were ever renamed older, with the one   *)
(* it renames, says how many names are ahead of that one's, and marks the  *)
(* one whose name it takes.                                                *)
LEMMA FilesRenamed ==
    ASSUME AuditTypeOK, NEW p \in Process, Rename(p)
    PROVE  /\ files' \in Seq(LogFile) /\ Len(files') = Len(files)
           /\ DOMAIN files' = DOMAIN files
           /\ \A f \in DOMAIN files :
                  /\ files'[f].lines = files[f].lines
                  /\ files'[f].age = IF f = live \/ files[f].age > 0 THEN files[f].age + 1
                                     ELSE files[f].age
                  /\ files'[f].ahead = IF f = live THEN Cardinality(Newer(stamp[p]))
                                       ELSE files[f].ahead
                  /\ files'[f].clobbered = (files[f].clobbered \/ f = rotated[stamp[p]])
<1> DEFINE older(f) == [files[f] EXCEPT
                            !.age = IF f = live \/ files[f].age > 0 THEN files[f].age + 1
                                    ELSE files[f].age,
                            !.ahead = IF f = live THEN Cardinality(Newer(stamp[p]))
                                      ELSE files[f].ahead,
                            !.clobbered = files[f].clobbered \/ f = rotated[stamp[p]]]
<1>1. files' = [f \in 1..Len(files) |-> older(f)]  BY FilesDomain DEF Rename
<1>2. ASSUME NEW f \in DOMAIN files
      PROVE  /\ older(f) \in LogFile
             /\ older(f).lines = files[f].lines
             /\ older(f).age = IF f = live \/ files[f].age > 0 THEN files[f].age + 1
                               ELSE files[f].age
             /\ older(f).ahead = IF f = live THEN Cardinality(Newer(stamp[p]))
                                 ELSE files[f].ahead
             /\ older(f).clobbered = (files[f].clobbered \/ f = rotated[stamp[p]])
  <2>1. files[f] \in LogFile  BY FilesDomain
  <2> DEFINE a == IF f = live \/ files[f].age > 0 THEN files[f].age + 1 ELSE files[f].age
             n == IF f = live THEN Cardinality(Newer(stamp[p])) ELSE files[f].ahead
             b == files[f].clobbered \/ f = rotated[stamp[p]]
  <2>2. a \in Nat  BY <2>1 DEF LogFile
  <2>3. b \in BOOLEAN
    <3>1. \A x, y : (x \/ y) \in BOOLEAN  OBVIOUS
    <3> QED BY <3>1
  <2>6. n \in Nat
    <3>1. stamp[p] \in Second  BY DEF AuditTypeOK
    <3> QED BY <2>1, <3>1, NewerFinite DEF LogFile
  <2>4. older(f) = [files[f] EXCEPT !.age = a, !.ahead = n, !.clobbered = b]  OBVIOUS
  <2> HIDE DEF older, a, n, b
  <2>5. older(f) \in LogFile /\ older(f).lines = files[f].lines /\ older(f).age = a
        /\ older(f).ahead = n /\ older(f).clobbered = b
    BY <2>1, <2>2, <2>3, <2>4, <2>6 DEF LogFile
  <2> QED BY <2>5 DEF a, n, b
<1> HIDE DEF older
<1>3. Len(files) \in Nat /\ DOMAIN files = 1..Len(files)  BY FilesDomain
<1>4. \A f \in 1..Len(files) : older(f) \in LogFile  BY <1>2, <1>3
<1>5. [f \in 1..Len(files) |-> older(f)] \in Seq(LogFile)  BY <1>3, <1>4, IsASeq
<1>6. files' \in Seq(LogFile)  BY <1>1, <1>5
<1>7. DOMAIN files' = 1..Len(files) /\ DOMAIN files' = 1..Len(files') /\ Len(files') \in Nat
  BY <1>1, <1>6, LenProperties
<1>8. Len(files') = Len(files)  BY <1>3, <1>7
<1>9. \A f \in DOMAIN files : files'[f] = older(f)  BY <1>1, <1>3
<1> QED BY <1>2, <1>3, <1>6, <1>7, <1>8, <1>9
-----------------------------------------------------------------------------
(* Audit log: keys *)

(* A line adds itself to those the files have.                             *)
LEMMA LinesAdded ==
    ASSUME AuditTypeOK, NEW p \in Process, handle[p] # NoFile, NEW line \in Line,
           AppendLine(p, line)
    PROVE  Lines' = Lines \cup {line}
<1> DEFINE h == handle[p]
           n == Len(files[h].lines)
<1>1. /\ DOMAIN files' = DOMAIN files /\ h \in DOMAIN files
      /\ \A f \in DOMAIN files : f # h => files'[f] = files[f]
      /\ files'[h].lines = Append(files[h].lines, line)
  BY LineAdded
<1>2. files[h].lines \in Seq(Line)  BY <1>1, FilesDomain
<1>3. /\ n \in Nat /\ DOMAIN files[h].lines = 1..n
      /\ files'[h].lines \in Seq(Line) /\ Len(files'[h].lines) = n + 1
      /\ \A i \in 1..n : files'[h].lines[i] = files[h].lines[i]
      /\ files'[h].lines[n + 1] = line
  BY <1>1, <1>2, AppendProperties, LenProperties
<1>4. DOMAIN files'[h].lines = 1..(n + 1)  BY <1>3, LenProperties
<1> HIDE DEF n
<1>5. ToSet(files'[h].lines) = ToSet(files[h].lines) \cup {line}
  <2>1. \A i \in 1..(n + 1) : i \in 1..n \/ i = n + 1  BY <1>3
  <2>2. n + 1 \in 1..(n + 1) /\ \A i \in 1..n : i \in 1..(n + 1)  BY <1>3
  <2> QED BY <1>3, <1>4, <2>1, <2>2 DEF ToSet
<1>6. \A f \in DOMAIN files :
          ToSet(files'[f].lines)
            = IF f = h THEN ToSet(files[f].lines) \cup {line} ELSE ToSet(files[f].lines)
  BY <1>1, <1>5
<1>7. \A x : x \in Lines' <=> \E f \in DOMAIN files : x \in ToSet(files'[f].lines)
  BY <1>1 DEF Lines
<1>8. \A x : x \in Lines <=> \E f \in DOMAIN files : x \in ToSet(files[f].lines)  BY DEF Lines
<1> HIDE DEF h
<1> QED BY <1>1, <1>6, <1>7, <1>8

(* Neither an opened file nor a renamed one adds any.                      *)
LEMMA LinesOpened ==
    ASSUME AuditTypeOK, NEW p \in Process, OpenPath(p)
    PROVE  Lines' = Lines
<1>1. CASE files' = files  BY <1>1 DEF Lines
<1>2. CASE /\ DOMAIN files' = DOMAIN files \cup {Len(files) + 1}
           /\ \A f \in DOMAIN files : files'[f] = files[f]
           /\ files'[Len(files) + 1] = NewFile
  <2>1. ToSet(NewFile.lines) = {}  BY DEF NewFile, ToSet
  <2> QED BY <1>2, <2>1 DEF Lines
<1> QED BY <1>1, <1>2, PathOpened

(* See LinesOpened.                                                        *)
LEMMA LinesRenamed ==
    ASSUME AuditTypeOK, NEW p \in Process, Rename(p)
    PROVE  Lines' = Lines
BY FilesRenamed DEF Lines

(* A line adds no other key than its own.                                  *)
LEMMA KeysAdded ==
    ASSUME AuditTypeOK, NEW p \in Process, handle[p] # NoFile, NEW line \in Line,
           AppendLine(p, line)
    PROVE  LineKeys' \subseteq LineKeys \cup {line.key}
BY LinesAdded DEF LineKeys

(* There are no more keys in the files than lines were begun, so that a    *)
(* server that has to make one finds one that was never used.              *)
CountInv == IsFiniteSet(LineKeys) /\ Cardinality(LineKeys) <= begun

LEMMA NewKeyNew ==
    ASSUME AuditTypeOK, CountInv
    PROVE  NewKey \in Key /\ NewKey \notin KeysInUse
<1> DEFINE held == {key[p] : p \in Process}
<1>1. /\ IsFiniteSet(Process) /\ Cardinality(Process) \in Nat /\ MaxEntry \in Nat
      /\ begun \in Nat /\ begun <= MaxEntry
  BY FS_CardinalityType, AuditAssumption DEF AuditTypeOK
<1>2. IsFiniteSet(held) /\ Cardinality(held) <= Cardinality(Process)
  <2>1. key \in Surjection(Process, held)  BY DEF Surjection, AuditTypeOK
  <2> QED BY <1>1, <2>1, FS_Surjection
<1>3. IsFiniteSet({keyFile}) /\ Cardinality({keyFile}) = 1  BY FS_Singleton
<1> HIDE DEF held
<1>4. /\ IsFiniteSet(held \cup LineKeys)
      /\ Cardinality(held \cup LineKeys) <= Cardinality(Process) + MaxEntry
  <2>1. /\ IsFiniteSet(held \cup LineKeys)
        /\ Cardinality(held \cup LineKeys)
             = Cardinality(held) + Cardinality(LineKeys) - Cardinality(held \cap LineKeys)
    BY <1>2, FS_Union DEF CountInv
  <2>2. IsFiniteSet(held \cap LineKeys)  BY <1>2, FS_Intersection
  <2>3. /\ Cardinality(held \cap LineKeys) \in Nat /\ Cardinality(held) \in Nat
        /\ Cardinality(LineKeys) \in Nat
    BY <1>2, <2>2, FS_CardinalityType DEF CountInv
  <2> QED BY <1>1, <1>2, <2>1, <2>3 DEF CountInv
<1>5. /\ IsFiniteSet(KeysInUse)
      /\ Cardinality(KeysInUse) <= Cardinality(Process) + MaxEntry + 1
  <2>1. KeysInUse = (held \cup LineKeys) \cup {keyFile}  BY DEF KeysInUse, held
  <2>2. /\ IsFiniteSet((held \cup LineKeys) \cup {keyFile})
        /\ Cardinality((held \cup LineKeys) \cup {keyFile})
             = IF keyFile \in held \cup LineKeys THEN Cardinality(held \cup LineKeys)
               ELSE Cardinality(held \cup LineKeys) + 1
    BY <1>4, FS_AddElement
  <2>3. Cardinality(held \cup LineKeys) \in Nat  BY <1>4, FS_CardinalityType
  <2> QED BY <1>1, <1>4, <2>1, <2>2, <2>3
<1>6. IsFiniteSet(Key) /\ Cardinality(Key) = Cardinality(Process) + MaxEntry + 2
  <2> DEFINE n == Cardinality(Process) + MaxEntry + 2
  <2>1. n \in Int /\ n > 0  BY <1>1
  <2>2. 1 \in Int  OBVIOUS
  <2>3. Key = 1..n  BY DEF Key
  <2> HIDE DEF n
  <2>4. IsFiniteSet(1..n) /\ Cardinality(1..n) = n  BY <2>1, <2>2, FS_Interval
  <2> QED BY <2>3, <2>4 DEF n
<1>7. ~(Key \subseteq KeysInUse)
  <2> SUFFICES ASSUME Key \subseteq KeysInUse PROVE FALSE  OBVIOUS
  <2>1. Cardinality(Key) <= Cardinality(KeysInUse)  BY <1>5, FS_Subset
  <2>2. Cardinality(KeysInUse) \in Nat  BY <1>5, FS_CardinalityType
  <2> QED BY <1>1, <1>5, <1>6, <2>1, <2>2
<1>8. \E k \in Key : k \notin KeysInUse  BY <1>7
<1> QED BY <1>8 DEF NewKey
-----------------------------------------------------------------------------
(* Audit log: types *)

(* An entry is a line of the log, and so is a torn one.                    *)
LEMMA EntryType ==
    ASSUME AuditTypeOK, NEW p \in Process, MayWrite(p)
    PROVE  EntryOf(p) \in Line /\ Torn \in Line /\ handle[p] # NoFile
<1>1. begun + 1 \in Entry  BY AuditAssumption DEF AuditTypeOK, MayWrite, Entry
<1>2. key[p] \in Key  BY DEF AuditTypeOK, MayWrite
<1>3. template \in Runnable  BY DEF AuditTypeOK, MayWrite, Runnable
<1>4. Shown(template) \in {Shown(t) : t \in Runnable}  BY <1>3
<1> HIDE DEF Shown
<1>5. EntryOf(p) \in Line  BY <1>1, <1>2, <1>4 DEF EntryOf, Line
<1> QED BY <1>5 DEF Line, MayWrite

(* The clock starts at a second.                                           *)
LEMMA SecondZero == 0 \in Second
BY AuditAssumption DEF Second

(* Writing a line keeps the types.                                         *)
LEMMA WriteType ==
    ASSUME AuditTypeOK, CountInv, NEW p \in Process,
           WriteEntry(p) \/ EntryFails(p) \/ StopInWrite(p)
    PROVE  AuditTypeOK' /\ CountInv'
<1> USE DEF dirVars, rotateVars, keyVars, ghostVars
<1>1. MayWrite(p)  BY DEF WriteEntry, EntryFails, StopInWrite
<1>2. PICK line \in Line : AppendLine(p, line)
  BY <1>1, EntryType DEF WriteEntry, EntryFails, StopInWrite
<1>3. handle[p] # NoFile  BY <1>1, EntryType
<1>4. files' \in Seq(LogFile) /\ Len(files') = Len(files)  BY <1>2, <1>3, LineAdded
<1>5. begun' = begun + 1 /\ begun' \in 0..MaxEntry /\ begun \in Nat
  BY <1>1, <1>2, AuditAssumption DEF AppendLine, MayWrite, AuditTypeOK
<1>6. CountInv'
  <2>1. LineKeys' \subseteq LineKeys \cup {line.key}  BY <1>2, <1>3, KeysAdded
  <2>2. /\ IsFiniteSet(LineKeys \cup {line.key})
        /\ Cardinality(LineKeys \cup {line.key}) <= Cardinality(LineKeys) + 1
        /\ Cardinality(LineKeys) \in Nat
    <3>1. IsFiniteSet(LineKeys)  BY DEF CountInv
    <3>2. Cardinality(LineKeys) \in Nat  BY <3>1, FS_CardinalityType
    <3>3. /\ IsFiniteSet(LineKeys \cup {line.key})
          /\ Cardinality(LineKeys \cup {line.key})
               = IF line.key \in LineKeys THEN Cardinality(LineKeys) ELSE Cardinality(LineKeys) + 1
      BY <3>1, FS_AddElement
    <3> QED BY <3>2, <3>3
  <2>3. /\ IsFiniteSet(LineKeys')
        /\ Cardinality(LineKeys') <= Cardinality(LineKeys \cup {line.key})
    BY <2>1, <2>2, FS_Subset
  <2>4. Cardinality(LineKeys') \in Nat /\ Cardinality(LineKeys \cup {line.key}) \in Nat
    BY <2>2, <2>3, FS_CardinalityType
  <2> QED BY <1>5, <2>2, <2>3, <2>4 DEF CountInv
<1>7. AuditTypeOK'
  <2>1. /\ UNCHANGED <<template, clock, live, rotated, keyFile, twoKeys>>
        /\ kept' \subseteq kept \cup {begun + 1}
    BY DEF WriteEntry, EntryFails, StopInWrite, Gone
  <2>2. kept' \in SUBSET (1..begun')  BY <1>5, <2>1 DEF AuditTypeOK
  <2>3. /\ handle' \in [Process -> 0..Len(files')] /\ size' \in [Process -> Nat]
        /\ server' \in [Process -> ServerStep]
    <3>1. NoFile \in 0..Len(files)  BY FilesDomain DEF NoFile
    <3>2. {"up", "down"} \subseteq ServerStep  BY DEF ServerStep
    <3>3. server' \in [Process -> ServerStep]
      BY <3>2 DEF WriteEntry, EntryFails, StopInWrite, Gone, AuditTypeOK
    <3>4. handle' \in [Process -> 0..Len(files)]
      BY <3>1 DEF WriteEntry, EntryFails, StopInWrite, Gone, AuditTypeOK
    <3>5. size' \in [Process -> Nat]
      <4>1. size[p] + 1 \in Nat /\ 0 \in Nat  BY DEF AuditTypeOK
      <4>2. size' = [size EXCEPT ![p] = size[p] + 1] \/ size' = [size EXCEPT ![p] = 0]
        BY DEF WriteEntry, EntryFails, StopInWrite, Gone
      <4>3. PICK n \in Nat : size' = [size EXCEPT ![p] = n]  BY <4>1, <4>2
      <4> QED BY <4>3 DEF AuditTypeOK
    <3> QED BY <1>4, <3>3, <3>4, <3>5
  <2>4. /\ key' \in [Process -> {NoKey} \cup Key]
        /\ \A q \in Process : server'[q] # "down" => key'[q] # NoKey
    <3>1. CASE WriteEntry(p) \/ EntryFails(p)
      <4>1. key' = key /\ \A q \in Process : server'[q] # "down" => server[q] # "down"
        BY <1>1, <3>1 DEF WriteEntry, EntryFails, MayWrite, AuditTypeOK
      <4> QED BY <4>1 DEF AuditTypeOK
    <3>2. CASE StopInWrite(p)
      BY <3>2 DEF StopInWrite, Gone, AuditTypeOK
    <3> QED BY <3>1, <3>2
  <2>5. /\ collided' \in SUBSET Process /\ faulted' \in SUBSET Process
        /\ stamp' \in [Process -> Second] /\ doomed' \in [Process -> SUBSET Second]
    <3>1. CASE WriteEntry(p) \/ EntryFails(p)
      BY <3>1 DEF WriteEntry, EntryFails, AuditTypeOK
    <3>2. CASE StopInWrite(p)
      <4>1. Gone(p)  BY <3>2 DEF StopInWrite
      <4>2. collided' = collided \ {p} /\ faulted' = faulted \ {p}  BY <4>1 DEF Gone
      <4>3. /\ stamp' = [stamp EXCEPT ![p] = 0]
            /\ doomed' = [doomed EXCEPT ![p] = {}]
        BY <4>1 DEF Gone
      <4>4. {} \in SUBSET Second  OBVIOUS
      <4>5. stamp' \in [Process -> Second]  BY <4>3, SecondZero DEF AuditTypeOK
      <4>6. doomed' \in [Process -> SUBSET Second]  BY <4>3, <4>4 DEF AuditTypeOK
      <4> QED BY <4>2, <4>5, <4>6 DEF AuditTypeOK
    <3> QED BY <3>1, <3>2
  <2> QED BY <1>4, <1>5, <2>1, <2>2, <2>3, <2>4, <2>5 DEF AuditTypeOK
<1> QED BY <1>6, <1>7

(* Opening the log, at first or after a rotation, keeps them.              *)
LEMMA OpenType ==
    ASSUME AuditTypeOK, CountInv, NEW p \in Process, Open(p) \/ Reopen(p)
    PROVE  AuditTypeOK' /\ CountInv'
<1> USE DEF dirVars, rotateVars, keyVars, ghostVars
<1>1. OpenPath(p) /\ UNCHANGED <<template, clock, rotateVars, keyVars, ghostVars>>
  BY DEF Open, Reopen
<1>2. /\ files' \in Seq(LogFile) /\ rotated' = rotated
      /\ live' \in 0..Len(files')
      /\ handle' = [handle EXCEPT ![p] = live']
      /\ Len(files') \in {Len(files), Len(files) + 1}
  BY <1>1, PathOpened
<1>3. 0..Len(files) \subseteq 0..Len(files')  BY <1>2, FilesDomain
<1>4. /\ handle' \in [Process -> 0..Len(files')] /\ rotated' \in [Second -> 0..Len(files')]
  BY <1>2, <1>3 DEF AuditTypeOK
<1>5. size' \in [Process -> Nat]
  <2>1. live # NoFile => Len(files[live].lines) \in Nat
    BY FilesDomain DEF AuditTypeOK, NoFile
  <2> DEFINE n == IF live = NoFile THEN 0 ELSE Len(files[live].lines)
  <2>2. n \in Nat  BY <2>1
  <2>3. size' = [size EXCEPT ![p] = n] \/ size' = [size EXCEPT ![p] = 0]  BY DEF Open, Reopen
  <2> HIDE DEF n
  <2>4. PICK m \in Nat : size' = [size EXCEPT ![p] = m]  BY <2>2, <2>3
  <2> QED BY <2>4 DEF AuditTypeOK
<1>6. /\ server' \in [Process -> ServerStep]
      /\ \A q \in Process : server'[q] # "down" => server[q] # "down"
  <2>1. {"up", "writing"} \subseteq ServerStep  BY DEF ServerStep
  <2> QED BY <2>1 DEF Open, Reopen, At, AuditTypeOK
<1>7. AuditTypeOK'  BY <1>1, <1>2, <1>4, <1>5, <1>6 DEF AuditTypeOK
<1>8. CountInv'  BY <1>1, LinesOpened DEF CountInv, LineKeys
<1> QED BY <1>7, <1>8

(* So does a rotation.                                                     *)
LEMMA RotateType ==
    ASSUME AuditTypeOK, CountInv, NEW p \in Process,
           \/ CloseFull(p) \/ Rename(p) \/ RenameCollides(p) \/ List(p) \/ RemoveOld(p)
           \/ RotateFails(p)
    PROVE  AuditTypeOK' /\ CountInv'
<1> USE DEF dirVars, rotateVars, keyVars, ghostVars
<1>1. NoFile \in 0..Len(files)  BY FilesDomain DEF NoFile
<1>2. /\ UNCHANGED <<template, clock, size, keyVars, begun, kept>>
      /\ handle' \in [Process -> 0..Len(files)]
      /\ collided' \in SUBSET Process /\ faulted' \in SUBSET Process
  BY <1>1 DEF CloseFull, Rename, RenameCollides, List, RemoveOld, RotateFails, AuditTypeOK
<1>3. /\ server' \in [Process -> ServerStep]
      /\ \A q \in Process : server'[q] # "down" => server[q] # "down"
  <2>1. CASE RemoveOld(p)  BY <2>1 DEF RemoveOld, AuditTypeOK
  <2>2. CASE ~RemoveOld(p)
    <3>1. {"rotating", "renamed", "dead", "pruning"} \subseteq ServerStep  BY DEF ServerStep
    <3>2. PICK s \in ServerStep : s # "down" /\ server' = [server EXCEPT ![p] = s]
      BY <2>2, <3>1 DEF CloseFull, Rename, RenameCollides, List, RotateFails, At
    <3>3. server[p] # "down"
      BY <2>2 DEF CloseFull, Rename, RenameCollides, List, RotateFails, At
    <3> QED BY <3>2, <3>3 DEF AuditTypeOK
  <2> QED BY <2>1, <2>2
<1>4. /\ files' \in Seq(LogFile) /\ Len(files') = Len(files)
      /\ live' \in 0..Len(files) /\ rotated' \in [Second -> 0..Len(files)]
      /\ LineKeys' = LineKeys
  <2>1. CASE Rename(p)
    <3>1. live' \in 0..Len(files)  BY <1>1, <2>1 DEF Rename
    <3>2. rotated' \in [Second -> 0..Len(files)]  BY <2>1 DEF Rename, AuditTypeOK
    <3> QED BY <2>1, <3>1, <3>2, FilesRenamed, LinesRenamed DEF LineKeys
  <2>2. CASE RemoveOld(p)
    <3>1. PICK t \in doomed[p] :
             \E f \in {NoFile, rotated[t]} : rotated' = [rotated EXCEPT ![t] = f]
      BY <2>2 DEF RemoveOld
    <3>2. rotated' \in [Second -> 0..Len(files)]  BY <1>1, <3>1 DEF AuditTypeOK
    <3>3. files' = files /\ live' = live  BY <2>2 DEF RemoveOld
    <3> QED BY <3>2, <3>3 DEF AuditTypeOK, LineKeys, Lines
  <2>3. CASE CloseFull(p) \/ RenameCollides(p) \/ List(p) \/ RotateFails(p)
    <3>1. files' = files /\ live' = live /\ rotated' = rotated
      BY <2>3 DEF CloseFull, RenameCollides, List, RotateFails
    <3> QED BY <3>1 DEF AuditTypeOK, LineKeys, Lines
  <2> QED BY <2>1, <2>2, <2>3
<1>5. stamp' \in [Process -> Second] /\ doomed' \in [Process -> SUBSET Second]
  <2>1. stamp' \in [Process -> Second]
    BY SecondZero
    DEF CloseFull, Rename, RenameCollides, List, RemoveOld, RotateFails, AuditTypeOK
  <2>2. Old \in SUBSET Second  BY DEF Old
  <2>3. doomed' \in [Process -> SUBSET Second]
    <3>1. CASE List(p)  BY <2>2, <3>1 DEF List, AuditTypeOK
    <3>2. CASE RemoveOld(p)
      <4>1. PICK t \in doomed[p] : doomed' = [doomed EXCEPT ![p] = doomed[p] \ {t}]
        BY <3>2 DEF RemoveOld
      <4>2. doomed[p] \ {t} \in SUBSET Second  BY DEF AuditTypeOK
      <4> QED BY <4>1, <4>2 DEF AuditTypeOK
    <3>3. CASE CloseFull(p) \/ Rename(p) \/ RenameCollides(p) \/ RotateFails(p)
      BY <3>3 DEF CloseFull, Rename, RenameCollides, RotateFails, AuditTypeOK
    <3> QED BY <3>1, <3>2, <3>3
  <2> QED BY <2>1, <2>3
<1>6. AuditTypeOK'  BY <1>2, <1>3, <1>4, <1>5 DEF AuditTypeOK
<1>7. CountInv'  BY <1>2, <1>4 DEF CountInv
<1> QED BY <1>6, <1>7

(* And the start of a server, which has a key from then on, and its end.   *)
LEMMA LifeType ==
    ASSUME AuditTypeOK, CountInv, NEW p \in Process,
           Start(p) \/ Truncate(p) \/ Store(p) \/ Stop(p)
    PROVE  AuditTypeOK' /\ CountInv'
<1> USE DEF dirVars, rotateVars, keyVars, ghostVars
<1>1. {"minting", "storing", "opening", "down"} \subseteq ServerStep  BY DEF ServerStep
<1>2. NewKey \in Key /\ NoKey \notin Key  BY NewKeyNew DEF Key, NoKey
<1>3. NoFile \in 0..Len(files)  BY FilesDomain DEF NoFile
<1>4. UNCHANGED <<template, clock, dirVars, begun, kept>>
  BY DEF Start, Truncate, Store, Stop, Gone
<1>5. CountInv'  BY <1>4 DEF CountInv, LineKeys, Lines
<1>6. /\ handle' \in [Process -> 0..Len(files)] /\ size' \in [Process -> Nat]
      /\ collided' \in SUBSET Process /\ faulted' \in SUBSET Process
      /\ stamp' \in [Process -> Second] /\ doomed' \in [Process -> SUBSET Second]
  <2>1. CASE Start(p) \/ Truncate(p) \/ Store(p)
    BY <2>1 DEF Start, Truncate, Store, AuditTypeOK
  <2>2. CASE Stop(p)
    <3>1. handle' = [handle EXCEPT ![p] = NoFile] /\ size' = [size EXCEPT ![p] = 0]
      BY <2>2 DEF Stop, Gone
    <3> QED BY <1>3, <2>2, <3>1, SecondZero DEF Stop, Gone, AuditTypeOK
  <2> QED BY <2>1, <2>2
<1>7. server' \in [Process -> ServerStep]
  BY <1>1 DEF Start, Truncate, Store, Stop, Gone, At, AuditTypeOK
<1>8. /\ key' \in [Process -> {NoKey} \cup Key] /\ keyFile' \in {NoKey, Partial} \cup Key
      /\ \A q \in Process : server'[q] # "down" => key'[q] # NoKey
  <2>1. CASE Start(p)
    <3>1. PICK k \in Key : key' = [key EXCEPT ![p] = k]  BY <1>2, <2>1 DEF Start
    <3>2. keyFile' = keyFile /\ \A q \in Process : q # p => server'[q] = server[q]
      BY <2>1 DEF Start, AuditTypeOK
    <3> QED BY <1>2, <3>1, <3>2 DEF AuditTypeOK
  <2>2. CASE Truncate(p) \/ Store(p)
    <3>1. key' = key /\ server[p] # "down" /\ \A q \in Process : q # p => server'[q] = server[q]
      BY <2>2 DEF Truncate, Store, At, AuditTypeOK
    <3> QED BY <2>2, <3>1 DEF Truncate, Store, AuditTypeOK
  <2>3. CASE Stop(p)  BY <2>3 DEF Stop, Gone, AuditTypeOK
  <2> QED BY <2>1, <2>2, <2>3
<1>9. twoKeys' \in BOOLEAN
  <2>1. \A a \in BOOLEAN : \A b, c : (a \/ b \/ c) \in BOOLEAN  OBVIOUS
  <2> QED BY <2>1 DEF Start, Truncate, Store, Stop, Gone, AuditTypeOK
<1> QED BY <1>4, <1>5, <1>6, <1>7, <1>8, <1>9 DEF AuditTypeOK

(* Every step keeps the types.                                             *)
LEMMA AuditNextType ==
    AuditTypeOK /\ CountInv /\ [AuditNext]_auditVars => AuditTypeOK' /\ CountInv'
<1> SUFFICES ASSUME AuditTypeOK, CountInv, [AuditNext]_auditVars PROVE AuditTypeOK' /\ CountInv'
  OBVIOUS
<1> USE DEF dirVars, rotateVars, keyVars, ghostVars
<1>1. CASE UNCHANGED auditVars
  BY <1>1 DEF auditVars, AuditTypeOK, CountInv, LineKeys, Lines
<1>2. CASE Tick
  <2>1. clock' \in Second  BY <1>2, AuditAssumption DEF Tick, Second, AuditTypeOK
  <2> QED BY <1>2, <2>1 DEF Tick, AuditTypeOK, CountInv, LineKeys, Lines
<1>3. ASSUME NEW p \in Process, ~UNCHANGED auditVars, ~Tick, AuditNext
      PROVE  AuditTypeOK' /\ CountInv'
  <2>1. \E q \in Process :
            \/ Start(q) \/ Truncate(q) \/ Store(q) \/ Open(q)
            \/ WriteEntry(q) \/ EntryFails(q)
            \/ CloseFull(q) \/ Rename(q) \/ RenameCollides(q)
            \/ List(q) \/ RemoveOld(q) \/ Reopen(q) \/ RotateFails(q)
            \/ Stop(q) \/ StopInWrite(q)
    BY <1>3 DEF AuditNext
  <2> QED BY <2>1, WriteType, OpenType, RotateType, LifeType
<1> QED BY <1>1, <1>2, <1>3, AuditAssumption

(* Every variable keeps to its type; handles and names lead to files that  *)
(* exist, a server that is up has a key, and what was kept was begun.      *)
THEOREM AuditTypeCorrect == AuditSpec => []AuditTypeOK
<1>1. AuditInit => AuditTypeOK /\ CountInv
  <2> SUFFICES ASSUME AuditInit PROVE AuditTypeOK /\ CountInv  OBVIOUS
  <2>1. << >> \in Seq(LogFile) /\ Len(<< >>) = 0 /\ DOMAIN << >> = {}  OBVIOUS
  <2>2. files = << >>  BY DEF AuditInit
  <2>3. LineKeys = {}  BY <2>1, <2>2 DEF LineKeys, Lines
  <2>4. CountInv  BY <2>3, FS_EmptySet DEF CountInv, AuditInit
  <2>5. 0 \in Second /\ 0 \in 0..MaxEntry /\ "down" \in ServerStep
    BY SecondZero, AuditAssumption DEF ServerStep
  <2>6. files \in Seq(LogFile) /\ Len(files) = 0  BY <2>1, <2>2
  <2>7. NoFile \in 0..Len(files)  BY <2>6 DEF NoFile
  <2>8. /\ rotated \in [Second -> 0..Len(files)] /\ handle \in [Process -> 0..Len(files)]
        /\ live \in 0..Len(files)
    BY <2>7 DEF AuditInit
  <2> HIDE DEF AuditInit
  <2>9. AuditTypeOK  BY <2>5, <2>6, <2>8 DEF AuditInit, AuditTypeOK
  <2> QED BY <2>4, <2>9
<1> QED BY <1>1, AuditNextType, PTL DEF AuditSpec
-----------------------------------------------------------------------------
(* Audit log: what is kept *)

(* A name of a rotated file that has n newer ones was given before n more  *)
(* renames, but for those that were there already.                         *)
AgeInv ==
    \A t \in Second : rotated[t] # NoFile =>
        /\ rotated[t] # live
        /\ files[rotated[t]].age > 0
        /\ files[rotated[t]].age + files[rotated[t]].ahead > Cardinality(Newer(t))

(* Whatever file has a name that is to be removed, enough newer ones stay. *)
DoomInv == \A p \in Process : \A t \in doomed[p] : Cardinality(Newer(t)) >= RetainFiles

(* A file that is lost otherwise than in one of the three ways.            *)
Lost(f) == ~(OnDisk(f) \/ files[f].age + files[f].ahead > RetainFiles \/ files[f].clobbered)

(* There is none.                                                          *)
StaysInv == \A f \in DOMAIN files : ~Lost(f)

(* Every entry that was kept is a line of some file.                       *)
WrittenInv == \A n \in kept : \E line \in Lines : line.n = n

KeptInv == AgeInv /\ DoomInv /\ StaysInv /\ WrittenInv

(* Steps that touch no file and doom no name.                              *)
LEMMA KeptAlone ==
    ASSUME KeptInv, UNCHANGED <<dirVars, kept>>,
           \A p \in Process : doomed'[p] \subseteq doomed[p]
    PROVE  KeptInv'
<1> USE DEF dirVars
<1>1. \A t \in Second : Newer(t)' = Newer(t)  BY DEF Newer
<1>2. AgeInv'  BY <1>1 DEF KeptInv, AgeInv
<1>3. DoomInv'
  <2>1. \A t : Newer(t)' = Newer(t)  BY DEF Newer
  <2> QED BY <2>1 DEF KeptInv, DoomInv
<1>4. StaysInv' /\ WrittenInv'  BY DEF KeptInv, StaysInv, Lost, WrittenInv, OnDisk, Lines
<1> QED BY <1>2, <1>3, <1>4 DEF KeptInv

(* A line that is written is in its file from then on, and so is what was. *)
LEMMA KeptWrite ==
    ASSUME AuditTypeOK, KeptInv, NEW p \in Process,
           WriteEntry(p) \/ EntryFails(p) \/ StopInWrite(p)
    PROVE  KeptInv'
<1> USE DEF dirVars, rotateVars, keyVars, ghostVars
<1>1. MayWrite(p)  BY DEF WriteEntry, EntryFails, StopInWrite
<1>2. PICK line \in Line : /\ AppendLine(p, line)
                           /\ kept' = kept \/ (kept' = kept \cup {begun + 1} /\ line.n = begun + 1)
  <2>1. WriteEntry(p) => EntryOf(p).n = begun + 1  BY DEF EntryOf
  <2> QED BY <1>1, <2>1, EntryType DEF WriteEntry, EntryFails, StopInWrite, Gone
<1>3. handle[p] # NoFile  BY <1>1, EntryType
<1>4. UNCHANGED <<live, rotated>> /\ \A q \in Process : doomed'[q] \subseteq doomed[q]
  BY DEF WriteEntry, EntryFails, StopInWrite, Gone, AuditTypeOK
<1> DEFINE h == handle[p]
           n == Len(files[h].lines)
<1>5. /\ DOMAIN files' = DOMAIN files /\ h \in DOMAIN files
      /\ \A f \in DOMAIN files : /\ files'[f].age = files[f].age
                                 /\ files'[f].ahead = files[f].ahead
                                 /\ files'[f].clobbered = files[f].clobbered
                                 /\ f # h => files'[f] = files[f]
      /\ files'[h].lines = Append(files[h].lines, line)
  BY <1>2, <1>3, LineAdded
<1>6. AgeInv'
  <2>1. \A t \in Second : Newer(t)' = Newer(t)  BY <1>4 DEF Newer
  <2>2. \A t \in Second : rotated[t] # NoFile => rotated[t] \in DOMAIN files
    BY FilesDomain DEF AuditTypeOK, NoFile
  <2> QED BY <1>4, <1>5, <2>1, <2>2 DEF KeptInv, AgeInv
<1>7. StaysInv'  BY <1>4, <1>5 DEF KeptInv, StaysInv, Lost, OnDisk
<1>8. WrittenInv'  BY <1>2, <1>3, LinesAdded DEF KeptInv, WrittenInv
<1>9. DoomInv'
  <2>1. \A t : Newer(t)' = Newer(t)  BY <1>4 DEF Newer
  <2> QED BY <1>4, <2>1 DEF KeptInv, DoomInv
<1> QED BY <1>6, <1>7, <1>8, <1>9 DEF KeptInv

(* A file that is opened has its name.                                     *)
LEMMA KeptOpen ==
    ASSUME AuditTypeOK, KeptInv, NEW p \in Process, OpenPath(p), UNCHANGED <<doomed, kept>>
    PROVE  KeptInv'
<1>1. CASE files' = files /\ live' = live
  <2>1. UNCHANGED <<dirVars, kept>>  BY <1>1, PathOpened DEF dirVars
  <2> QED BY <2>1, KeptAlone
<1>2. CASE /\ live = NoFile /\ live' = Len(files) + 1
           /\ DOMAIN files' = DOMAIN files \cup {Len(files) + 1}
           /\ \A f \in DOMAIN files : files'[f] = files[f]
  <2>1. rotated' = rotated  BY PathOpened
  <2>2. \A t : Newer(t)' = Newer(t)  BY <2>1 DEF Newer
  <2>3. \A t \in Second : rotated[t] # NoFile =>
           rotated[t] \in DOMAIN files /\ rotated[t] # live'
    BY <1>2, FilesDomain DEF AuditTypeOK, NoFile
  <2>4. AgeInv'  BY <1>2, <2>1, <2>2, <2>3 DEF KeptInv, AgeInv
  <2>5. NoFile \notin DOMAIN files  BY FilesDomain DEF NoFile
  <2>6. StaysInv'  BY <1>2, <2>1, <2>5 DEF KeptInv, StaysInv, Lost, OnDisk
  <2>7. WrittenInv'  BY LinesOpened DEF KeptInv, WrittenInv
  <2>8. DoomInv'  BY <2>2 DEF KeptInv, DoomInv
  <2> QED BY <2>4, <2>6, <2>7, <2>8 DEF KeptInv
<1> QED BY <1>1, <1>2, PathOpened

(* A rename gives the live file a name, with as many ahead of it as are    *)
(* there, and makes every file that has a name older by one.               *)
LEMMA KeptRename ==
    ASSUME AuditTypeOK, KeptInv, NEW p \in Process, Rename(p)
    PROVE  KeptInv'
<1> DEFINE now == stamp[p]
           old == rotated[now]
<1>1. /\ live # NoFile /\ live' = NoFile /\ UNCHANGED <<doomed, kept>>
      /\ rotated' = [rotated EXCEPT ![now] = live]
  BY DEF Rename, ghostVars
<1>2. /\ DOMAIN files' = DOMAIN files
      /\ \A f \in DOMAIN files :
             /\ files'[f].lines = files[f].lines
             /\ files'[f].age = IF f = live \/ files[f].age > 0 THEN files[f].age + 1
                                ELSE files[f].age
             /\ files'[f].ahead = IF f = live THEN Cardinality(Newer(now)) ELSE files[f].ahead
             /\ files'[f].clobbered = (files[f].clobbered \/ f = old)
  BY FilesRenamed
<1>3. now \in Second /\ live \in DOMAIN files
  BY <1>1, FilesDomain DEF AuditTypeOK, NoFile
<1>4. \A f \in DOMAIN files : files[f].age \in Nat /\ files[f].ahead \in Nat
  BY FilesDomain DEF LogFile
<1> HIDE DEF now
<1>5. \A t \in Second : rotated'[t] = IF t = now THEN live ELSE rotated[t]
  BY <1>1, <1>3 DEF AuditTypeOK
<1>6. \A t \in Second : t \in Nat  BY AuditAssumption DEF Second
<1>7. ASSUME NEW t \in Second, rotated'[t] # NoFile
      PROVE  /\ rotated'[t] # live'
             /\ files'[rotated'[t]].age > 0
             /\ files'[rotated'[t]].age + files'[rotated'[t]].ahead > Cardinality(Newer(t)')
  <2>1. CASE t = now
    <3>1. Newer(t)' = Newer(now)  BY <1>3, <1>5, <1>6, <2>1 DEF Newer
    <3>2. Cardinality(Newer(now)) \in Nat  BY <1>3, NewerFinite
    <3>3. files'[live].age = files[live].age + 1 /\ files'[live].ahead = Cardinality(Newer(now))
      BY <1>2, <1>3
    <3> QED BY <1>1, <1>3, <1>4, <1>5, <2>1, <3>1, <3>2, <3>3
  <2>2. CASE t # now
    <3> DEFINE f == rotated[t]
    <3>1. rotated'[t] = f /\ f # NoFile  BY <1>5, <1>7, <2>2
    <3>2. f \in DOMAIN files  BY <3>1, FilesDomain DEF AuditTypeOK, NoFile
    <3>3. f # live /\ files[f].age > 0 /\ files[f].age + files[f].ahead > Cardinality(Newer(t))
      BY <3>1 DEF KeptInv, AgeInv
    <3>4. IsFiniteSet(Newer(t)) /\ Cardinality(Newer(t)) \in Nat  BY NewerFinite
    <3>5. files[f].age \in Nat /\ files[f].ahead \in Nat  BY <1>4, <3>2
    <3> HIDE DEF f
    <3>6. files'[f].age = files[f].age + 1 /\ files'[f].ahead = files[f].ahead
      BY <1>2, <3>2, <3>3
    <3>7. Newer(t)' \in SUBSET (Newer(t) \cup {now})  BY <1>5 DEF Newer
    <3>8. /\ IsFiniteSet(Newer(t) \cup {now})
          /\ Cardinality(Newer(t) \cup {now})
               = IF now \in Newer(t) THEN Cardinality(Newer(t)) ELSE Cardinality(Newer(t)) + 1
      BY <3>4, FS_AddElement
    <3>9. /\ IsFiniteSet(Newer(t)')
          /\ Cardinality(Newer(t)') <= Cardinality(Newer(t) \cup {now})
      BY <3>7, <3>8, FS_Subset
    <3>10. Cardinality(Newer(t)') \in Nat  BY <3>9, FS_CardinalityType
    <3>11. Cardinality(Newer(t)') <= Cardinality(Newer(t)) + 1
      BY <3>4, <3>8, <3>9, <3>10
    <3> QED BY <1>1, <3>1, <3>3, <3>4, <3>5, <3>6, <3>10, <3>11
  <2> QED BY <2>1, <2>2
<1>8. AgeInv'  BY <1>7 DEF AgeInv
<1>9. StaysInv'
  <2> SUFFICES ASSUME NEW f \in DOMAIN files  PROVE ~Lost(f)'
    BY <1>2 DEF StaysInv
  <2>1. CASE f = live  BY <1>3, <1>5, <2>1 DEF Lost, OnDisk
  <2>2. CASE f # live /\ \E t \in Second : rotated[t] = f
    <3>1. PICK t \in Second : rotated[t] = f  BY <2>2
    <3>2. CASE t = now  BY <1>2, <3>1, <3>2 DEF Lost
    <3>3. CASE t # now
      <4>1. rotated'[t] = f  BY <1>5, <3>1, <3>3
      <4> QED BY <4>1 DEF Lost, OnDisk
    <3> QED BY <3>2, <3>3
  <2>3. CASE f # live /\ ~\E t \in Second : rotated[t] = f
    <3>1. files[f].age + files[f].ahead > RetainFiles \/ files[f].clobbered
      BY <2>3 DEF KeptInv, StaysInv, Lost, OnDisk
    <3>2. /\ files'[f].age >= files[f].age /\ files'[f].age \in Nat
          /\ files'[f].ahead = files[f].ahead
      BY <1>2, <1>4, <2>3
    <3>3. files[f].clobbered => files'[f].clobbered  BY <1>2
    <3> QED BY <1>4, <3>1, <3>2, <3>3, AuditAssumption DEF Lost
  <2> QED BY <2>1, <2>2, <2>3
<1>10. WrittenInv'  BY <1>1, LinesRenamed DEF KeptInv, WrittenInv
<1>11. DoomInv'
  <2> SUFFICES ASSUME NEW q \in Process, NEW t \in doomed[q]
               PROVE  Cardinality(Newer(t)') >= RetainFiles
    BY <1>1 DEF DoomInv
  <2>1. t \in Second /\ Cardinality(Newer(t)) >= RetainFiles
    BY DEF KeptInv, DoomInv, AuditTypeOK
  <2>2. Newer(t) \in SUBSET Newer(t)'  BY <1>1, <1>5 DEF Newer
  <2>3. IsFiniteSet(Newer(t)') /\ Cardinality(Newer(t)') \in Nat
    <3>1. Newer(t)' \in SUBSET (Newer(t) \cup {now})  BY <1>5 DEF Newer
    <3>2. IsFiniteSet(Newer(t) \cup {now})  BY <2>1, NewerFinite, FS_AddElement
    <3>3. IsFiniteSet(Newer(t)')  BY <3>1, <3>2, FS_Subset
    <3> QED BY <3>3, FS_CardinalityType
  <2>4. Cardinality(Newer(t)) <= Cardinality(Newer(t)')  BY <2>2, <2>3, FS_Subset
  <2> QED BY <2>1, <2>3, <2>4, NewerFinite, AuditAssumption
<1> QED BY <1>8, <1>9, <1>10, <1>11 DEF KeptInv

(* The names that are listed as old have enough newer ones.                *)
LEMMA KeptList ==
    ASSUME AuditTypeOK, KeptInv, NEW p \in Process, List(p)
    PROVE  KeptInv'
<1> USE DEF dirVars, ghostVars
<1>1. UNCHANGED <<dirVars, kept>> /\ doomed' = [doomed EXCEPT ![p] = Old]  BY DEF List
<1>2. \A t : Newer(t)' = Newer(t)  BY <1>1 DEF Newer
<1>3. AgeInv' /\ StaysInv' /\ WrittenInv'
  BY <1>1, <1>2 DEF KeptInv, AgeInv, StaysInv, Lost, WrittenInv, OnDisk, Lines
<1>4. DoomInv'
  <2>1. \A q \in Process : doomed'[q] = IF q = p THEN Old ELSE doomed[q]
    BY <1>1 DEF AuditTypeOK
  <2>2. \A t \in Old : Cardinality(Newer(t)) >= RetainFiles  BY DEF Old
  <2> QED BY <1>2, <2>1, <2>2 DEF KeptInv, DoomInv
<1> QED BY <1>3, <1>4 DEF KeptInv

(* A name that is removed takes a newer one from no name but those that    *)
(* have one more, and its file is lost to those that came after it.        *)
LEMMA KeptRemove ==
    ASSUME AuditTypeOK, KeptInv, NEW p \in Process, RemoveOld(p)
    PROVE  KeptInv'
<1>1. PICK t \in doomed[p] :
         /\ doomed' = [doomed EXCEPT ![p] = doomed[p] \ {t}]
         /\ rotated' = rotated \/ rotated' = [rotated EXCEPT ![t] = NoFile]
  <2>1. PICK t \in doomed[p] : /\ doomed' = [doomed EXCEPT ![p] = doomed[p] \ {t}]
                               /\ \E f \in {NoFile, rotated[t]} :
                                     rotated' = [rotated EXCEPT ![t] = f]
    BY DEF RemoveOld
  <2>2. [rotated EXCEPT ![t] = rotated[t]] = rotated  BY DEF AuditTypeOK
  <2> QED BY <2>1, <2>2
<1>2. UNCHANGED <<live, files, kept>>  BY DEF RemoveOld, ghostVars
<1>3. \A q \in Process : doomed'[q] \subseteq doomed[q]  BY <1>1 DEF AuditTypeOK
<1>4. CASE rotated' = rotated
  BY <1>2, <1>3, <1>4, KeptAlone DEF dirVars
<1>5. CASE rotated' = [rotated EXCEPT ![t] = NoFile]
  <2>1. t \in Second /\ Cardinality(Newer(t)) >= RetainFiles
    BY DEF KeptInv, DoomInv, AuditTypeOK
  <2>2. \A u \in Second : rotated'[u] = IF u = t THEN NoFile ELSE rotated[u]
    BY <1>5 DEF AuditTypeOK
  <2>3. \A u \in Second : Newer(u)' = Newer(u) \ {t}  BY <2>1, <2>2 DEF Newer
  <2>4. ASSUME NEW u \in Second
        PROVE  /\ Cardinality(Newer(u)') \in Nat
               /\ Cardinality(Newer(u)') <= Cardinality(Newer(u))
    <3>1. Newer(u)' \in SUBSET Newer(u) /\ IsFiniteSet(Newer(u))  BY <2>3, NewerFinite
    <3>2. IsFiniteSet(Newer(u)') /\ Cardinality(Newer(u)') <= Cardinality(Newer(u))
      BY <3>1, FS_Subset
    <3> QED BY <3>2, FS_CardinalityType
  <2>5. AgeInv'
    <3> SUFFICES ASSUME NEW u \in Second, rotated'[u] # NoFile
                 PROVE  /\ rotated'[u] # live'
                        /\ files'[rotated'[u]].age > 0
                        /\ files'[rotated'[u]].age + files'[rotated'[u]].ahead
                              > Cardinality(Newer(u)')
      BY DEF AgeInv
    <3>1. rotated'[u] = rotated[u]  BY <2>2
    <3>2. rotated[u] \in DOMAIN files
      BY <3>1, FilesDomain DEF AuditTypeOK, NoFile
    <3>3. files[rotated[u]].age \in Nat /\ files[rotated[u]].ahead \in Nat
      BY <3>2, FilesDomain DEF LogFile
    <3>4. /\ rotated[u] # live /\ files[rotated[u]].age > 0
          /\ files[rotated[u]].age + files[rotated[u]].ahead > Cardinality(Newer(u))
      BY <3>1 DEF KeptInv, AgeInv
    <3> QED BY <1>2, <2>4, <3>1, <3>3, <3>4, NewerFinite
  <2>6. StaysInv'
    <3> SUFFICES ASSUME NEW f \in DOMAIN files  PROVE ~Lost(f)'
      BY <1>2 DEF StaysInv
    <3>1. CASE rotated[t] = f
      <4>1. /\ f # NoFile /\ files[f].age \in Nat /\ files[f].ahead \in Nat
        BY FilesDomain DEF NoFile, LogFile
      <4>2. files[f].age + files[f].ahead > Cardinality(Newer(t))
        BY <2>1, <3>1, <4>1 DEF KeptInv, AgeInv
      <4>3. Cardinality(Newer(t)) \in Nat  BY <2>1, NewerFinite
      <4>4. files[f].age + files[f].ahead > RetainFiles
        BY <2>1, <4>1, <4>2, <4>3, AuditAssumption
      <4> QED BY <1>2, <4>4 DEF Lost
    <3>2. CASE rotated[t] # f
      <4>1. OnDisk(f) => OnDisk(f)'  BY <1>2, <2>2, <3>2 DEF OnDisk
      <4> QED BY <1>2, <4>1 DEF KeptInv, StaysInv, Lost
    <3> QED BY <3>1, <3>2
  <2>7. DoomInv'
    <3> SUFFICES ASSUME NEW q \in Process, NEW u \in doomed[q]
                 PROVE  Cardinality(Newer(u)') >= RetainFiles
      BY <1>3 DEF DoomInv
    <3>1. u \in Second /\ Cardinality(Newer(u)) >= RetainFiles
      BY DEF KeptInv, DoomInv, AuditTypeOK
    <3>2. CASE t \notin Newer(u)  BY <2>3, <3>1, <3>2
    <3>3. CASE t \in Newer(u)
      <4>1. Newer(t) \in SUBSET Newer(u)'
        <5>1. \A v \in Second : v \in Nat  BY AuditAssumption DEF Second
        <5> QED BY <2>1, <2>3, <3>1, <3>3, <5>1 DEF Newer
      <4>2. IsFiniteSet(Newer(u)')  BY <2>3, <3>1, NewerFinite, FS_Subset
      <4>3. Cardinality(Newer(t)) <= Cardinality(Newer(u)')  BY <4>1, <4>2, FS_Subset
      <4> QED BY <2>1, <2>4, <3>1, <4>3, NewerFinite, AuditAssumption
    <3> QED BY <3>2, <3>3
  <2>8. WrittenInv'  BY <1>2 DEF KeptInv, WrittenInv, Lines
  <2> QED BY <2>5, <2>6, <2>7, <2>8 DEF KeptInv
<1> QED BY <1>1, <1>4, <1>5

(* Every step keeps all of it.                                             *)
LEMMA KeptNext == AuditTypeOK /\ KeptInv /\ [AuditNext]_auditVars => KeptInv'
<1> SUFFICES ASSUME AuditTypeOK, KeptInv, [AuditNext]_auditVars PROVE KeptInv'  OBVIOUS
<1> USE DEF dirVars, rotateVars, keyVars, ghostVars
<1>1. CASE UNCHANGED auditVars \/ Tick
  BY <1>1, KeptAlone DEF auditVars, Tick
<1>2. ASSUME NEW p \in Process,
             \/ Start(p) \/ Truncate(p) \/ Store(p) \/ CloseFull(p) \/ RenameCollides(p)
             \/ RotateFails(p) \/ Stop(p)
      PROVE  KeptInv'
  <2>1. UNCHANGED <<dirVars, kept>> /\ \A q \in Process : doomed'[q] \subseteq doomed[q]
    BY <1>2 DEF Start, Truncate, Store, CloseFull, RenameCollides, RotateFails, Stop, Gone,
                AuditTypeOK
  <2> QED BY <2>1, KeptAlone
<1>3. ASSUME NEW p \in Process, Open(p) \/ Reopen(p)  PROVE KeptInv'
  <2>1. OpenPath(p) /\ UNCHANGED <<doomed, kept>>  BY <1>3 DEF Open, Reopen
  <2> QED BY <2>1, KeptOpen
<1>4. ASSUME NEW p \in Process, WriteEntry(p) \/ EntryFails(p) \/ StopInWrite(p)
      PROVE  KeptInv'
  BY <1>4, KeptWrite
<1>5. ASSUME NEW p \in Process, Rename(p) \/ List(p) \/ RemoveOld(p)  PROVE KeptInv'
  BY <1>5, KeptRename, KeptList, KeptRemove
<1> QED BY <1>1, <1>2, <1>3, <1>4, <1>5 DEF AuditNext

(* An entry whose Write returned nil is in a file of the log until more    *)
(* than retain_files rotations have come after it, with any number of      *)
(* servers that rotate and prune without a lock between them, but for a    *)
(* file that another is renamed onto and one that is renamed late.         *)
THEOREM KeptCorrect == AuditSpec => []AckedKept
<1>1. AuditInit => KeptInv
  <2> SUFFICES ASSUME AuditInit PROVE KeptInv  OBVIOUS
  <2>1. AgeInv /\ DoomInv /\ WrittenInv  BY DEF AuditInit, AgeInv, DoomInv, WrittenInv
  <2>2. DOMAIN files = {}  BY DEF AuditInit
  <2> QED BY <2>1, <2>2 DEF KeptInv, StaysInv
<1>2. KeptInv => AckedKept
  BY DEF KeptInv, WrittenInv, StaysInv, Lost, Lines, AckedKept
<1> QED BY <1>1, <1>2, AuditTypeCorrect, KeptNext, PTL DEF AuditSpec
-----------------------------------------------------------------------------
(* Audit log: who goes on auditing *)

(* What a server does that has the log open, or is between its closing and *)
(* the rename.                                                             *)
HasOpen == {"up", "rotating", "writing"}

(* While path has no file, there is a server that did not run into         *)
(* another's rotation and will not: the one that renamed it, or one that   *)
(* was stopped or failed since.                                            *)
SilenceInv ==
    /\ \A p \in collided : server[p] = "dead"
    /\ live = NoFile => \E q \in Process \ collided : server[q] \notin HasOpen
    /\ AuditsOn

(* A step of one server, which opens no log and closes none: the others    *)
(* are where they were.                                                    *)
LEMMA SilenceStep ==
    ASSUME AuditTypeOK, SilenceInv, NEW p \in Process, NEW s \in ServerStep,
           server' = [server EXCEPT ![p] = s],
           collided' = collided \ {p},
           \/ live' # NoFile
           \/ live' = NoFile /\ s \notin HasOpen
           \/ live' = live /\ server[p] \in HasOpen,
           s = "dead" => p \in faulted',
           \A q \in Process \ {p} : q \in faulted => q \in faulted'
    PROVE  SilenceInv'
<1>1. \A q \in Process : server'[q] = IF q = p THEN s ELSE server[q]  BY DEF AuditTypeOK
<1>2. \A q \in collided' : server'[q] = "dead"  BY <1>1 DEF SilenceInv, AuditTypeOK
<1>3. live' = NoFile => \E q \in Process \ collided' : server'[q] \notin HasOpen
  <2>1. CASE s \notin HasOpen  BY <1>1, <2>1
  <2>2. CASE live' = live /\ server[p] \in HasOpen
    <3> SUFFICES ASSUME live = NoFile
                 PROVE  \E q \in Process \ collided' : server'[q] \notin HasOpen
      BY <2>2
    <3>1. PICK q \in Process \ collided : server[q] \notin HasOpen  BY DEF SilenceInv
    <3> QED BY <1>1, <2>2, <3>1
  <2> QED BY <2>1, <2>2
<1>4. AuditsOn'
  <2>1. \A q \in Process : server'[q] = "dead" => q \in faulted' \cup collided'
    BY <1>1 DEF SilenceInv, AuditsOn
  <2>2. collided' # Process  OBVIOUS
  <2> QED BY <2>1, <2>2 DEF AuditsOn
<1> QED BY <1>2, <1>3, <1>4 DEF SilenceInv

(* A rotation that runs into another leaves one that did not.              *)
LEMMA SilenceCollides ==
    ASSUME AuditTypeOK, SilenceInv, NEW p \in Process, RenameCollides(p)
    PROVE  SilenceInv'
<1>1. /\ live = NoFile /\ live' = live /\ server[p] = "rotating" /\ faulted' = faulted
      /\ collided' = collided \cup {p}
      /\ \A q \in Process : server'[q] = IF q = p THEN "dead" ELSE server[q]
  BY DEF RenameCollides, At, dirVars, AuditTypeOK
<1>2. PICK q \in Process \ collided : server[q] \notin HasOpen  BY <1>1 DEF SilenceInv
<1>3. q # p  BY <1>1, <1>2 DEF HasOpen
<1>4. q \in Process \ collided' /\ server'[q] \notin HasOpen  BY <1>1, <1>2, <1>3
<1>5. \A r \in collided' : server'[r] = "dead"  BY <1>1 DEF SilenceInv, AuditTypeOK
<1>6. \A r \in Process : server'[r] = "dead" => r \in faulted' \cup collided'
  BY <1>1 DEF SilenceInv, AuditsOn
<1>7. AuditsOn'  BY <1>4, <1>6 DEF AuditsOn
<1> QED BY <1>4, <1>5, <1>7 DEF SilenceInv

(* Every step keeps it.                                                    *)
LEMMA SilenceNext == AuditTypeOK /\ SilenceInv /\ [AuditNext]_auditVars => SilenceInv'
<1> SUFFICES ASSUME AuditTypeOK, SilenceInv, [AuditNext]_auditVars PROVE SilenceInv'  OBVIOUS
<1> USE DEF dirVars, rotateVars, keyVars, ghostVars
<1>1. CASE UNCHANGED auditVars \/ Tick
  BY <1>1 DEF auditVars, Tick, SilenceInv, AuditsOn
<1>2. ASSUME NEW p \in Process, server[p] \notin {"dead"}  PROVE collided \ {p} = collided
  BY <1>2 DEF SilenceInv
<1>3. ASSUME NEW p \in Process, Start(p) \/ Truncate(p) \/ Store(p) \/ List(p)
      PROVE  SilenceInv'
  <2>1. /\ UNCHANGED <<live, faulted, collided>> /\ server[p] # "dead"
        /\ \E s \in ServerStep : /\ s \notin HasOpen \cup {"dead"}
                                 /\ server' = [server EXCEPT ![p] = s]
    BY <1>3 DEF Start, Truncate, Store, List, At, ServerStep, HasOpen
  <2>2. PICK s \in ServerStep : /\ s \notin HasOpen \cup {"dead"}
                                /\ server' = [server EXCEPT ![p] = s]
    BY <2>1
  <2>3. collided' = collided \ {p}  BY <1>2, <2>1
  <2>4. live' # NoFile \/ live' = NoFile  OBVIOUS
  <2> QED BY <2>1, <2>2, <2>3, <2>4, SilenceStep
<1>4. ASSUME NEW p \in Process, Open(p) \/ Reopen(p)  PROVE SilenceInv'
  <2>1. OpenPath(p) /\ UNCHANGED <<faulted, collided>> /\ server[p] # "dead"
    BY <1>4 DEF Open, Reopen, At
  <2>2. live' # NoFile  BY <2>1, PathOpened
  <2>3. PICK s \in ServerStep : s # "dead" /\ server' = [server EXCEPT ![p] = s]
    BY <1>4 DEF Open, Reopen, At, ServerStep
  <2>4. collided' = collided \ {p}  BY <1>2, <2>1
  <2> QED BY <2>1, <2>2, <2>3, <2>4, SilenceStep
<1>5. ASSUME NEW p \in Process, WriteEntry(p) \/ EntryFails(p) \/ CloseFull(p)
      PROVE  SilenceInv'
  <2>1. UNCHANGED <<live, faulted, collided>> /\ server[p] \in {"up", "writing"}
    BY <1>5 DEF WriteEntry, EntryFails, CloseFull, MayWrite, AppendLine, At
  <2>2. PICK s \in ServerStep : s # "dead" /\ server' = [server EXCEPT ![p] = s]
    BY <1>5 DEF WriteEntry, EntryFails, CloseFull, At, ServerStep
  <2>3. collided' = collided \ {p}  BY <1>2, <2>1
  <2>4. server[p] \in HasOpen  BY <2>1 DEF HasOpen
  <2> QED BY <2>1, <2>2, <2>3, <2>4, SilenceStep
<1>6. ASSUME NEW p \in Process, Rename(p)  PROVE SilenceInv'
  <2>1. /\ live' = NoFile /\ UNCHANGED <<faulted, collided>> /\ server[p] = "rotating"
        /\ server' = [server EXCEPT ![p] = "renamed"]
    BY <1>6 DEF Rename, At
  <2>2. "renamed" \in ServerStep /\ "renamed" \notin HasOpen  BY DEF ServerStep, HasOpen
  <2>3. collided' = collided \ {p}  BY <1>2, <2>1
  <2> QED BY <2>1, <2>2, <2>3, SilenceStep
<1>7. ASSUME NEW p \in Process, RotateFails(p)  PROVE SilenceInv'
  <2>1. /\ UNCHANGED <<live, collided>> /\ server[p] \in {"rotating", "pruning"}
        /\ faulted' = faulted \cup {p} /\ server' = [server EXCEPT ![p] = "dead"]
    BY <1>7 DEF RotateFails
  <2>2. "dead" \in ServerStep /\ "dead" \notin HasOpen  BY DEF ServerStep, HasOpen
  <2>3. collided' = collided \ {p}  BY <1>2, <2>1
  <2>4. live' # NoFile \/ live' = NoFile  OBVIOUS
  <2> QED BY <2>1, <2>2, <2>3, <2>4, SilenceStep
<1>8. ASSUME NEW p \in Process, Stop(p) \/ StopInWrite(p)  PROVE SilenceInv'
  <2>1. /\ live' = live /\ collided' = collided \ {p} /\ faulted' = faulted \ {p}
        /\ server' = [server EXCEPT ![p] = "down"]
    BY <1>8 DEF Stop, StopInWrite, Gone
  <2>2. "down" \in ServerStep /\ "down" \notin HasOpen /\ "down" # "dead"
    BY DEF ServerStep, HasOpen
  <2>3. live' # NoFile \/ live' = NoFile  OBVIOUS
  <2> QED BY <2>1, <2>2, <2>3, SilenceStep
<1>9. ASSUME NEW p \in Process, RenameCollides(p)  PROVE SilenceInv'
  BY <1>9, SilenceCollides
<1>10. ASSUME NEW p \in Process, RemoveOld(p)  PROVE SilenceInv'
  <2>1. UNCHANGED <<live, server, faulted, collided>>  BY <1>10 DEF RemoveOld
  <2> QED BY <2>1 DEF SilenceInv, AuditsOn
<1> QED BY <1>1, <1>3, <1>4, <1>5, <1>6, <1>7, <1>8, <1>9, <1>10 DEF AuditNext

(* However the rotations of any number of servers meet, they do not        *)
(* silence all of them, and one that is silent has met an I/O error or     *)
(* another's rotation.                                                     *)
THEOREM SilenceCorrect == AuditSpec => []AuditsOn
<1>1. AuditInit => SilenceInv
  <2> SUFFICES ASSUME AuditInit PROVE SilenceInv  OBVIOUS
  <2>1. PICK q \in Process : TRUE  BY AuditAssumption
  <2>2. /\ collided = {} /\ \A p \in Process : server[p] = "down"
    BY DEF AuditInit
  <2>3. "down" # "dead" /\ "down" \notin HasOpen  BY DEF HasOpen
  <2>4. AuditsOn  BY <2>1, <2>2, <2>3 DEF AuditsOn
  <2> QED BY <2>1, <2>2, <2>3, <2>4 DEF SilenceInv
<1>2. SilenceInv => AuditsOn  BY DEF SilenceInv
<1> QED BY <1>1, <1>2, AuditTypeCorrect, SilenceNext, PTL DEF AuditSpec
-----------------------------------------------------------------------------
(* Sequences that are joined *)

(* A set of numbers that is not empty has a least one.                     *)
LEMMA LeastNumber ==
    ASSUME NEW T \in SUBSET Nat, T # {}
    PROVE  \E m \in T : \A n \in T : m <= n
<1> DEFINE R == OpToRel(<, Nat)
<1>1. IsWellFoundedOn(R, Nat)  BY NatLessThanWellFounded
<1>2. \A m, n \in Nat : m < n => <<m, n>> \in R  BY DEF OpToRel
<1> HIDE DEF R
<1>3. PICK m \in T : \A n \in T : ~ (<<n, m>> \in R)  BY <1>1, WFMin
<1>4. \A n \in T : ~ (n < m)  BY <1>2, <1>3
<1>5. \A n \in T : n \in Nat /\ m \in Nat  OBVIOUS
<1> QED BY <1>4, <1>5

(* FlattenSeq joins the first sequences to the next, from the first on.    *)
LEMMA FlattenStep ==
    ASSUME NEW seqs, Len(seqs) \in Nat, Len(seqs) # 0
    PROVE  \E f : /\ f = [i \in 1..Len(seqs) |->
                              IF i = 1 THEN seqs[i] ELSE f[i - 1] \o seqs[i]]
                  /\ FlattenSeq(seqs) = f[Len(seqs)]
<1> DEFINE joined(f, i) == IF i = 1 THEN seqs[i] ELSE f[i - 1] \o seqs[i]
           Joins(n) == \E f : f = [i \in 1..n |-> joined(f, i)]
           T == {n \in Nat : ~Joins(n)}
           flatten[i \in 1..Len(seqs)] == IF i = 1 THEN seqs[i] ELSE flatten[i - 1] \o seqs[i]
<1>1. T = {}
  <2> SUFFICES ASSUME T # {} PROVE FALSE  OBVIOUS
  <2>1. T \in SUBSET Nat  OBVIOUS
  <2> HIDE DEF T
  <2>2. PICK n \in T : \A k \in T : n <= k  BY <2>1, LeastNumber
  <2>3. n \in Nat /\ ~Joins(n)  BY DEF T
  <2>4. n # 0
    <3>1. << >> = [i \in 1..0 |-> joined(<< >>, i)]  OBVIOUS
    <3>2. Joins(0)  BY <3>1
    <3> QED BY <2>3, <3>2
  <2>5. n - 1 \in Nat /\ n - 1 \notin T  BY <2>2, <2>3, <2>4
  <2>6. PICK f : f = [i \in 1..(n - 1) |-> joined(f, i)]  BY <2>5 DEF T
  <2> DEFINE g == [i \in 1..n |-> IF i = n THEN joined(f, i) ELSE f[i]]
  <2>7. ASSUME NEW i \in 1..n  PROVE g[i] = joined(g, i)
    <3>1. i \in Nat /\ i >= 1 /\ (i # 1 => i - 1 \in 1..n /\ i - 1 # n)  BY <2>3
    <3>2. joined(g, i) = joined(f, i)  BY <3>1
    <3>3. i # n => f[i] = joined(f, i)
      <4>1. i # n => i \in 1..(n - 1)  BY <2>3
      <4> HIDE DEF joined
      <4> QED BY <4>1, <2>6
    <3> QED BY <3>2, <3>3
  <2> HIDE DEF joined
  <2>8. g = [i \in 1..n |-> g[i]]  OBVIOUS
  <2> HIDE DEF g
  <2>9. g = [i \in 1..n |-> joined(g, i)]  BY <2>7, <2>8
  <2> QED BY <2>3, <2>9
<1>2. Joins(Len(seqs))  BY <1>1
<1>3. flatten = [i \in 1..Len(seqs) |-> IF i = 1 THEN seqs[i] ELSE flatten[i - 1] \o seqs[i]]
  BY <1>2
<1>4. FlattenSeq(seqs) = flatten[Len(seqs)]  BY DEF FlattenSeq
<1> QED BY <1>3, <1>4

(* Where the elements of a flattened sequence come from: the j-th is       *)
(* seqs[from[j]][at[j]], and no two come from one place.                   *)
Places(seqs, flat, n, from, at) ==
    /\ from \in [DOMAIN flat -> 1..n] /\ at \in [DOMAIN flat -> Nat]
    /\ \A j \in DOMAIN flat : at[j] \in DOMAIN seqs[from[j]] /\ flat[j] = seqs[from[j]][at[j]]
    /\ \A j, k \in DOMAIN flat : from[j] = from[k] /\ at[j] = at[k] => j = k

(* One sequence has its own places.                                        *)
LEMMA PlacesFirst ==
    ASSUME NEW S, NEW seqs, NEW n \in Nat, n >= 1, seqs[1] \in Seq(S)
    PROVE  \E from, at : Places(seqs, seqs[1], 1, from, at)
<1>1. DOMAIN seqs[1] = 1..Len(seqs[1]) /\ Len(seqs[1]) \in Nat  BY LenProperties
<1> DEFINE from == [j \in DOMAIN seqs[1] |-> 1]
           at == [j \in DOMAIN seqs[1] |-> j]
<1>2. Places(seqs, seqs[1], 1, from, at)  BY <1>1 DEF Places
<1> QED BY <1>2

(* Another one that is joined adds its own.                                *)
LEMMA PlacesJoined ==
    ASSUME NEW S, NEW seqs, NEW n \in Nat, NEW flat \in Seq(S), seqs[n + 1] \in Seq(S),
           NEW from, NEW at, Places(seqs, flat, n, from, at)
    PROVE  \E more, place : Places(seqs, flat \o seqs[n + 1], n + 1, more, place)
<1> DEFINE L == Len(flat)
           M == Len(seqs[n + 1])
           both == flat \o seqs[n + 1]
           more == [j \in 1..(L + M) |-> IF j <= L THEN from[j] ELSE n + 1]
           place == [j \in 1..(L + M) |-> IF j <= L THEN at[j] ELSE j - L]
<1>1. /\ L \in Nat /\ M \in Nat /\ DOMAIN flat = 1..L /\ DOMAIN seqs[n + 1] = 1..M
      /\ DOMAIN both = 1..(L + M)
      /\ \A j \in 1..(L + M) : both[j] = IF j <= L THEN flat[j] ELSE seqs[n + 1][j - L]
  BY LenProperties, ConcatProperties
<1> HIDE DEF L, M, both
<1>2. ASSUME NEW j \in 1..(L + M)
      PROVE  j \in 1..L \/ (j - L \in 1..M /\ ~(j <= L))
  BY <1>1
<1>3. more \in [DOMAIN both -> 1..(n + 1)] /\ place \in [DOMAIN both -> Nat]
  <2>1. ASSUME NEW j \in 1..(L + M)  PROVE more[j] \in 1..(n + 1) /\ place[j] \in Nat
    <3>1. j \in 1..L => from[j] \in 1..n /\ at[j] \in Nat  BY <1>1 DEF Places
    <3> QED BY <1>1, <1>2, <3>1
  <2> QED BY <1>1, <2>1
<1>4. ASSUME NEW j \in DOMAIN both
      PROVE  place[j] \in DOMAIN seqs[more[j]] /\ both[j] = seqs[more[j]][place[j]]
  <2>1. j \in 1..(L + M)  BY <1>1
  <2>2. CASE j \in 1..L
    <3>1. more[j] = from[j] /\ place[j] = at[j] /\ both[j] = flat[j]  BY <1>1, <2>1, <2>2
    <3> QED BY <1>1, <2>2, <3>1 DEF Places
  <2>3. CASE j - L \in 1..M /\ ~(j <= L)
    <3>1. more[j] = n + 1 /\ place[j] = j - L /\ both[j] = seqs[n + 1][j - L]
      BY <1>1, <2>1, <2>3
    <3> QED BY <1>1, <2>3, <3>1
  <2> QED BY <1>2, <2>1, <2>2, <2>3
<1>5. ASSUME NEW j \in DOMAIN both, NEW k \in DOMAIN both,
             more[j] = more[k], place[j] = place[k]
      PROVE  j = k
  <2>1. j \in 1..(L + M) /\ k \in 1..(L + M)  BY <1>1
  <2>2. \A i \in 1..L : from[i] \in 1..n /\ from[i] # n + 1  BY <1>1 DEF Places
  <2>3. CASE j \in 1..L /\ k \in 1..L
    <3>1. from[j] = from[k] /\ at[j] = at[k]  BY <1>1, <1>5, <2>1, <2>3
    <3> QED BY <1>1, <2>3, <3>1 DEF Places
  <2>4. CASE ~(j <= L) /\ ~(k <= L)
    <3>1. place[j] = j - L /\ place[k] = k - L  BY <2>1, <2>4
    <3> QED BY <1>1, <1>5, <2>1, <3>1
  <2>5. CASE j \in 1..L /\ ~(k <= L)
    <3>1. j <= L  BY <1>1, <2>5
    <3>2. more[j] = from[j] /\ more[k] = n + 1  BY <2>1, <2>5, <3>1
    <3> QED BY <1>5, <2>2, <2>5, <3>2
  <2>6. CASE k \in 1..L /\ ~(j <= L)
    <3>1. k <= L  BY <1>1, <2>6
    <3>2. more[k] = from[k] /\ more[j] = n + 1  BY <2>1, <2>6, <3>1
    <3> QED BY <1>5, <2>2, <2>6, <3>2
  <2> QED BY <1>2, <2>1, <2>3, <2>4, <2>5, <2>6
<1> HIDE DEF more, place
<1>6. Places(seqs, both, n + 1, more, place)  BY <1>3, <1>4, <1>5 DEF Places
<1> QED BY <1>6 DEF both

(* Every element of a flattened sequence comes from a place of its own.    *)
LEMMA FlattenPlaces ==
    ASSUME NEW S, NEW seqs \in Seq(Seq(S))
    PROVE  /\ FlattenSeq(seqs) \in Seq(S)
           /\ \E from, at : Places(seqs, FlattenSeq(seqs), Len(seqs), from, at)
<1> DEFINE N == Len(seqs)
           flat == FlattenSeq(seqs)
<1>1. N \in Nat /\ DOMAIN seqs = 1..N /\ \A i \in 1..N : seqs[i] \in Seq(S)
  BY LenProperties, ElementOfSeq
<1>2. CASE N = 0
  <2>1. flat = seqs /\ seqs = << >>
    <3>1. flat = seqs  BY <1>2 DEF FlattenSeq
    <3> QED BY <1>2, <3>1, EmptySeq
  <2>2. DOMAIN flat = {} /\ flat \in Seq(S)  BY <1>1, <1>2, <2>1
  <2>3. Places(seqs, flat, N, << >>, << >>)  BY <2>2 DEF Places
  <2> QED BY <2>2, <2>3
<1>3. CASE N # 0
  <2>1. PICK f : /\ f = [i \in 1..N |-> IF i = 1 THEN seqs[i] ELSE f[i - 1] \o seqs[i]]
                 /\ flat = f[N]
    BY <1>1, <1>3, FlattenStep
  <2> DEFINE P(n) == f[n] \in Seq(S) /\ \E from, at : Places(seqs, f[n], n, from, at)
             T == {n \in 1..N : ~P(n)}
  <2>2. \A i \in 1..N : f[i] = IF i = 1 THEN seqs[i] ELSE f[i - 1] \o seqs[i]  BY <2>1
  <2>3. P(1)
    <3>1. f[1] = seqs[1] /\ seqs[1] \in Seq(S) /\ N >= 1  BY <1>1, <1>3, <2>2
    <3> QED BY <1>1, <3>1, PlacesFirst
  <2>4. ASSUME NEW n \in 1..N, n # 1, P(n - 1)  PROVE P(n)
    <3>1. n - 1 \in Nat /\ (n - 1) + 1 = n /\ seqs[n] \in Seq(S)  BY <1>1, <2>4
    <3>2. f[n] = f[n - 1] \o seqs[n]  BY <2>2, <2>4
    <3>3. f[n - 1] \in Seq(S)  BY <2>4
    <3>4. f[n] \in Seq(S)  BY <3>1, <3>2, <3>3, ConcatProperties
    <3>5. PICK from, at : Places(seqs, f[n - 1], n - 1, from, at)  BY <2>4
    <3>6. \E more, place : Places(seqs, f[n - 1] \o seqs[(n - 1) + 1], (n - 1) + 1, more, place)
      BY <3>1, <3>3, <3>5, PlacesJoined
    <3> QED BY <3>1, <3>2, <3>4, <3>6
  <2>5. T = {}
    <3> SUFFICES ASSUME T # {} PROVE FALSE  OBVIOUS
    <3>1. T \in SUBSET Nat  BY <1>1
    <3>2. T \in SUBSET (1..N) /\ \A n \in 1..N : n \notin T => P(n)  OBVIOUS
    <3>3. \A n \in T : ~P(n)  OBVIOUS
    <3> HIDE DEF T, P
    <3>4. PICK n \in T : \A k \in T : n <= k  BY <3>1, LeastNumber
    <3>5. n \in 1..N /\ n # 1  BY <2>3, <3>2, <3>3
    <3>6. n - 1 \in 1..N /\ n - 1 \notin T  BY <1>1, <3>4, <3>5
    <3> QED BY <2>4, <3>2, <3>3, <3>4, <3>5, <3>6
  <2>6. P(N)
    <3>1. N \in 1..N  BY <1>1, <1>3
    <3> QED BY <2>5, <3>1
  <2> QED BY <2>1, <2>6
<1> QED BY <1>2, <1>3
-----------------------------------------------------------------------------
(* Audit log: what an entry shows *)

(* What an argument is made of. *)
Argument == [flag : STRING \cup {"", "--sandbox"}, value : {"", "other", Prompt}]

(* A sequence of one element.                                              *)
LEMMA OneElement ==
    /\ 1 \in 1..1 /\ \A k \in 1..1 : k = 1
    /\ \A S : \A x \in S : <<x>> \in Seq(S) /\ Len(<<x>>) = 1 /\ <<x>>[1] = x
    /\ \A x, s : s = [i \in 1..1 |-> s[i]] /\ s[1] = x => s = <<x>>
<1>1. 1 \in 1..1 /\ \A k \in 1..1 : k = 1  OBVIOUS
<1>2. ASSUME NEW S, NEW x \in S  PROVE <<x>> \in Seq(S) /\ Len(<<x>>) = 1 /\ <<x>>[1] = x
  OBVIOUS
<1>3. ASSUME NEW x, NEW s, s = [i \in 1..1 |-> s[i]], s[1] = x  PROVE s = <<x>>
  BY <1>3
<1> QED BY <1>1, <1>2, <1>3

(* An element stands for a sequence of arguments; the prompt is one of     *)
(* them only when the element is the placeholder of it, by itself or bound *)
(* to a flag.                                                              *)
LEMMA ExpandShows ==
    ASSUME NEW element \in Element, element.kind # "mixed",
           element.kind # "literal" => element.of \in Single \cup Lists,
           element.kind = "binding" => element.of \in Single
    PROVE  /\ Expand(element, Values) \in Seq(Argument)
           /\ \A k \in DOMAIN Expand(element, Values) :
                  Expand(element, Values)[k].value = Prompt =>
                      \/ Expand(element, Values)[k] = Arg("", Prompt)
                      \/ k = 1 /\ element = Binding(element.flag, "prompt")
<1> DEFINE es == Expand(element, Values)
           of == element.of
           Shows(arg) == arg.value = Prompt =>
                             arg = Arg("", Prompt) \/ element = Binding(element.flag, "prompt")
<1>1. element.flag \in STRING /\ element.kind \in {"literal", "whole", "binding"}
  BY DEF Element
<1>2. ASSUME NEW ph \in Single
      PROVE  Values[ph] = (IF ph = "prompt" THEN Prompt ELSE "other")
  BY <1>2 DEF Values, Single, Lists
<1>3. ASSUME NEW ph \in Lists  PROVE Values[ph] = <<"--sandbox">>
  BY <1>3 DEF Values
<1>4. Prompt # "other" /\ Prompt # ""  BY DEF Prompt
<1>5. SUFFICES es \in Seq(Argument) /\ Len(es) = 1 /\ Shows(es[1])
  <2>1. DOMAIN es = 1..1  BY <1>5, LenProperties
  <2>2. \A k \in 1..1 : k = 1  BY OneElement
  <2> QED BY <1>5, <2>1, <2>2
<1>6. ASSUME NEW flag \in STRING \cup {"", "--sandbox"}, NEW value \in {"", "other", Prompt},
             es = <<Arg(flag, value)>>, Shows(Arg(flag, value))
      PROVE  es \in Seq(Argument) /\ Len(es) = 1 /\ Shows(es[1])
  <2>1. Arg(flag, value) \in Argument  BY DEF Arg, Argument
  <2> HIDE DEF es, Shows
  <2> QED BY <1>6, <2>1, OneElement
<1>7. CASE element.kind = "literal"
  <2>1. es = <<Arg(element.flag, "")>>  BY <1>7 DEF Expand
  <2>2. Shows(Arg(element.flag, ""))  BY <1>4 DEF Arg
  <2> HIDE DEF es, Shows
  <2> QED BY <1>1, <1>6, <2>1, <2>2
<1>8. CASE element.kind = "binding"
  <2>1. es = <<Arg(element.flag, Values[of])>>  BY <1>8 DEF Expand
  <2>2. Values[of] = (IF of = "prompt" THEN Prompt ELSE "other")  BY <1>2, <1>8
  <2>3. of = "prompt" => element = Binding(element.flag, "prompt")
    BY <1>8 DEF Element, Binding
  <2>4. Shows(Arg(element.flag, Values[of]))
    <3>1. Arg(element.flag, Values[of]).value = Values[of]  BY DEF Arg
    <3> QED BY <1>4, <2>2, <2>3, <3>1
  <2>5. Values[of] \in {"", "other", Prompt}  BY <2>2
  <2> HIDE DEF es, Shows
  <2> QED BY <1>1, <1>6, <2>1, <2>4, <2>5
<1>9. CASE element.kind = "whole" /\ of \in Lists
  <2>1. es = [i \in DOMAIN Values[of] |-> Arg(Values[of][i], "")]  BY <1>9 DEF Expand
  <2>2. Values[of] = <<"--sandbox">>  BY <1>3, <1>9
  <2> DEFINE list == Values[of]
  <2>3. DOMAIN list = 1..1 /\ list[1] = "--sandbox"  BY <2>2
  <2> HIDE DEF es, list, of
  <2>4. es = [i \in DOMAIN list |-> Arg(list[i], "")]  BY <2>1 DEF list
  <2>5. DOMAIN es = 1..1 /\ es = [i \in 1..1 |-> es[i]]  BY <2>3, <2>4
  <2>6. es[1] = Arg("--sandbox", "")  BY <2>3, <2>4, OneElement
  <2>7. es = <<Arg("--sandbox", "")>>  BY <2>5, <2>6, OneElement
  <2>8. Shows(Arg("--sandbox", ""))  BY <1>4 DEF Arg
  <2> HIDE DEF Shows
  <2> QED BY <1>6, <2>7, <2>8
<1>10. CASE element.kind = "whole" /\ of \notin Lists
  <2>1. of \in Single  BY <1>10
  <2>2. es = IF of \in OmittedWhenEmpty /\ Values[of] = "" THEN << >>
             ELSE <<Arg("", Values[of])>>
    BY <1>10 DEF Expand
  <2>3. Values[of] = (IF of = "prompt" THEN Prompt ELSE "other")  BY <1>2, <2>1
  <2>4. Values[of] # ""  BY <1>4, <2>3
  <2>5. Shows(Arg("", Values[of]))
    <3>1. Arg("", Values[of]).value = Values[of]  BY DEF Arg
    <3> QED BY <3>1
  <2>6. Values[of] \in {"", "other", Prompt}  BY <2>3
  <2> HIDE DEF es, Shows
  <2> QED BY <1>6, <2>2, <2>4, <2>5, <2>6
<1> QED BY <1>1, <1>7, <1>8, <1>9, <1>10

(* What redaction hides: of the arguments that are the prompt only those   *)
(* that are bound to a flag show it, one for each binding in the template. *)
LEMMA ShownBound ==
    ASSUME NEW t \in Seq(Element), Loads(t), Builds(t)
    PROVE  Shown(t) <= Cardinality(Bound(t))
<1> DEFINE parts == [i \in DOMAIN t |-> Expand(t[i], Values)]
           argv == BuildArgs(t, Values)
           seen == {j \in DOMAIN RedactArgv(argv, Prompt) :
                        RedactArgv(argv, Prompt)[j].value = Prompt}
<1>1. DOMAIN t = 1..Len(t) /\ Len(t) \in Nat /\ \A i \in 1..Len(t) : t[i] \in Element
  BY LenProperties, ElementOfSeq
<1>2. ASSUME NEW i \in DOMAIN t
      PROVE  /\ parts[i] \in Seq(Argument)
             /\ \A k \in DOMAIN parts[i] :
                    parts[i][k].value = Prompt =>
                        parts[i][k] = Arg("", Prompt) \/ (k = 1 /\ i \in Bound(t))
  <2>1. /\ t[i] \in Element /\ t[i].kind # "mixed"
        /\ t[i].kind # "literal" => t[i].of \in Single \cup Lists
        /\ t[i].kind = "binding" => t[i].of \in Single
    BY <1>1 DEF Loads, Builds
  <2>2. parts[i] = Expand(t[i], Values)  OBVIOUS
  <2>3. t[i] = Binding(t[i].flag, "prompt") => i \in Bound(t)  BY DEF Bound
  <2> HIDE DEF parts
  <2> QED BY <2>1, <2>2, <2>3, ExpandShows
<1>3. parts \in Seq(Seq(Argument)) /\ Len(parts) = Len(t)
  <2>1. parts = [i \in 1..Len(t) |-> parts[i]] /\ \A i \in 1..Len(t) : parts[i] \in Seq(Argument)
    BY <1>1, <1>2
  <2> HIDE DEF parts
  <2>2. parts \in Seq(Seq(Argument))  BY <1>1, <2>1, IsASeq
  <2> QED BY <1>1, <2>1, <2>2, LenProperties
<1>4. argv = FlattenSeq(parts)  BY DEF BuildArgs
<1> HIDE DEF parts, argv
<1>5. PICK from, at : Places(parts, argv, Len(t), from, at)  BY <1>3, <1>4, FlattenPlaces
<1>6. ASSUME NEW j \in seen
      PROVE  j \in DOMAIN argv /\ from[j] \in Bound(t) /\ at[j] = 1
  <2>1. j \in DOMAIN argv  BY DEF RedactArgv
  <2>2. Arg("", Digest).value # Prompt  BY DEF Arg, Digest, Prompt
  <2>3. argv[j].value = Prompt /\ argv[j] # Arg("", Prompt)
    BY <2>1, <2>2 DEF RedactArgv, Prompt
  <2>4. from[j] \in DOMAIN t /\ at[j] \in DOMAIN parts[from[j]] /\ argv[j] = parts[from[j]][at[j]]
    BY <1>1, <1>5, <2>1 DEF Places
  <2> QED BY <1>2, <2>1, <2>3, <2>4
<1>7. Shown(t) = Cardinality(seen)  BY DEF Shown, argv
<1> HIDE DEF seen
<1>8. Bound(t) \in SUBSET (1..Len(t)) /\ IsFiniteSet(1..Len(t))
  BY <1>1, FS_Interval DEF Bound
<1>9. IsFiniteSet(Bound(t))  BY <1>8, FS_Subset
<1> DEFINE place == [j \in seen |-> from[j]]
<1>10. place \in Injection(seen, Bound(t))
  <2>1. \A j, k \in seen : place[j] = place[k] => j = k  BY <1>5, <1>6 DEF Places
  <2> QED BY <1>6, <2>1 DEF Injection, IsInjective
<1> QED BY <1>7, <1>9, <1>10, FS_Injection

(* Every entry shows what its template makes it show.                      *)
ShownInv ==
    \A line \in Lines \ {Torn} : template \in Runnable /\ line.shown = Shown(template)

-----------------------------------------------------------------------------
(* Audit log: the key of the digests *)

Minters == {p \in Process : server[p] \in {"minting", "storing"}}

(* The file has a whole key, which every running server has and every      *)
(* entry is digested with, and no server is about to replace it; or it has *)
(* none, nothing was written, and at most one server is about to make one. *)
KeyInv ==
    twoKeys \/
        IF keyFile \in Key
        THEN /\ LineKeys \subseteq {NoKey, keyFile} /\ Minters = {}
             /\ \A p \in Process : server[p] # "down" => key[p] = keyFile
        ELSE /\ LineKeys \subseteq {NoKey}
             /\ \A p \in Process : server[p] \in {"down", "minting", "storing"}
             /\ \A p, q \in Minters : p = q

DigestInv == KeyInv /\ ShownInv

(* Every line is typed, and an entry has a key.                            *)
LEMMA LinesType ==
    ASSUME AuditTypeOK
    PROVE  Lines \subseteq Line /\ \A line \in Lines \ {Torn} : line.key \in Key
<1>1. ASSUME NEW line \in Lines  PROVE line \in Line
  <2>1. PICK f \in DOMAIN files : line \in ToSet(files[f].lines)  BY DEF Lines
  <2>2. files[f].lines \in Seq(Line)  BY FilesDomain
  <2> QED BY <2>1, <2>2, ElementOfSeq, FilesDomain DEF ToSet
<1>2. \A line \in Line \ {Torn} : line.key \in Key  BY DEF Line
<1> QED BY <1>1, <1>2

(* A server that starts takes the key of the file, or is the one to make   *)
(* it.                                                                     *)
LEMMA KeyStart ==
    ASSUME AuditTypeOK, KeyInv, NEW p \in Process, Start(p)
    PROVE  KeyInv'
<1>1. UNCHANGED <<keyFile, files>> /\ server[p] = "down"  BY DEF Start, dirVars
<1>2. LineKeys' = LineKeys  BY <1>1 DEF LineKeys, Lines
<1>3. SUFFICES ASSUME ~twoKeys' PROVE KeyInv'  BY DEF KeyInv
<1>4. CASE keyFile \in Key
  <2>1. /\ ~twoKeys
        /\ \A q \in Process : server'[q] = IF q = p THEN "opening" ELSE server[q]
        /\ \A q \in Process : key'[q] = IF q = p THEN keyFile ELSE key[q]
    BY <1>3, <1>4 DEF Start, AuditTypeOK
  <2>2. Minters' = {}  BY <1>3, <1>4, <2>1 DEF KeyInv, Minters
  <2> QED BY <1>1, <1>2, <1>3, <1>4, <2>1, <2>2 DEF KeyInv
<1>5. CASE keyFile \notin Key
  <2>1. /\ ~twoKeys /\ Minters = {}
        /\ \A q \in Process : server'[q] = IF q = p THEN "minting" ELSE server[q]
    BY <1>3, <1>5 DEF Start, AuditTypeOK, Minters
  <2>2. Minters' \subseteq {p}  BY <2>1 DEF Minters
  <2> QED BY <1>1, <1>2, <1>5, <2>1, <2>2 DEF KeyInv
<1> QED BY <1>4, <1>5

(* The one that makes it is alone with it until the file has it.           *)
LEMMA KeyMade ==
    ASSUME AuditTypeOK, KeyInv, NEW p \in Process, Truncate(p) \/ Store(p)
    PROVE  KeyInv'
<1>1. /\ UNCHANGED <<twoKeys, files, key>> /\ server[p] \in {"minting", "storing"}
      /\ \/ keyFile' = Partial
            /\ \A q \in Process : server'[q] = IF q = p THEN "storing" ELSE server[q]
         \/ keyFile' = key[p]
            /\ \A q \in Process : server'[q] = IF q = p THEN "opening" ELSE server[q]
  BY DEF Truncate, Store, At, dirVars, AuditTypeOK
<1>2. LineKeys' = LineKeys  BY <1>1 DEF LineKeys, Lines
<1>3. SUFFICES ASSUME ~twoKeys PROVE KeyInv'  BY <1>1 DEF KeyInv
<1>4. p \in Minters  BY <1>1 DEF Minters
<1>5. /\ keyFile \notin Key /\ Minters = {p} /\ LineKeys \subseteq {NoKey}
      /\ \A q \in Process : server[q] \in {"down", "minting", "storing"}
  BY <1>3, <1>4 DEF KeyInv
<1>6. \A q \in Process : q # p => server[q] = "down"  BY <1>5 DEF Minters
<1>7. Partial \notin Key  BY FS_CardinalityType, AuditAssumption DEF Partial, Key
<1>8. key[p] \in Key  BY <1>1 DEF AuditTypeOK
<1>9. CASE /\ keyFile' = Partial
           /\ \A q \in Process : server'[q] = IF q = p THEN "storing" ELSE server[q]
  <2>1. Minters' = {p}  BY <1>6, <1>9 DEF Minters
  <2> QED BY <1>2, <1>5, <1>6, <1>7, <1>9, <2>1 DEF KeyInv
<1>10. CASE /\ keyFile' = key[p]
            /\ \A q \in Process : server'[q] = IF q = p THEN "opening" ELSE server[q]
  <2>1. Minters' = {}  BY <1>6, <1>10 DEF Minters
  <2> QED BY <1>1, <1>2, <1>5, <1>6, <1>8, <1>10, <2>1 DEF KeyInv
<1> QED BY <1>1, <1>9, <1>10

(* A line is written by a server that has the key of the file.             *)
LEMMA DigestWrite ==
    ASSUME AuditTypeOK, DigestInv, NEW p \in Process,
           WriteEntry(p) \/ EntryFails(p) \/ StopInWrite(p)
    PROVE  DigestInv'
<1> USE DEF dirVars, rotateVars, keyVars, ghostVars
<1>1. MayWrite(p)  BY DEF WriteEntry, EntryFails, StopInWrite
<1>2. PICK line \in {Torn, EntryOf(p)} : AppendLine(p, line)
  BY DEF WriteEntry, EntryFails, StopInWrite
<1>3. line \in Line /\ handle[p] # NoFile  BY <1>1, <1>2, EntryType
<1>4. Lines' = Lines \cup {line} /\ LineKeys' \subseteq LineKeys \cup {line.key}
  BY <1>2, <1>3, LinesAdded, KeysAdded
<1>5. UNCHANGED <<template, keyFile, twoKeys>> /\ server[p] \in {"up", "writing"}
  BY <1>1 DEF WriteEntry, EntryFails, StopInWrite, Gone, MayWrite
<1>6. ShownInv'
  <2>1. template \in Runnable  BY <1>1 DEF MayWrite, Runnable, AuditTypeOK
  <2>2. EntryOf(p).shown = Shown(template)  BY DEF EntryOf
  <2>3. \A l \in Lines' \ {Torn} : l.shown = Shown(template)
    BY <1>4, <2>2 DEF DigestInv, ShownInv
  <2>4. Shown(template)' = Shown(template) /\ Runnable' = Runnable
    BY <1>5 DEF Shown, Runnable
  <2> QED BY <1>5, <2>1, <2>3, <2>4 DEF ShownInv
<1>7. KeyInv'
  <2> SUFFICES ASSUME ~twoKeys PROVE KeyInv'  BY <1>5 DEF KeyInv
  <2>1. /\ keyFile \in Key /\ LineKeys \subseteq {NoKey, keyFile} /\ Minters = {}
        /\ \A q \in Process : server[q] # "down" => key[q] = keyFile
    BY <1>5 DEF DigestInv, KeyInv
  <2>2. key[p] = keyFile  BY <1>5, <2>1
  <2>3. line.key \in {NoKey, keyFile}  BY <1>2, <2>2 DEF Torn, EntryOf
  <2>4. LineKeys' \subseteq {NoKey, keyFile'}  BY <1>4, <1>5, <2>1, <2>3
  <2>5. /\ \A q \in Process : server'[q] = server[q] \/ server'[q] \in {"up", "down"}
        /\ \A q \in Process : server'[q] # "down" => key'[q] = key[q] /\ server[q] # "down"
    <3>1. CASE StopInWrite(p)  BY <3>1 DEF StopInWrite, Gone, AuditTypeOK
    <3>2. CASE WriteEntry(p) \/ EntryFails(p)
      BY <1>5, <3>2 DEF WriteEntry, EntryFails, AuditTypeOK
    <3> QED BY <3>1, <3>2
  <2>6. Minters' = {}  BY <2>1, <2>5 DEF Minters
  <2> QED BY <1>5, <2>1, <2>4, <2>5, <2>6 DEF KeyInv
<1> QED BY <1>6, <1>7 DEF DigestInv

(* Opening and rotating are for servers that have the key, and stopping    *)
(* for those that have it or not.                                          *)
LEMMA KeyAlone ==
    ASSUME AuditTypeOK, KeyInv, NEW p \in Process,
           UNCHANGED <<keyFile, twoKeys>>, LineKeys' = LineKeys, NEW s \in ServerStep,
           server' = [server EXCEPT ![p] = s],
           \/ s \notin {"minting", "storing"} /\ key' = key
                /\ server[p] \notin {"down", "minting", "storing"}
           \/ s = "down" /\ \A q \in Process \ {p} : key'[q] = key[q]
    PROVE  KeyInv'
<1>1. \A q \in Process : server'[q] = IF q = p THEN s ELSE server[q]  BY DEF AuditTypeOK
<1>2. Minters' \subseteq Minters  BY <1>1 DEF Minters
<1> QED BY <1>1, <1>2 DEF KeyInv

(* Every step keeps both.                                                  *)
LEMMA DigestNext == AuditTypeOK /\ DigestInv /\ [AuditNext]_auditVars => DigestInv'
<1> SUFFICES ASSUME AuditTypeOK, DigestInv, [AuditNext]_auditVars PROVE DigestInv'  OBVIOUS
<1> USE DEF dirVars, rotateVars, keyVars, ghostVars
<1>1. ASSUME Lines' = Lines, template' = template  PROVE ShownInv' /\ LineKeys' = LineKeys
  <2>1. Shown(template)' = Shown(template) /\ Runnable' = Runnable
    BY <1>1 DEF Shown, Runnable
  <2> QED BY <1>1, <2>1 DEF DigestInv, ShownInv, LineKeys
<1>2. CASE UNCHANGED auditVars \/ Tick \/ \E p \in Process : RemoveOld(p)
  <2>1. UNCHANGED <<template, files, server, key, keyFile, twoKeys>>
    BY <1>2 DEF auditVars, Tick, RemoveOld
  <2>2. Lines' = Lines  BY <2>1 DEF Lines
  <2> QED BY <1>1, <2>1, <2>2 DEF DigestInv, KeyInv, Minters
<1>3. ASSUME NEW p \in Process, Start(p) \/ Truncate(p) \/ Store(p)  PROVE DigestInv'
  <2>1. UNCHANGED <<template, files>>  BY <1>3 DEF Start, Truncate, Store
  <2>2. Lines' = Lines  BY <2>1 DEF Lines
  <2> QED BY <1>1, <1>3, <2>1, <2>2, KeyStart, KeyMade DEF DigestInv
<1>4. ASSUME NEW p \in Process, WriteEntry(p) \/ EntryFails(p) \/ StopInWrite(p)
      PROVE  DigestInv'
  BY <1>4, DigestWrite
<1>5. ASSUME NEW p \in Process,
             \/ Open(p) \/ CloseFull(p) \/ Rename(p) \/ RenameCollides(p) \/ List(p)
             \/ Reopen(p) \/ RotateFails(p)
      PROVE  DigestInv'
  <2>1. /\ UNCHANGED <<template, keyFile, twoKeys, key>>
        /\ \E s \in ServerStep : /\ s \notin {"minting", "storing"}
                                 /\ server' = [server EXCEPT ![p] = s]
    BY <1>5 DEF Open, CloseFull, Rename, RenameCollides, List, Reopen, RotateFails, At,
                ServerStep
  <2>2. PICK s \in ServerStep : /\ s \notin {"minting", "storing"}
                                /\ server' = [server EXCEPT ![p] = s]
    BY <2>1
  <2>3. server[p] \notin {"down", "minting", "storing"}
    BY <1>5 DEF Open, CloseFull, Rename, RenameCollides, List, Reopen, RotateFails, At
  <2>4. Lines' = Lines
    <3>1. CASE Open(p) \/ Reopen(p)  BY <3>1, LinesOpened DEF Open, Reopen
    <3>2. CASE Rename(p)  BY <3>2, LinesRenamed
    <3>3. CASE CloseFull(p) \/ RenameCollides(p) \/ List(p) \/ RotateFails(p)
      <4>1. files' = files  BY <3>3 DEF CloseFull, RenameCollides, List, RotateFails
      <4> QED BY <4>1 DEF Lines
    <3> QED BY <1>5, <3>1, <3>2, <3>3
  <2> QED BY <1>1, <2>1, <2>2, <2>3, <2>4, KeyAlone DEF DigestInv
<1>6. ASSUME NEW p \in Process, Stop(p)  PROVE DigestInv'
  <2>1. /\ UNCHANGED <<template, keyFile, twoKeys, files>>
        /\ server' = [server EXCEPT ![p] = "down"]
        /\ \A q \in Process \ {p} : key'[q] = key[q]
    BY <1>6 DEF Stop, Gone, AuditTypeOK
  <2>2. Lines' = Lines  BY <2>1 DEF Lines
  <2>3. "down" \in ServerStep  BY DEF ServerStep
  <2> QED BY <1>1, <2>1, <2>2, <2>3, KeyAlone DEF DigestInv
<1> QED BY <1>2, <1>3, <1>4, <1>5, <1>6 DEF AuditNext

(* The log shows a prompt only where a template binds it to a flag,        *)
(* however long the template is, and digests it with one key over all      *)
(* restarts, unless two servers made a key at once or one that could not   *)
(* read the key made another.                                              *)
THEOREM DigestsCorrect == AuditSpec => []DigestsSound
<1>1. AuditInit => DigestInv
  <2> SUFFICES ASSUME AuditInit PROVE DigestInv  OBVIOUS
  <2>1. /\ DOMAIN files = {} /\ keyFile = NoKey
        /\ \A p \in Process : server[p] = "down"
    BY DEF AuditInit
  <2>2. Lines = {}  BY <2>1 DEF Lines
  <2>3. LineKeys = {} /\ Minters = {}  BY <2>1, <2>2 DEF LineKeys, Minters
  <2>4. NoKey \notin Key  BY FS_CardinalityType, AuditAssumption DEF NoKey, Key
  <2> QED BY <2>1, <2>2, <2>3, <2>4 DEF DigestInv, KeyInv, ShownInv
<1>2. AuditTypeOK /\ DigestInv => DigestsSound
  <2> SUFFICES ASSUME AuditTypeOK, DigestInv, NEW line \in Lines \ {Torn}
               PROVE  /\ line.shown <= Cardinality(Bound(template))
                      /\ \A other \in Lines \ {Torn} : twoKeys \/ line.key = other.key
    BY DEF DigestsSound
  <2>1. line.shown <= Cardinality(Bound(template))
    <3>1. template \in Runnable /\ line.shown = Shown(template)  BY DEF DigestInv, ShownInv
    <3>2. template \in Seq(Element) /\ Loads(template) /\ Builds(template)
      BY <3>1, AuditAssumption DEF Runnable
    <3> QED BY <3>1, <3>2, ShownBound
  <2>2. ASSUME NEW other \in Lines \ {Torn}, ~twoKeys  PROVE line.key = other.key
    <3>1. line.key \in LineKeys /\ other.key \in LineKeys  BY DEF LineKeys
    <3>2. line.key \in Key /\ other.key \in Key  BY LinesType
    <3>3. NoKey \notin Key  BY FS_CardinalityType, AuditAssumption DEF NoKey, Key
    <3> QED BY <2>2, <3>1, <3>2, <3>3 DEF DigestInv, KeyInv
  <2> QED BY <2>1, <2>2
<1> QED BY <1>1, <1>2, AuditTypeCorrect, DigestNext, PTL DEF AuditSpec

=============================================================================
