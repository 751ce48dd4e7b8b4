------------------------- MODULE ChangeStore_proofs -------------------------
(***************************************************************************)
(* Theorems about ChangeStore, for any runs and any number of handlers,    *)
(* awaits and operators: no worktree leaks, and none is taken from a run   *)
(* that lives.                                                             *)
(***************************************************************************)
EXTENDS ChangeStore, TLAPS

-----------------------------------------------------------------------------
(* Type correctness *)

(* Each method that is used here turns a Run into a Run.                   *)
LEMMA RunMethodsType ==
    ASSUME NEW r \in RunRecord
    PROVE  /\ Retire(r) \in RunRecord
           /\ TakeContinuation(r) \in RunRecord
           /\ SetContinuation(r) \in RunRecord
           /\ \A o \in {"completed", "failed"} : Finish(r, o) \in RunRecord
           /\ \A s \in RunId \cup {None} : Supersede(r, s) \in RunRecord
           /\ CancelRested(NeedsInput([r EXCEPT !.asked = TRUE])) \in RunRecord
           /\ Expire([r EXCEPT !.deadline = "passed"]) \in RunRecord
<1>1. Retire(r) \in RunRecord  BY DEF Retire, RunRecord
<1>2. TakeContinuation(r) \in RunRecord  BY DEF TakeContinuation, RunRecord
<1>3. SetContinuation(r) \in RunRecord  BY DEF SetContinuation, RunRecord
<1>4. \A o \in {"completed", "failed"} : Finish(r, o) \in RunRecord
  BY DEF Finish, RunRecord, States
<1>5. \A s \in RunId \cup {None} : Supersede(r, s) \in RunRecord
  BY DEF Supersede, RunRecord, States
<1>6. CancelRested(NeedsInput([r EXCEPT !.asked = TRUE])) \in RunRecord
  <2> DEFINE asks == [r EXCEPT !.asked = TRUE]
             rests == NeedsInput(asks)
             stop == rests.stopped \/ rests.owes
  <2>1. asks \in RunRecord /\ asks.asked  BY DEF RunRecord
  <2> HIDE DEF asks
  <2>2. rests \in RunRecord
    <3>1. CASE Settled(asks.state)  BY <2>1, <3>1 DEF NeedsInput
    <3>2. CASE ~Settled(asks.state)
      <4>1. rests = [asks EXCEPT !.state = "needs_input", !.done = TRUE, !.pending = None,
                                 !.deadline = "ahead", !.owes = asks.cancel]
        BY <2>1, <3>2 DEF NeedsInput
      <4> HIDE DEF rests
      <4> QED BY <2>1, <4>1 DEF RunRecord, States
    <3> QED BY <3>1, <3>2
  <2> HIDE DEF rests
  <2>3. stop \in BOOLEAN  BY <2>2 DEF RunRecord
  <2>4. CancelRested(rests) = [rests EXCEPT !.owes = FALSE, !.stopped = stop]
    BY DEF CancelRested
  <2> HIDE DEF stop
  <2>5. CancelRested(rests) \in RunRecord  BY <2>2, <2>3, <2>4 DEF RunRecord
  <2> QED BY <2>5 DEF rests, asks
<1>7. Expire([r EXCEPT !.deadline = "passed"]) \in RunRecord
  <2> DEFINE due == [r EXCEPT !.deadline = "passed"]
  <2>1. due \in RunRecord  BY DEF RunRecord
  <2> HIDE DEF due
  <2>2. CASE IsDue(due)  BY <2>1, <2>2 DEF Expire, RunRecord, States, due
  <2>3. CASE ~IsDue(due)  BY <2>1, <2>3 DEF Expire, due
  <2> QED BY <2>2, <2>3
<1> QED BY <1>1, <1>2, <1>3, <1>4, <1>5, <1>6, <1>7

(* Start builds a Run.                                                     *)
LEMMA NewRunType ==
    ASSUME NEW p \in RunId \cup {None}, NEW d \in Nat
    PROVE  [NewRun(p, d) EXCEPT !.cancel = TRUE] \in RunRecord
BY DEF NewRun, NoRun, RunRecord, States

(* A call that is past its first step has settled on a run, and a handler  *)
(* that continues one on the run it continues.                             *)
NamesRun ==
    /\ \A h \in Handler :
        /\ handler[h].pc \in {"took", "registered", "labelled", "taken"}
               => handler[h].pred \in RunId
        /\ handler[h].pc \in {"built", "started"} => handler[h].succ \in RunId
        /\ handler[h].pc = "idle" => handler[h] = IdleHandler
    /\ \A a \in Await :
        await[a].pc \in {"ended", "took", "diffed", "doom"} => await[a].run \in RunId
    /\ \A o \in Operator : decision[o].pc # "idle" => decision[o].run \in RunId

TypeInv == TypeOK /\ NamesRun

(* What is checked out or committed is a worktree.                         *)
LEMMA WorktreeType ==
    /\ Gone \in Worktree
    /\ \A content \in Work : Checkout(content) \in Worktree
    /\ \A t \in Worktree : [t EXCEPT !.head = t.files] \in Worktree
    /\ \A t \in Worktree, r \in RunId : [t EXCEPT !.files = @ \cup {r}] \in Worktree
<1>1. Gone \in Worktree  BY DEF Gone, Worktree, Work
<1>2. \A content \in Work : Checkout(content) \in Worktree  BY DEF Checkout, Worktree
<1>3. \A t \in Worktree : [t EXCEPT !.head = t.files] \in Worktree  BY DEF Worktree
<1>4. ASSUME NEW t \in Worktree, NEW r \in RunId
      PROVE  [t EXCEPT !.files = @ \cup {r}] \in Worktree
  BY DEF Worktree, Work
<1> QED BY <1>1, <1>2, <1>3, <1>4

(* What the store holds is an entry.                                       *)
LEMMA EntryType ==
    /\ NoEntry \in Entry /\ Spawned \in Entry
    /\ \A patch \in Work \ {{}} : Diff(patch) \in Entry
    /\ \A e \in Entry : e.kind = "diff" => [e EXCEPT !.accepted = TRUE] \in Entry
    /\ \A e \in Entry : e.kind \in {"none", "spawned", "diff"}
<1>1. NoEntry \in Entry  BY DEF NoEntry, Entry
<1>2. Spawned \in Entry  BY DEF Spawned, NoEntry, Entry
<1>3. \A patch \in Work \ {{}} : Diff(patch) \in Entry  BY DEF Diff, Entry
<1>4. \A e \in Entry : e.kind = "diff" => [e EXCEPT !.accepted = TRUE] \in Entry
  BY DEF Entry
<1>5. \A e \in Entry : e.kind \in {"none", "spawned", "diff"}  BY DEF Entry
<1> QED BY <1>1, <1>2, <1>3, <1>4, <1>5

(* discard keeps the types of what it changes.                             *)
LEMMA DiscardType ==
    ASSUME TypeOK, NEW r \in RunId, Discard(r)
    PROVE  store' \in [RunId -> Entry] /\ tree' \in [RunId -> Worktree]
<1>1. CASE store[r].kind = "none"  BY <1>1 DEF Discard, TypeOK
<1>2. CASE store[r].kind # "none"
  BY <1>2, EntryType, WorktreeType DEF Discard, Put, TypeOK
<1> QED BY <1>1, <1>2

(* The initial state has the types.                                        *)
LEMMA InitType == Init => TypeOK
<1> SUFFICES ASSUME Init PROVE TypeOK  OBVIOUS
<1>1. NoRun \in RunRecord  BY DEF NoRun, RunRecord, States
<1>2. IdleHandler \in HandlerRecord  BY DEF IdleHandler, HandlerRecord
<1>3. IdleAwait \in AwaitRecord  BY DEF IdleAwait, AwaitRecord, Work
<1>4. IdleDecision \in DecisionRecord  BY DEF IdleDecision, DecisionRecord
<1> QED BY <1>1, <1>2, <1>3, <1>4, EntryType, WorktreeType DEF Init, TypeOK

(* So does the state after any step of a handler.                          *)
LEMMA HandlerType ==
    ASSUME TypeInv, NEW h \in Handler, HandlerStep(h)
    PROVE  TypeOK'
<1> USE DEF TypeInv
<1> DEFINE p == handler[h].pred
           s == handler[h].succ
<1>1. /\ handler[h] \in HandlerRecord
      /\ p \in RunId \cup {None} /\ s \in RunId \cup {None}
  BY DEF TypeOK, HandlerRecord
<1>2. \A r \in RunId : runs[r] \in RunRecord /\ tree[r] \in Worktree
  BY DEF TypeOK
<1>3. IdleHandler \in HandlerRecord  BY DEF IdleHandler, HandlerRecord
<1>4. ASSUME NEW r \in RunId, Create(h, r)  PROVE TypeOK'
  <2>1. Checkout({}) \in Worktree  BY WorktreeType DEF Work
  <2>2. [IdleHandler EXCEPT !.pc = "built", !.succ = r] \in HandlerRecord
    BY DEF IdleHandler, HandlerRecord
  <2> QED BY <1>4, <2>1, <2>2 DEF Create, TypeOK, runVars
<1>5. ASSUME NEW r \in RunId, Take(h, r)  PROVE TypeOK'
  <2>1. [IdleHandler EXCEPT !.pc = "took", !.pred = r] \in HandlerRecord
    BY DEF IdleHandler, HandlerRecord
  <2>2. runs' \in [RunId -> RunRecord]
    BY <1>2, <1>5, RunMethodsType DEF Take, TypeOK
  <2> QED BY <1>5, <2>1, <2>2 DEF Take, TypeOK
<1>6. ASSUME NEW r \in RunId, ContinueFrom(h, r)  PROVE TypeOK'
  <2>1. p \in RunId /\ handler[h].pc = "took"
    BY <1>6 DEF ContinueFrom, HandlerAt, NamesRun
  <2>2. HandedOn(p) \in Work
    BY <1>2, <2>1 DEF HandedOn, Worktree, Work
  <2>3. Commit(p) \in Worktree /\ Checkout(HandedOn(p)) \in Worktree
    BY <1>2, <2>1, <2>2, WorktreeType DEF Commit
  <2>4. [handler[h] EXCEPT !.pc = "built", !.succ = r] \in HandlerRecord
    BY <1>1 DEF HandlerRecord
  <2>5. tree' \in [RunId -> Worktree]
    BY <1>6, <2>3 DEF ContinueFrom, TypeOK
  <2>6. handler' \in [Handler -> HandlerRecord]
    BY <1>6, <2>4 DEF ContinueFrom, TypeOK
  <2> QED BY <1>6, <2>5, <2>6 DEF ContinueFrom, TypeOK, runVars
<1>7. CASE Refuse(h)
  <2>1. p \in RunId  BY <1>7 DEF Refuse, HandlerAt, NamesRun
  <2>2. runs' \in [RunId -> RunRecord]
    BY <1>2, <1>7, <2>1, RunMethodsType DEF Refuse, TypeOK
  <2>3. Commit(p) \in Worktree  BY <1>2, <2>1, WorktreeType DEF Commit
  <2>4. tree' \in [RunId -> Worktree]  BY <1>7, <2>3 DEF Refuse, TypeOK
  <2> QED BY <1>3, <1>7, <2>2, <2>4 DEF Refuse, TypeOK
<1>8. CASE RefuseStart(h)
  <2>1. runs' \in [RunId -> RunRecord]
    BY <1>1, <1>2, <1>8, RunMethodsType DEF RefuseStart, TypeOK
  <2>2. tree' \in [RunId -> Worktree]
    BY <1>8, WorktreeType DEF RefuseStart, TypeOK
  <2> QED BY <1>3, <1>8, <2>1, <2>2 DEF RefuseStart, TypeOK
<1>9. CASE Start(h)
  <2> DEFINE depth == IF p = None THEN 0 ELSE runs[p].links + 1
  <2>1. depth \in Nat  BY <1>1, <1>2 DEF RunRecord
  <2>2. s \in RunId  BY <1>9 DEF Start, HandlerAt, NamesRun
  <2>3. [NewRun(p, depth) EXCEPT !.cancel = TRUE] \in RunRecord
    BY <1>1, <2>1, NewRunType
  <2>4. \A r \in RunId : Retire(runs[r]) \in RunRecord  BY <1>2, RunMethodsType
  <2> HIDE DEF depth
  <2>5. runs' = [r \in RunId |->
                  CASE r = s -> [NewRun(p, depth) EXCEPT !.cancel = TRUE]
                    [] r = p /\ p \in known -> Retire(runs[r])
                    [] OTHER -> runs[r]]
    BY <1>9 DEF Start, depth
  <2>6. runs' \in [RunId -> RunRecord]  BY <1>2, <2>3, <2>4, <2>5
  <2>7. [handler[h] EXCEPT !.pc = "started"] \in HandlerRecord
    BY <1>1 DEF HandlerRecord
  <2>8. handler' \in [Handler -> HandlerRecord]
    BY <1>9, <2>7 DEF Start, Move, TypeOK
  <2>9. known' \in SUBSET RunId /\ child' \in SUBSET RunId /\ handle' \in SUBSET RunId
    BY <1>9, <2>2 DEF Start, TypeOK
  <2> QED BY <1>9, <2>6, <2>8, <2>9 DEF Start, TypeOK
<1>10. CASE Register(h)
  <2>1. [handler[h] EXCEPT !.pc = "registered"] \in HandlerRecord
    BY <1>1 DEF HandlerRecord
  <2>2. handler' \in [Handler -> HandlerRecord]
    BY <1>3, <1>10, <2>1 DEF Register, TypeOK
  <2>3. store' \in [RunId -> Entry]
    BY <1>10, EntryType DEF Register, Put, TypeOK
  <2> QED BY <1>10, <2>2, <2>3 DEF Register, TypeOK, runVars
<1>11. CASE Label(h)
  <2>1. p \in RunId  BY <1>11 DEF Label, HandlerAt, NamesRun
  <2>2. runs' \in [RunId -> RunRecord]
    BY <1>1, <1>2, <1>11, <2>1, RunMethodsType DEF Label, TypeOK
  <2>3. [handler[h] EXCEPT !.pc = "labelled"] \in HandlerRecord
    BY <1>1 DEF HandlerRecord
  <2> QED BY <1>11, <2>2, <2>3 DEF Label, Move, TypeOK
<1>12. CASE TakeHandle(h)
  <2>1. [handler[h] EXCEPT !.pc = "taken"] \in HandlerRecord
    BY <1>1 DEF HandlerRecord
  <2> QED BY <1>12, <2>1 DEF TakeHandle, Move, TypeOK, runVars
<1>13. CASE RetirePredecessor(h)
  <2>1. p \in RunId  BY <1>13 DEF RetirePredecessor, HandlerAt, NamesRun
  <2>2. store' \in [RunId -> Entry] /\ tree' \in [RunId -> Worktree]
    BY <1>13, <2>1, DiscardType DEF RetirePredecessor
  <2> QED BY <1>3, <1>13, <2>2 DEF RetirePredecessor, TypeOK, runVars
<1> QED BY <1>4, <1>5, <1>6, <1>7, <1>8, <1>9, <1>10, <1>11, <1>12, <1>13 DEF HandlerStep

(* And after any step of a run.                                            *)
LEMMA RunType ==
    ASSUME TypeInv, NEW r \in RunId, RunStep(r)
    PROVE  TypeOK'
<1> USE DEF TypeInv
<1>1. runs[r] \in RunRecord /\ tree[r] \in Worktree  BY DEF TypeOK
<1>2. CASE Edit(r)
  <2>1. tree' = [tree EXCEPT ![r] = [tree[r] EXCEPT !.files = @ \cup {r}]]
    BY <1>2 DEF Edit
  <2>2. tree' \in [RunId -> Worktree]  BY <1>1, <2>1, WorktreeType DEF TypeOK
  <2> QED BY <1>2, <2>2 DEF Edit, TypeOK, runVars
<1>3. CASE ChildEnds(r)
  <2>1. runs' \in [RunId -> RunRecord]
    BY <1>1, <1>3, RunMethodsType DEF ChildEnds, TypeOK
  <2> QED BY <1>3, <2>1 DEF ChildEnds, TypeOK
<1>4. CASE Rest(r)
  <2>1. runs' = [runs EXCEPT ![r] = CancelRested(NeedsInput([runs[r] EXCEPT !.asked = TRUE]))]
    BY <1>4 DEF Rest
  <2>2. runs' \in [RunId -> RunRecord]  BY <1>1, <2>1, RunMethodsType DEF TypeOK
  <2> QED BY <1>4, <2>2 DEF Rest, TypeOK
<1>5. CASE ExpireRun(r)
  <2>1. runs' = [runs EXCEPT ![r] = Expire([runs[r] EXCEPT !.deadline = "passed"])]
    BY <1>5 DEF ExpireRun
  <2>2. runs' \in [RunId -> RunRecord]  BY <1>1, <2>1, RunMethodsType DEF TypeOK
  <2> QED BY <1>5, <2>2 DEF ExpireRun, TypeOK
<1>6. CASE Forget(r)  BY <1>6 DEF Forget, TypeOK
<1> QED BY <1>2, <1>3, <1>4, <1>5, <1>6 DEF RunStep

(* And after any step of an await.                                         *)
LEMMA AwaitType ==
    ASSUME TypeInv, NEW a \in Await, AwaitStep(a)
    PROVE  TypeOK'
<1> USE DEF TypeInv
<1> DEFINE r == await[a].run
<1>1. /\ await[a] \in AwaitRecord
      /\ \A q \in RunId : tree[q] \in Worktree
      /\ await[a].list \in SUBSET RunId /\ await[a].patch \in Work
  BY DEF TypeOK, AwaitRecord
<1>2. IdleAwait \in AwaitRecord  BY DEF IdleAwait, AwaitRecord, Work
<1>3. \A list \in SUBSET RunId :
          Walk(a, list) => await' \in [Await -> AwaitRecord]
  <2> SUFFICES ASSUME NEW list \in SUBSET RunId, Walk(a, list)
               PROVE  await' \in [Await -> AwaitRecord]
    OBVIOUS
  <2>1. [IdleAwait EXCEPT !.pc = "reaping", !.list = list] \in AwaitRecord
    BY <1>2 DEF AwaitRecord
  <2> QED BY <1>2, <2>1 DEF Walk, TypeOK
<1>4. \A pc \in {"reap", "took", "doom"} : [await[a] EXCEPT !.pc = pc] \in AwaitRecord
  BY <1>1 DEF AwaitRecord
<1>5. ASSUME NEW q \in RunId, AwaitEnds(a, q)  PROVE TypeOK'
  <2>1. [IdleAwait EXCEPT !.pc = "ended", !.run = q] \in AwaitRecord
    BY <1>2 DEF AwaitRecord
  <2> QED BY <1>5, <2>1 DEF AwaitEnds, TypeOK, runVars
<1>6. ASSUME NEW q \in RunId, ReapLook(a, q)  PROVE TypeOK'
  <2>1. [await[a] EXCEPT !.pc = "doom", !.run = q] \in AwaitRecord
    BY <1>1 DEF AwaitRecord
  <2>2. await[a].list \ {q} \in SUBSET RunId  BY <1>1
  <2>3. await' \in [Await -> AwaitRecord]
    BY <1>3, <1>6, <2>1, <2>2 DEF ReapLook, TypeOK
  <2> QED BY <1>6, <2>3 DEF ReapLook, TypeOK, runVars
<1>7. CASE TakeWorktree(a)
  <2>1. await' \in [Await -> AwaitRecord]
    BY <1>4, <1>7 DEF TakeWorktree, TypeOK
  <2>2. handle' \in SUBSET RunId  BY <1>7 DEF TakeWorktree, TypeOK
  <2> QED BY <1>7, <2>1, <2>2 DEF TakeWorktree, TypeOK, runVars
<1>8. CASE TakeDiff(a)
  <2>1. r \in RunId  BY <1>8 DEF TakeDiff, NamesRun
  <2>2. tree[r].files \in Work  BY <1>1, <2>1 DEF Worktree
  <2>3. [await[a] EXCEPT !.pc = "diffed", !.patch = tree[r].files] \in AwaitRecord
    BY <1>1, <2>2 DEF AwaitRecord
  <2>4. await' \in [Await -> AwaitRecord]
    BY <1>4, <1>8, <2>3 DEF TakeDiff, TypeOK
  <2>5. tree' \in [RunId -> Worktree]
    BY <1>8, WorktreeType DEF TakeDiff, TypeOK
  <2> QED BY <1>8, <2>4, <2>5 DEF TakeDiff, TypeOK, runVars
<1>9. CASE Collect(a)
  <2>1. r \in RunId  BY <1>9 DEF Collect, NamesRun
  <2>2. CASE await[a].patch = {}
    <3>1. store' \in [RunId -> Entry] /\ tree' \in [RunId -> Worktree]
      BY <1>9, <2>1, <2>2, DiscardType DEF Collect
    <3> QED BY <1>4, <1>9, <3>1 DEF Collect, TypeOK, runVars
  <2>3. CASE await[a].patch # {}
    <3>1. Diff(await[a].patch) \in Entry  BY <1>1, <2>3, EntryType
    <3>2. store' \in [RunId -> Entry] /\ tree' = tree
      BY <1>9, <2>3, <3>1 DEF Collect, Put, TypeOK
    <3> QED BY <1>4, <1>9, <3>2 DEF Collect, TypeOK, runVars
  <2> QED BY <2>2, <2>3
<1>10. CASE ReapList(a)
  <2>1. {q \in known : IsTerminal(runs[q].state) /\ runs[q].state # "completed"} \in SUBSET RunId
    BY DEF TypeOK
  <2>2. await' \in [Await -> AwaitRecord]  BY <1>3, <1>10, <2>1 DEF ReapList
  <2> QED BY <1>10, <2>2 DEF ReapList, TypeOK, runVars
<1>11. CASE ReapDiscard(a)
  <2>1. r \in RunId  BY <1>11 DEF ReapDiscard, NamesRun
  <2>2. store' \in [RunId -> Entry] /\ tree' \in [RunId -> Worktree]
    BY <1>11, <2>1, DiscardType DEF ReapDiscard
  <2>3. await[a].list \ {r} \in SUBSET RunId  BY <1>1
  <2>4. await' \in [Await -> AwaitRecord]  BY <1>3, <1>11, <2>3 DEF ReapDiscard
  <2> QED BY <1>11, <2>2, <2>4 DEF ReapDiscard, TypeOK, runVars
<1> QED BY <1>5, <1>6, <1>7, <1>8, <1>9, <1>10, <1>11 DEF AwaitStep

(* And after any step of an operator.                                      *)
LEMMA DecisionType ==
    ASSUME TypeInv, NEW o \in Operator, DecisionStep(o)
    PROVE  TypeOK'
<1> USE DEF TypeInv
<1> DEFINE r == decision[o].run
<1>1. decision[o] \in DecisionRecord  BY DEF TypeOK
<1>2. IdleDecision \in DecisionRecord  BY DEF IdleDecision, DecisionRecord
<1>3. ASSUME NEW q \in RunId, NEW agent \in BOOLEAN, AcceptLook(o, q, agent)  PROVE TypeOK'
  <2>1. [pc |-> "accepting", run |-> q, agent |-> agent] \in DecisionRecord
    BY DEF DecisionRecord
  <2> QED BY <1>3, <2>1 DEF AcceptLook, TypeOK, runVars
<1>4. ASSUME NEW q \in RunId, RejectLook(o, q)  PROVE TypeOK'
  <2>1. [IdleDecision EXCEPT !.pc = "rejecting", !.run = q] \in DecisionRecord
    BY <1>2 DEF DecisionRecord
  <2> QED BY <1>4, <2>1 DEF RejectLook, TypeOK, runVars
<1>5. CASE ApplyRefused(o)
  BY <1>2, <1>5 DEF ApplyRefused, TypeOK, runVars
<1>6. CASE Apply(o)
  <2>1. r \in RunId  BY <1>6 DEF Apply, NamesRun
  <2>2. store[r] \in Entry  BY <2>1 DEF TypeOK
  <2>3. store[r].kind = "diff" => [store[r] EXCEPT !.accepted = TRUE] \in Entry
    BY <2>2, EntryType
  <2>4. store' \in [RunId -> Entry]  BY <1>6, <2>3 DEF Apply, TypeOK
  <2>5. [decision[o] EXCEPT !.pc = "applied"] \in DecisionRecord
    BY <1>1 DEF DecisionRecord
  <2>6. decision' \in [Operator -> DecisionRecord]  BY <1>6, <2>5 DEF Apply, TypeOK
  <2> QED BY <1>6, <2>4, <2>6 DEF Apply, TypeOK, runVars
<1>7. CASE AcceptDone(o)
  <2>1. r \in RunId  BY <1>7 DEF AcceptDone, NamesRun
  <2>2. store' \in [RunId -> Entry] /\ tree' \in [RunId -> Worktree]
    BY <1>7, <2>1, DiscardType DEF AcceptDone
  <2> QED BY <1>2, <1>7, <2>2 DEF AcceptDone, TypeOK, runVars
<1>8. CASE RejectDone(o)
  <2>1. r \in RunId  BY <1>8 DEF RejectDone, NamesRun
  <2>2. store' \in [RunId -> Entry] /\ tree' \in [RunId -> Worktree]
    BY <1>8, <2>1, DiscardType DEF RejectDone
  <2>3. rejected' \in SUBSET RunId  BY <1>8, <2>1 DEF RejectDone, TypeOK
  <2> QED BY <1>2, <1>8, <2>2, <2>3 DEF RejectDone, TypeOK, runVars
<1> QED BY <1>3, <1>4, <1>5, <1>6, <1>7, <1>8 DEF DecisionStep

(* A handler names the runs it works on through each of its steps.         *)
LEMMA HandlerNames ==
    ASSUME TypeInv, NEW h \in Handler, HandlerStep(h)
    PROVE  NamesRun'
<1> USE DEF TypeInv
<1> DEFINE Named(x) ==
        /\ x.pc \in {"took", "registered", "labelled", "taken"} => x.pred \in RunId
        /\ x.pc \in {"built", "started"} => x.succ \in RunId
        /\ x.pc = "idle" => x = IdleHandler
<1>1. \A g \in Handler : Named(handler[g]) /\ handler[g] \in HandlerRecord
  BY DEF NamesRun, TypeOK
<1>2. Named(IdleHandler)  BY DEF IdleHandler
<1>3. await' = await /\ decision' = decision
  BY DEF HandlerStep, Create, Take, ContinueFrom, Refuse, RefuseStart, Start, Register,
         Label, TakeHandle, RetirePredecessor
<1>4. \E x \in HandlerRecord : Named(x) /\ handler' = [handler EXCEPT ![h] = x]
  <2>1. IdleHandler \in HandlerRecord  BY DEF IdleHandler, HandlerRecord
  <2>2. ASSUME NEW r \in RunId, Create(h, r)
        PROVE  \E x \in HandlerRecord : Named(x) /\ handler' = [handler EXCEPT ![h] = x]
    <3> DEFINE x == [IdleHandler EXCEPT !.pc = "built", !.succ = r]
    <3>1. x \in HandlerRecord /\ Named(x)  BY <2>1 DEF IdleHandler, HandlerRecord
    <3> QED BY <2>2, <3>1 DEF Create
  <2>3. ASSUME NEW r \in RunId, Take(h, r)
        PROVE  \E x \in HandlerRecord : Named(x) /\ handler' = [handler EXCEPT ![h] = x]
    <3> DEFINE x == [IdleHandler EXCEPT !.pc = "took", !.pred = r]
    <3>1. x \in HandlerRecord /\ Named(x)  BY <2>1 DEF IdleHandler, HandlerRecord
    <3> QED BY <2>3, <3>1 DEF Take
  <2>4. ASSUME NEW r \in RunId, ContinueFrom(h, r)
        PROVE  \E x \in HandlerRecord : Named(x) /\ handler' = [handler EXCEPT ![h] = x]
    <3> DEFINE x == [handler[h] EXCEPT !.pc = "built", !.succ = r]
    <3>1. x \in HandlerRecord /\ Named(x)  BY <1>1 DEF HandlerRecord
    <3>2. handler' = [handler EXCEPT ![h] = x]  BY <2>4 DEF ContinueFrom
    <3> HIDE DEF x, Named
    <3> QED BY <3>1, <3>2
  <2>5. CASE Refuse(h) \/ RefuseStart(h) \/ RetirePredecessor(h)
    <3>1. handler' = [handler EXCEPT ![h] = IdleHandler]
      BY <2>5 DEF Refuse, RefuseStart, RetirePredecessor
    <3> HIDE DEF Named
    <3> QED BY <1>2, <2>1, <3>1
  <2>6. CASE Start(h)
    <3> DEFINE x == [handler[h] EXCEPT !.pc = "started"]
    <3>1. x \in HandlerRecord /\ Named(x)
      BY <1>1, <2>6 DEF HandlerRecord, Start, HandlerAt
    <3> QED BY <2>6, <3>1 DEF Start, Move
  <2>7. CASE Register(h)
    <3> DEFINE x == IF handler[h].pred = None THEN IdleHandler
                    ELSE [handler[h] EXCEPT !.pc = "registered"]
    <3>1. x \in HandlerRecord /\ Named(x)
      <4>1. CASE handler[h].pred = None  BY <1>2, <2>1, <4>1
      <4>2. CASE handler[h].pred # None  BY <1>1, <4>2 DEF HandlerRecord
      <4> QED BY <4>1, <4>2
    <3>2. handler' = [handler EXCEPT ![h] = x]  BY <2>7 DEF Register
    <3> HIDE DEF x
    <3> QED BY <3>1, <3>2
  <2>8. CASE Label(h)
    <3> DEFINE x == [handler[h] EXCEPT !.pc = "labelled"]
    <3>1. x \in HandlerRecord /\ Named(x)
      BY <1>1, <2>8 DEF HandlerRecord, Label, HandlerAt
    <3> QED BY <2>8, <3>1 DEF Label, Move
  <2>9. CASE TakeHandle(h)
    <3> DEFINE x == [handler[h] EXCEPT !.pc = "taken"]
    <3>1. x \in HandlerRecord /\ Named(x)
      BY <1>1, <2>9 DEF HandlerRecord, TakeHandle, HandlerAt
    <3> QED BY <2>9, <3>1 DEF TakeHandle, Move
  <2> QED BY <2>2, <2>3, <2>4, <2>5, <2>6, <2>7, <2>8, <2>9 DEF HandlerStep
<1>5. handler \in [Handler -> HandlerRecord]  BY DEF TypeOK
<1>6. \A g \in Handler : Named(handler'[g])
  <2>1. PICK x \in HandlerRecord : Named(x) /\ handler' = [handler EXCEPT ![h] = x]
    BY <1>4
  <2>2. handler'[h] = x /\ \A g \in Handler : g # h => handler'[g] = handler[g]
    BY <1>5, <2>1
  <2> HIDE DEF Named
  <2>3. ASSUME NEW g \in Handler  PROVE Named(handler'[g])
    <3>1. CASE g = h  BY <2>1, <2>2, <3>1
    <3>2. CASE g # h  BY <1>1, <2>2, <3>2
    <3> QED BY <3>1, <3>2
  <2> QED BY <2>3
<1> QED BY <1>3, <1>6 DEF NamesRun

(* An await names the run it collects or discards.                         *)
LEMMA AwaitNames ==
    ASSUME TypeInv, NEW a \in Await, AwaitStep(a)
    PROVE  NamesRun'
<1> USE DEF TypeInv
<1>1. handler' = handler /\ decision' = decision
  BY DEF AwaitStep, AwaitEnds, ReapLook, TakeWorktree, TakeDiff, Collect, ReapList, ReapDiscard
<1>2. await \in [Await -> AwaitRecord]  BY DEF TypeOK
<1>3. \A b \in Await : await'[b].pc \in {"ended", "took", "diffed", "doom"}
                           => await'[b].run \in RunId
  <2>1. ASSUME NEW r \in RunId, AwaitEnds(a, r)
        PROVE  \A b \in Await : await'[b].pc \in {"ended", "took", "diffed", "doom"}
                                    => await'[b].run \in RunId
    BY <1>2, <2>1 DEF AwaitEnds, NamesRun, IdleAwait
  <2>2. ASSUME NEW r \in RunId, ReapLook(a, r)
        PROVE  \A b \in Await : await'[b].pc \in {"ended", "took", "diffed", "doom"}
                                    => await'[b].run \in RunId
    <3>1. CASE store[r].kind = "spawned"
      <4>1. await' = [await EXCEPT ![a] = [await[a] EXCEPT !.pc = "doom", !.run = r]]
        BY <2>2, <3>1 DEF ReapLook
      <4>2. await[a] \in AwaitRecord  BY <1>2
      <4>3. [await[a] EXCEPT !.pc = "doom", !.run = r].run = r
        BY <4>2 DEF AwaitRecord
      <4> QED BY <1>2, <4>1, <4>3 DEF NamesRun
    <3>2. CASE store[r].kind # "spawned"
      <4>1. Walk(a, await[a].list \ {r})  BY <2>2, <3>2 DEF ReapLook
      <4>2. \A b \in Await : b # a => await'[b] = await[b]  BY <1>2, <4>1 DEF Walk
      <4>3. await'[a].pc \in {"idle", "reaping"}  BY <1>2, <4>1 DEF Walk, IdleAwait
      <4> QED BY <4>2, <4>3 DEF NamesRun
    <3> QED BY <3>1, <3>2
  <2>3. CASE TakeWorktree(a)
    BY <1>2, <2>3 DEF TakeWorktree, NamesRun, AwaitRecord
  <2>4. CASE TakeDiff(a)
    BY <1>2, <2>4 DEF TakeDiff, NamesRun, AwaitRecord
  <2>5. CASE Collect(a)
    BY <1>2, <2>5 DEF Collect, NamesRun, AwaitRecord
  <2>6. CASE ReapList(a)
    BY <1>2, <2>6 DEF ReapList, Walk, NamesRun, IdleAwait
  <2>7. CASE ReapDiscard(a)
    BY <1>2, <2>7 DEF ReapDiscard, Walk, NamesRun, IdleAwait
  <2> QED BY <2>1, <2>2, <2>3, <2>4, <2>5, <2>6, <2>7 DEF AwaitStep
<1> QED BY <1>1, <1>3 DEF NamesRun

(* An operator's decision names its run.                                   *)
LEMMA DecisionNames ==
    ASSUME TypeInv, NEW o \in Operator, DecisionStep(o)
    PROVE  NamesRun'
<1> USE DEF TypeInv
<1>1. handler' = handler /\ await' = await
  BY DEF DecisionStep, AcceptLook, RejectLook, ApplyRefused, Apply, AcceptDone, RejectDone
<1>2. decision \in [Operator -> DecisionRecord]  BY DEF TypeOK
<1>3. \A p \in Operator : decision'[p].pc # "idle" => decision'[p].run \in RunId
  <2>1. ASSUME NEW r \in RunId, NEW agent \in BOOLEAN, AcceptLook(o, r, agent)
        PROVE  \A p \in Operator : decision'[p].pc # "idle" => decision'[p].run \in RunId
    BY <1>2, <2>1 DEF AcceptLook, NamesRun
  <2>2. ASSUME NEW r \in RunId, RejectLook(o, r)
        PROVE  \A p \in Operator : decision'[p].pc # "idle" => decision'[p].run \in RunId
    BY <1>2, <2>2 DEF RejectLook, NamesRun, IdleDecision
  <2>3. CASE ApplyRefused(o) \/ AcceptDone(o) \/ RejectDone(o)
    BY <1>2, <2>3 DEF ApplyRefused, AcceptDone, RejectDone, NamesRun, IdleDecision
  <2>4. CASE Apply(o)
    BY <1>2, <2>4 DEF Apply, NamesRun, DecisionRecord
  <2> QED BY <2>1, <2>2, <2>3, <2>4 DEF DecisionStep
<1> QED BY <1>1, <1>3 DEF NamesRun

(* Every variable keeps to its type, and no call works on a run it has not *)
(* been given.                                                             *)
THEOREM TypeCorrect == Spec => []TypeInv
<1>1. Init => TypeInv
  <2>1. Init => NamesRun
    BY DEF Init, NamesRun, IdleHandler, IdleAwait, IdleDecision
  <2> QED BY <2>1, InitType DEF TypeInv
<1>2. TypeInv /\ [Next]_vars => TypeInv'
  <2> SUFFICES ASSUME TypeInv, [Next]_vars PROVE TypeInv'  OBVIOUS
  <2>1. ASSUME NEW h \in Handler, HandlerStep(h)  PROVE TypeInv'
    BY <2>1, HandlerType, HandlerNames DEF TypeInv
  <2>2. ASSUME NEW r \in RunId, RunStep(r)  PROVE TypeInv'
    <3>1. handler' = handler /\ await' = await /\ decision' = decision
      BY <2>2 DEF RunStep, Edit, ChildEnds, Rest, ExpireRun, Forget
    <3>2. NamesRun'  BY <3>1 DEF NamesRun, TypeInv
    <3> QED BY <2>2, <3>2, RunType DEF TypeInv
  <2>3. ASSUME NEW a \in Await, AwaitStep(a)  PROVE TypeInv'
    BY <2>3, AwaitType, AwaitNames DEF TypeInv
  <2>4. ASSUME NEW o \in Operator, DecisionStep(o)  PROVE TypeInv'
    BY <2>4, DecisionType, DecisionNames DEF TypeInv
  <2>5. CASE UNCHANGED vars
    BY <2>5 DEF vars, runVars, TypeInv, TypeOK, NamesRun
  <2> QED BY <2>1, <2>2, <2>3, <2>4, <2>5 DEF Next
<1> QED BY <1>1, <1>2, PTL DEF Spec

-----------------------------------------------------------------------------
(* Worktrees *)

(* discard removes a worktree with its entry, and no other.                *)
LEMMA DiscardKeeps ==
    ASSUME TypeInv, NEW r \in RunId, Discard(r), NEW q \in RunId
    PROVE  \/ store'[q] = store[q] /\ tree'[q] = tree[q]
           \/ q = r /\ store'[q] = NoEntry /\ tree'[q] = Gone
<1> USE DEF TypeInv
<1>1. CASE store[r].kind = "none"  BY <1>1 DEF Discard
<1>2. CASE store[r].kind # "none"  BY <1>2 DEF Discard, Put, TypeOK
<1> QED BY <1>1, <1>2

(* A worktree that nobody makes stays reachable while no entry goes without *)
(* its worktree and no handler lets go of the run it has chosen.           *)
LEMMA ReachableKept ==
    ASSUME WorktreesReachable,
           \A q \in RunId : tree'[q].there =>
               /\ tree[q].there
               /\ store[q].kind # "none" => store'[q].kind # "none",
           \A g \in Handler : handler[g].pc \in {"built", "started"} =>
               /\ handler'[g].pc \in {"built", "started"}
               /\ handler'[g].succ = handler[g].succ
    PROVE  WorktreesReachable'
BY DEF WorktreesReachable

(* discard does nothing else.                                              *)
LEMMA DiscardReaches ==
    ASSUME TypeInv, NEW r \in RunId, Discard(r)
    PROVE  \A q \in RunId : tree'[q].there =>
               /\ tree[q].there
               /\ store[q].kind # "none" => store'[q].kind # "none"
BY DiscardKeeps DEF Gone

(* A handler registers or removes what it has made.                        *)
LEMMA HandlerReaches ==
    ASSUME TypeInv, WorktreesReachable, NEW h \in Handler, HandlerStep(h)
    PROVE  WorktreesReachable'
<1> DEFINE p == handler[h].pred
           s == handler[h].succ
<1>1. /\ handler \in [Handler -> HandlerRecord] /\ tree \in [RunId -> Worktree]
      /\ store \in [RunId -> Entry]
  BY DEF TypeInv, TypeOK
<1>2. \A r \in RunId : tree[r] \in Worktree  BY <1>1
<1>3. ASSUME NEW r \in RunId, Create(h, r)  PROVE WorktreesReachable'
  <2>1. handler'[h].pc = "built" /\ handler'[h].succ = r
    BY <1>1, <1>3 DEF Create, IdleHandler
  <2>2. \A g \in Handler : g # h => handler'[g] = handler[g]  BY <1>1, <1>3 DEF Create
  <2>3. \A q \in RunId : q # r => tree'[q] = tree[q]  BY <1>1, <1>3 DEF Create
  <2>4. store' = store /\ handler[h].pc = "idle"  BY <1>3 DEF Create, HandlerAt
  <2> QED BY <2>1, <2>2, <2>3, <2>4 DEF WorktreesReachable
<1>4. ASSUME NEW r \in RunId, Take(h, r)  PROVE WorktreesReachable'
  BY <1>1, <1>4, ReachableKept DEF Take, HandlerAt
<1>5. ASSUME NEW r \in RunId, ContinueFrom(h, r)  PROVE WorktreesReachable'
  <2>1. handler'[h].pc = "built" /\ handler'[h].succ = r
    BY <1>1, <1>5 DEF ContinueFrom, HandlerRecord
  <2>2. \A g \in Handler : g # h => handler'[g] = handler[g]  BY <1>1, <1>5 DEF ContinueFrom
  <2>3. store' = store /\ handler[h].pc = "took" /\ p \in RunId /\ tree[p].there
    BY <1>5 DEF ContinueFrom, HandlerAt, TypeInv, NamesRun
  <2>4. \A q \in RunId : q # r => tree'[q].there = tree[q].there
    <3>1. tree' = [tree EXCEPT ![p] = Commit(p), ![r] = Checkout(HandedOn(p))]
      BY <1>5 DEF ContinueFrom
    <3>2. Commit(p).there = tree[p].there  BY <1>2, <2>3 DEF Commit, Worktree
    <3> QED BY <1>1, <2>3, <3>1, <3>2
  <2> QED BY <2>1, <2>2, <2>3, <2>4 DEF WorktreesReachable
<1>6. CASE Refuse(h)
  <2>1. p \in RunId /\ handler[h].pc = "took"
    BY <1>6 DEF Refuse, HandlerAt, TypeInv, NamesRun
  <2>2. Commit(p).there = tree[p].there  BY <1>2, <2>1 DEF Commit, Worktree
  <2>3. \A q \in RunId : tree'[q].there => tree[q].there
    BY <1>1, <1>6, <2>1, <2>2 DEF Refuse
  <2>4. \A g \in Handler : g # h => handler'[g] = handler[g]  BY <1>1, <1>6 DEF Refuse
  <2> QED BY <1>6, <2>1, <2>3, <2>4, ReachableKept DEF Refuse
<1>7. CASE RefuseStart(h)
  <2>1. s \in RunId /\ handler[h].pc = "built"
    BY <1>7 DEF RefuseStart, HandlerAt, TypeInv, NamesRun
  <2>2. ~tree'[s].there /\ \A q \in RunId : q # s => tree'[q] = tree[q]
    BY <1>1, <1>7, <2>1 DEF RefuseStart, Gone
  <2>3. \A g \in Handler : g # h => handler'[g] = handler[g]  BY <1>1, <1>7 DEF RefuseStart
  <2>4. store' = store  BY <1>7 DEF RefuseStart
  <2> QED BY <2>2, <2>3, <2>4 DEF WorktreesReachable
<1>8. CASE Start(h)
  <2>1. handler'[h].pc = "started" /\ handler'[h].succ = s
    BY <1>1, <1>8 DEF Start, Move, HandlerRecord
  <2>2. \A g \in Handler : g # h => handler'[g] = handler[g]  BY <1>1, <1>8 DEF Start, Move
  <2>3. tree' = tree /\ store' = store  BY <1>8 DEF Start
  <2> QED BY <2>1, <2>2, <2>3, ReachableKept
<1>9. CASE Register(h)
  <2>1. s \in RunId  BY <1>9 DEF Register, HandlerAt, TypeInv, NamesRun
  <2>2. store'[s] = Spawned /\ \A q \in RunId : q # s => store'[q] = store[q]
    BY <1>1, <1>9, <2>1 DEF Register, Put
  <2>3. Spawned.kind = "spawned"  BY DEF Spawned, NoEntry
  <2>4. \A g \in Handler : g # h => handler'[g] = handler[g]  BY <1>1, <1>9 DEF Register
  <2>5. tree' = tree  BY <1>9 DEF Register
  <2> QED BY <2>2, <2>3, <2>4, <2>5 DEF WorktreesReachable
<1>10. CASE Label(h) \/ TakeHandle(h)
  <2>1. \A g \in Handler : g # h => handler'[g] = handler[g]
    BY <1>1, <1>10 DEF Label, TakeHandle, Move
  <2>2. tree' = tree /\ store' = store /\ handler[h].pc \notin {"built", "started"}
    BY <1>10 DEF Label, TakeHandle, HandlerAt
  <2> QED BY <2>1, <2>2, ReachableKept
<1>11. CASE RetirePredecessor(h)
  <2>1. p \in RunId /\ handler[h].pc = "taken" /\ Discard(p)
    BY <1>11 DEF RetirePredecessor, HandlerAt, TypeInv, NamesRun
  <2>2. \A g \in Handler : g # h => handler'[g] = handler[g]
    BY <1>1, <1>11 DEF RetirePredecessor
  <2> QED BY <2>1, <2>2, DiscardReaches, ReachableKept
<1> QED BY <1>3, <1>4, <1>5, <1>6, <1>7, <1>8, <1>9, <1>10, <1>11 DEF HandlerStep

(* Awaits and operators only take away, the entry with the worktree.       *)
LEMMA OthersReach ==
    ASSUME TypeInv, WorktreesReachable,
           \/ \E r \in RunId : RunStep(r)
           \/ \E a \in Await : AwaitStep(a)
           \/ \E o \in Operator : DecisionStep(o)
    PROVE  WorktreesReachable'
<1> DEFINE Kept == \A q \in RunId : tree'[q].there =>
                       /\ tree[q].there
                       /\ store[q].kind # "none" => store'[q].kind # "none"
<1>1. handler' = handler /\ Kept => WorktreesReachable'
  BY ReachableKept
<1>2. tree \in [RunId -> Worktree] /\ store \in [RunId -> Entry]  BY DEF TypeInv, TypeOK
<1>3. \A r \in RunId : Discard(r) => Kept  BY DiscardReaches
<1>4. ASSUME NEW r \in RunId, RunStep(r)  PROVE handler' = handler /\ Kept
  <2>1. CASE Edit(r)
    <3>1. tree'[r].there = tree[r].there
      BY <1>2, <2>1 DEF Edit, Worktree
    <3> QED BY <1>2, <2>1, <3>1 DEF Edit
  <2>2. CASE ChildEnds(r) \/ Rest(r) \/ ExpireRun(r) \/ Forget(r)
    BY <2>2 DEF ChildEnds, Rest, ExpireRun, Forget
  <2> QED BY <1>4, <2>1, <2>2 DEF RunStep
<1>5. ASSUME NEW a \in Await, AwaitStep(a)  PROVE handler' = handler /\ Kept
  <2>1. CASE \/ \E r \in RunId : AwaitEnds(a, r) \/ ReapLook(a, r)
             \/ TakeWorktree(a) \/ ReapList(a)
    BY <2>1 DEF AwaitEnds, ReapLook, TakeWorktree, ReapList
  <2>2. CASE TakeDiff(a)
    <3>1. handler' = handler /\ store' = store  BY <2>2 DEF TakeDiff
    <3>2. tree' = tree \/ tree' = [tree EXCEPT ![await[a].run] = Gone]  BY <2>2 DEF TakeDiff
    <3>3. \A q \in RunId : tree'[q] = tree[q] \/ tree'[q] = Gone  BY <1>2, <3>2
    <3> QED BY <3>1, <3>3 DEF Gone
  <2>3. CASE Collect(a)
    <3>1. await[a].run \in RunId /\ handler' = handler
      BY <2>3 DEF Collect, TypeInv, NamesRun
    <3>2. CASE await[a].patch = {}  BY <1>3, <2>3, <3>1, <3>2 DEF Collect
    <3>3. CASE await[a].patch # {}
      <4>1. tree' = tree /\ store' = [store EXCEPT ![await[a].run] = Diff(await[a].patch)]
        BY <2>3, <3>3 DEF Collect, Put
      <4>2. Diff(await[a].patch).kind = "diff"  BY DEF Diff
      <4> QED BY <1>2, <3>1, <4>1, <4>2
    <3> QED BY <3>2, <3>3
  <2>4. CASE ReapDiscard(a)
    <3>1. await[a].run \in RunId /\ handler' = handler /\ Discard(await[a].run)
      BY <2>4 DEF ReapDiscard, TypeInv, NamesRun
    <3> QED BY <1>3, <3>1
  <2> QED BY <1>5, <2>1, <2>2, <2>3, <2>4 DEF AwaitStep
<1>6. ASSUME NEW o \in Operator, DecisionStep(o)  PROVE handler' = handler /\ Kept
  <2>1. CASE \/ \E r \in RunId : (\E agent \in BOOLEAN : AcceptLook(o, r, agent)) \/ RejectLook(o, r)
             \/ ApplyRefused(o)
    BY <2>1 DEF AcceptLook, RejectLook, ApplyRefused
  <2>2. CASE Apply(o)
    <3>1. decision[o].run \in RunId /\ handler' = handler /\ tree' = tree
      BY <2>2 DEF Apply, TypeInv, NamesRun
    <3>2. \A q \in RunId : store'[q].kind = store[q].kind
      <4>1. \A q \in RunId : store[q].kind = "diff" =>
                [store[q] EXCEPT !.accepted = TRUE].kind = "diff"
        BY <1>2 DEF Entry
      <4> QED BY <1>2, <2>2, <3>1, <4>1 DEF Apply
    <3> QED BY <3>1, <3>2
  <2>3. CASE AcceptDone(o) \/ RejectDone(o)
    <3>1. decision[o].run \in RunId /\ handler' = handler /\ Discard(decision[o].run)
      BY <2>3 DEF AcceptDone, RejectDone, TypeInv, NamesRun
    <3> QED BY <1>3, <3>1
  <2> QED BY <1>6, <2>1, <2>2, <2>3 DEF DecisionStep
<1> HIDE DEF Kept
<1> QED BY <1>1, <1>4, <1>5, <1>6

(* No worktree leaks, whatever handlers, awaits and operators do at once:  *)
(* one that is on disk is registered, or a handler holds it that is going  *)
(* to register or remove it.                                               *)
THEOREM WorktreesCorrect == Spec => []WorktreesReachable
<1>1. Init => WorktreesReachable  BY DEF Init, WorktreesReachable, Gone
<1>2. TypeInv /\ WorktreesReachable /\ [Next]_vars => WorktreesReachable'
  <2> SUFFICES ASSUME TypeInv, WorktreesReachable, [Next]_vars
               PROVE  WorktreesReachable'
    OBVIOUS
  <2>1. CASE UNCHANGED vars  BY <2>1 DEF vars, WorktreesReachable
  <2> QED BY <2>1, HandlerReaches, OthersReach DEF Next
<1> QED BY <1>1, <1>2, TypeCorrect, PTL DEF Spec

-----------------------------------------------------------------------------
(* The workspace of a run that lives *)

(* What is held about the handlers' runs: one id is chosen by one handler; *)
(* a predecessor has come to rest, and it has ended once it is labelled; a *)
(* chosen id has its worktree before it has a run.                         *)
HandlerOK(h) ==
    /\ handler[h].pc = "built" => /\ handler[h].succ \in RunId
                                  /\ runs[handler[h].succ].state = "unstarted"
                                  /\ tree[handler[h].succ].there
    /\ handler[h].pc = "started" => /\ handler[h].succ \in RunId
                                    /\ runs[handler[h].succ].state # "unstarted"
    /\ handler[h].pred # None => Settled(runs[handler[h].pred].state)
    /\ handler[h].pc \in {"labelled", "taken"} => IsTerminal(runs[handler[h].pred].state)

Distinct ==
    \A h, g \in Handler :
        h # g /\ handler[h].succ = handler[g].succ => handler[h].succ = None

HandlerInv == Distinct /\ \A h \in Handler : HandlerOK(h)

(* Only what has run is registered, and a diff only of what has ended.     *)
StoreInv ==
    \A r \in RunId :
        /\ r \in child => runs[r].state # "unstarted"
        /\ store[r].kind # "none" => runs[r].state # "unstarted"
        /\ store[r].kind = "diff" => IsTerminal(runs[r].state)

(* What an await is about to take away has ended.                          *)
AwaitInv ==
    \A a \in Await :
        /\ await[a].pc \in {"ended", "took", "diffed", "doom"} =>
               await[a].run \in RunId /\ IsTerminal(runs[await[a].run].state)
        /\ \A r \in await[a].list : IsTerminal(runs[r].state)

(* What an operator accepts has ended, and what is rejected has run.       *)
DecisionInv ==
    \A o \in Operator :
        /\ decision[o].pc \in {"accepting", "applied"} =>
               decision[o].run \in RunId /\ IsTerminal(runs[decision[o].run].state)
        /\ decision[o].pc = "rejecting" =>
               decision[o].run \in RunId /\ runs[decision[o].run].state # "unstarted"

KeepsInv == HandlerInv /\ StoreInv /\ AwaitInv /\ DecisionInv /\ LiveKeepsWorkspace

(* How a run grows older in a step: what has run does not become unstarted,*)
(* what has settled stays settled, and what has ended has ended for good.  *)
Older(r) ==
    /\ runs[r].state # "unstarted" => runs'[r].state # "unstarted"
    /\ Settled(runs[r].state) => Settled(runs'[r].state)
    /\ IsTerminal(runs[r].state) => IsTerminal(runs'[r].state)

Ages == \A r \in RunId : Older(r)

(* And no run comes to life but the ones a handler starts.                 *)
Live(state) == state \in {"running", "needs_input"}

NotBorn(r) ==
    /\ Live(runs'[r].state) => Live(runs[r].state)
    /\ runs[r].state = "unstarted" => runs'[r].state = "unstarted"

NoneBorn == \A r \in RunId : NotBorn(r)

(* A run is in one of three phases.                                        *)
LEMMA Phases ==
    ASSUME TypeOK, NEW r \in RunId
    PROVE  /\ runs[r] \in RunRecord
           /\ Live(runs[r].state) <=> ~(IsTerminal(runs[r].state) \/ runs[r].state = "unstarted")
           /\ Live(runs[r].state) => ~(IsTerminal(runs[r].state) \/ runs[r].state = "unstarted")
           /\ IsTerminal(runs[r].state) => Settled(runs[r].state)
           /\ Settled(runs[r].state) => runs[r].state # "unstarted"
BY DEF TypeOK, RunRecord, States, Live, IsTerminal, Settled

(* Each method leaves an older run.                                        *)
LEMMA MethodsAge ==
    ASSUME TypeOK, NEW r \in RunId,
           \/ runs'[r] = runs[r]
           \/ runs'[r] = TakeContinuation(runs[r])
           \/ runs'[r] = SetContinuation(runs[r])
           \/ runs'[r] = Retire(runs[r])
           \/ \E s : runs'[r] = Supersede(runs[r], s)
           \/ runs'[r] = Finish(runs[r], "completed")
           \/ runs'[r] = Finish(runs[r], "failed")
    PROVE  /\ Older(r)
           /\ runs[r].state # "unstarted" \/ runs'[r].state = runs[r].state => NotBorn(r)
<1>1. runs[r] \in RunRecord  BY DEF TypeOK
<1>2. CASE runs'[r] = runs[r]  BY <1>2 DEF Older, NotBorn
<1>3. CASE runs'[r] = TakeContinuation(runs[r]) \/ runs'[r] = SetContinuation(runs[r])
           \/ runs'[r] = Retire(runs[r])
  <2>1. runs'[r].state = runs[r].state
    BY <1>1, <1>3 DEF TakeContinuation, SetContinuation, Retire, RunRecord
  <2> QED BY <2>1 DEF Older, NotBorn
<1>4. CASE \E s : runs'[r] = Supersede(runs[r], s)
  <2>1. runs'[r].state = IF runs[r].state # "needs_input" THEN runs[r].state ELSE "superseded"
    BY <1>1, <1>4 DEF Supersede, RunRecord
  <2> QED BY <2>1 DEF Older, Settled, IsTerminal, Live, NotBorn
<1>5. CASE runs'[r] = Finish(runs[r], "completed") \/ runs'[r] = Finish(runs[r], "failed")
  <2>1. runs'[r].state = runs[r].state \/ runs'[r].state \in {"completed", "failed"}
    BY <1>1, <1>5 DEF Finish, RunRecord
  <2>2. Settled(runs[r].state) => runs'[r].state = runs[r].state
    BY <1>5 DEF Finish
  <2>3. IsTerminal(runs[r].state) => Settled(runs[r].state)  BY DEF Settled
  <2> QED BY <2>1, <2>2, <2>3 DEF Older, Settled, IsTerminal, Live, NotBorn
<1> QED BY <1>2, <1>3, <1>4, <1>5

(* So every step leaves older runs, and only Start brings one to life.     *)
LEMMA HandlerAges ==
    ASSUME TypeInv, KeepsInv, NEW h \in Handler, HandlerStep(h)
    PROVE  /\ Ages
           /\ NoneBorn \/ Start(h)
           /\ Start(h) => \A r \in RunId : r # handler[h].succ => NotBorn(r)
           /\ Start(h) => /\ handler[h].succ \in RunId
                          /\ runs'[handler[h].succ].state = "running"
<1> DEFINE p == handler[h].pred
           s == handler[h].succ
<1>1. TypeOK /\ runs \in [RunId -> RunRecord]  BY DEF TypeInv, TypeOK
<1>2. ASSUME NEW r \in RunId, Create(h, r) \/ ContinueFrom(h, r)
      PROVE  Ages /\ NoneBorn /\ ~Start(h)
  <2>1. runs' = runs /\ ~Start(h)
    BY <1>2 DEF Create, ContinueFrom, Start, HandlerAt, runVars
  <2> QED BY <1>1, <2>1, MethodsAge DEF Ages, NoneBorn
<1>3. ASSUME NEW r \in RunId, Take(h, r)  PROVE Ages /\ NoneBorn /\ ~Start(h)
  <2>1. ~Start(h) /\ runs[r].state = "needs_input" /\ runs' = [runs EXCEPT ![r] = TakeContinuation(@)]
    BY <1>3 DEF Take, Start, HandlerAt, MayTakeContinuation
  <2>2. \A q \in RunId : q # r => runs'[q] = runs[q]  BY <1>1, <2>1
  <2>3. runs'[r] = TakeContinuation(runs[r])  BY <1>1, <2>1
  <2> QED BY <1>1, <2>1, <2>2, <2>3, MethodsAge DEF Ages, NoneBorn
<1>4. CASE Refuse(h) \/ RefuseStart(h)
  <2>2. \A q \in RunId : runs'[q] = runs[q] \/ (q = p /\ runs'[q] = SetContinuation(runs[q]))
    BY <1>1, <1>4 DEF Refuse, RefuseStart
  <2>3. \A q \in RunId : q = p => runs[q].state # "unstarted"
    <3>1. \A q \in RunId : q # None  BY NoneAssumption
    <3>2. \A q \in RunId : q = p => Settled(runs[q].state)
      BY <3>1 DEF KeepsInv, HandlerInv, HandlerOK
    <3> QED BY <1>1, <3>2, Phases
  <2>4. Ages /\ NoneBorn  BY <1>1, <2>2, <2>3, MethodsAge DEF Ages, NoneBorn
  <2>5. ~Start(h)
    <3>1. CASE Refuse(h)  BY <3>1 DEF Refuse, Start, HandlerAt
    <3>2. CASE RefuseStart(h)
      <4>1. handler \in [Handler -> HandlerRecord] /\ handler'[h].pc = "idle"
        BY <3>2 DEF RefuseStart, TypeInv, TypeOK, IdleHandler
      <4>2. Start(h) => handler'[h].pc = "started"
        BY <4>1 DEF Start, Move, HandlerRecord
      <4> QED BY <4>1, <4>2
    <3> QED BY <1>4, <3>1, <3>2
  <2> QED BY <2>4, <2>5
<1>5. CASE Start(h)
  <2> DEFINE depth == IF p = None THEN 0 ELSE runs[p].links + 1
             new == [NewRun(p, depth) EXCEPT !.cancel = TRUE]
  <2>1. s \in RunId /\ runs[s].state = "unstarted"
    BY <1>5 DEF Start, HandlerAt, KeepsInv, HandlerInv, HandlerOK
  <2>2. new.state = "running"  BY DEF NewRun, NoRun
  <2> HIDE DEF depth
  <2>3. runs' = [r \in RunId |->
                  CASE r = s -> [NewRun(p, depth) EXCEPT !.cancel = TRUE]
                    [] r = p /\ p \in known -> Retire(runs[r])
                    [] OTHER -> runs[r]]
    BY <1>5 DEF Start, depth
  <2>4. \A q \in RunId : q # s => runs'[q] = runs[q] \/ (q = p /\ runs'[q] = Retire(runs[q]))
    BY <2>3
  <2>5. \A q \in RunId : q = p => runs[q].state # "unstarted"
    <3>1. \A q \in RunId : q # None  BY NoneAssumption
    <3>2. \A q \in RunId : q = p => Settled(runs[q].state)
      BY <3>1 DEF KeepsInv, HandlerInv, HandlerOK
    <3> QED BY <1>1, <3>2, Phases
  <2>6. runs'[s] = new  BY <2>1, <2>3, <2>5
  <2> HIDE DEF new
  <2>7. \A q \in RunId : q # s => Older(q) /\ NotBorn(q)
    BY <1>1, <2>4, <2>5, MethodsAge
  <2>8. Older(s)  BY <2>1, <2>2, <2>6 DEF Older, Settled, IsTerminal
  <2> QED BY <1>5, <2>1, <2>2, <2>6, <2>7, <2>8 DEF Ages
<1>6. CASE Register(h) \/ TakeHandle(h) \/ RetirePredecessor(h)
  <2>1. runs' = runs  BY <1>6 DEF Register, TakeHandle, RetirePredecessor, runVars
  <2>2. ~Start(h)
    <3>1. handler[h].pc # "built"  BY <1>6 DEF Register, TakeHandle, RetirePredecessor, HandlerAt
    <3> QED BY <3>1 DEF Start, HandlerAt
  <2> QED BY <1>1, <2>1, <2>2, MethodsAge DEF Ages, NoneBorn
<1>7. CASE Label(h)
  <2>1. p \in RunId /\ Settled(runs[p].state)
    BY <1>7, NoneAssumption DEF Label, HandlerAt, KeepsInv, HandlerInv, HandlerOK, TypeInv, NamesRun
  <2>2. \A q \in RunId : q # p => runs'[q] = runs[q]  BY <1>1, <1>7 DEF Label
  <2>3. runs'[p] = Supersede(runs[p], s)  BY <1>1, <1>7, <2>1 DEF Label
  <2>4. ~Start(h)  BY <1>7 DEF Label, Start, HandlerAt
  <2>5. runs[p].state # "unstarted"  BY <1>1, <2>1, Phases
  <2>6. \A q \in RunId : Older(q) /\ NotBorn(q)
    BY <1>1, <2>1, <2>2, <2>3, <2>5, MethodsAge
  <2> QED BY <2>4, <2>6 DEF Ages, NoneBorn
<1> QED BY <1>2, <1>3, <1>4, <1>5, <1>6, <1>7 DEF HandlerStep

(* The run's own steps do the same.                                        *)
LEMMA RunAges ==
    ASSUME TypeInv, KeepsInv, NEW r \in RunId, RunStep(r)
    PROVE  Ages /\ NoneBorn
<1>1. TypeOK /\ runs \in [RunId -> RunRecord] /\ runs[r] \in RunRecord
  BY DEF TypeInv, TypeOK
<1>2. CASE Edit(r) \/ Forget(r)
  <2>1. runs' = runs  BY <1>2 DEF Edit, Forget, runVars
  <2> QED BY <1>1, <2>1, MethodsAge DEF Ages, NoneBorn
<1>3. CASE ChildEnds(r)
  <2>1. runs[r].state # "unstarted"  BY <1>3 DEF ChildEnds, KeepsInv, StoreInv
  <2>2. runs'[r] = Finish(runs[r], "completed") \/ runs'[r] = Finish(runs[r], "failed")
    BY <1>1, <1>3 DEF ChildEnds
  <2>3. \A q \in RunId : q # r => runs'[q] = runs[q]  BY <1>1, <1>3 DEF ChildEnds
  <2> QED BY <1>1, <2>1, <2>2, <2>3, MethodsAge DEF Ages, NoneBorn
<1>4. CASE Rest(r)
  <2>1. runs[r].state = "running" /\ \A q \in RunId : q # r => runs'[q] = runs[q]
    BY <1>1, <1>4 DEF Rest
  <2>2. runs'[r].state = "needs_input"
    <3> DEFINE asks == [runs[r] EXCEPT !.asked = TRUE]
    <3>1. asks \in RunRecord /\ asks.state = "running"  BY <1>1, <2>1 DEF RunRecord
    <3>2. runs'[r] = CancelRested(NeedsInput(asks))  BY <1>1, <1>4 DEF Rest
    <3> HIDE DEF asks
    <3> QED BY <3>1, <3>2 DEF NeedsInput, CancelRested, RunRecord, Settled, IsTerminal
  <2>3. Older(r) /\ NotBorn(r)
    BY <2>1, <2>2 DEF Older, NotBorn, Settled, IsTerminal, Live
  <2> QED BY <1>1, <2>1, <2>3, MethodsAge DEF Ages, NoneBorn
<1>5. CASE ExpireRun(r)
  <2>1. runs[r].state = "needs_input" /\ \A q \in RunId : q # r => runs'[q] = runs[q]
    BY <1>1, <1>5 DEF ExpireRun
  <2>2. runs'[r].state \in {"failed", "needs_input"}
    <3> DEFINE due == [runs[r] EXCEPT !.deadline = "passed"]
    <3>1. due \in RunRecord /\ due.state = "needs_input"  BY <1>1, <2>1 DEF RunRecord
    <3>2. runs'[r] = Expire(due)  BY <1>1, <1>5 DEF ExpireRun
    <3> HIDE DEF due
    <3> QED BY <3>1, <3>2 DEF Expire, RunRecord
  <2>3. Older(r) /\ NotBorn(r)
    BY <2>1, <2>2 DEF Older, NotBorn, Settled, IsTerminal, Live
  <2> QED BY <1>1, <2>1, <2>3, MethodsAge DEF Ages, NoneBorn
<1> QED BY <1>2, <1>3, <1>4, <1>5 DEF RunStep

(* The calls that collect and decide change no run.                        *)
LEMMA OthersAge ==
    ASSUME TypeInv,
           \/ \E a \in Await : AwaitStep(a)
           \/ \E o \in Operator : DecisionStep(o)
    PROVE  Ages /\ NoneBorn /\ runs' = runs
<1>1. TypeOK  BY DEF TypeInv
<1>2. runs' = runs
  BY DEF AwaitStep, AwaitEnds, ReapLook, TakeWorktree, TakeDiff, Collect, ReapList, ReapDiscard,
         DecisionStep, AcceptLook, RejectLook, ApplyRefused, Apply, AcceptDone, RejectDone, runVars
<1> QED BY <1>1, <1>2, MethodsAge DEF Ages, NoneBorn

(* What holds of an await, a decision, the store or a run that a step does *)
(* not touch still holds of the older runs.                                *)
LEMMA AwaitStable ==
    ASSUME TypeInv, AwaitInv, Ages, UNCHANGED await
    PROVE  AwaitInv'
<1>1. \A a \in Await : await[a].list \subseteq RunId
  BY DEF TypeInv, TypeOK, AwaitRecord
<1> QED BY <1>1 DEF AwaitInv, Ages, Older

(* See AwaitStable.                                                        *)
LEMMA DecisionStable ==
    ASSUME DecisionInv, Ages, UNCHANGED decision
    PROVE  DecisionInv'
BY DEF DecisionInv, Ages, Older

(* See AwaitStable; entries may go.                                        *)
LEMMA StoreStable ==
    ASSUME StoreInv, Ages, child' \subseteq child,
           \A q \in RunId : store'[q].kind = store[q].kind \/ store'[q].kind = "none"
    PROVE  StoreInv'
BY DEF StoreInv, Ages, Older

(* See AwaitStable; a run that lives loses its workspace only when it is   *)
(* rejected.                                                               *)
LEMMA LiveStable ==
    ASSUME LiveKeepsWorkspace, NoneBorn,
           rejected \subseteq rejected',
           \A q \in RunId : Live(runs[q].state) /\ tree[q].there => tree'[q].there \/ q \in rejected'
    PROVE  LiveKeepsWorkspace'
BY DEF LiveKeepsWorkspace, NoneBorn, NotBorn, Live

(* The other handlers are not concerned when a handler takes a step that   *)
(* leaves alone every run but the one it has chosen.                       *)
LEMMA OtherHandlers ==
    ASSUME TypeInv, HandlerInv, Ages, NEW h \in Handler, NEW g \in Handler, g # h,
           handler'[g] = handler[g],
           \A q \in RunId : q # handler[h].succ /\ runs[q].state = "unstarted"
               => /\ runs'[q].state = "unstarted"
                  /\ tree[q].there => tree'[q].there
    PROVE  HandlerOK(g)'
<1>1. HandlerOK(g) /\ handler[g] \in HandlerRecord
  BY DEF HandlerInv, TypeInv, TypeOK
<1>2. handler[g].succ \in RunId => handler[g].succ # handler[h].succ
  BY NoneAssumption DEF HandlerInv, Distinct
<1>3. handler[g].pred \in RunId \cup {None}  BY <1>1 DEF HandlerRecord
<1>4. handler[g].pc \in {"labelled", "taken"} => handler[g].pred \in RunId
  BY DEF TypeInv, NamesRun
<1> QED BY <1>1, <1>2, <1>3, <1>4 DEF HandlerOK, Ages, Older

(* When no handler takes a step, nothing is taken from an id that waits    *)
(* for its run, and none of these runs, the handlers are as they were.     *)
LEMMA HandlersStable ==
    ASSUME TypeInv, HandlerInv, Ages, NoneBorn, UNCHANGED handler,
           \A q \in RunId : runs[q].state = "unstarted" /\ tree[q].there => tree'[q].there
    PROVE  HandlerInv'
<1>1. Distinct'  BY DEF HandlerInv, Distinct
<1>2. ASSUME NEW g \in Handler  PROVE HandlerOK(g)'
  <2>1. HandlerOK(g) /\ handler[g] \in HandlerRecord
    BY DEF HandlerInv, TypeInv, TypeOK
  <2>2. handler[g].pred \in RunId \cup {None}  BY <2>1 DEF HandlerRecord
  <2>3. handler[g].pc \in {"labelled", "taken"} => handler[g].pred \in RunId
    BY DEF TypeInv, NamesRun
  <2> QED BY <2>1, <2>2, <2>3 DEF HandlerOK, Ages, Older, NoneBorn, NotBorn
<1> QED BY <1>1, <1>2 DEF HandlerInv

(* A handler that takes a step keeps its choice, drops it, or makes one    *)
(* that nobody has made.                                                   *)
LEMMA DistinctKept ==
    ASSUME Distinct, NEW h \in Handler,
           \A g \in Handler : g # h => handler'[g] = handler[g],
           \/ handler'[h].succ \in {None, handler[h].succ}
           \/ \A g \in Handler : handler[g].succ # handler'[h].succ
    PROVE  Distinct'
BY DEF Distinct

(* What discard does to a run that has begun.                              *)
LEMMA DiscardSafe ==
    ASSUME TypeInv, NEW r \in RunId, Discard(r), runs[r].state # "unstarted"
    PROVE  /\ \A q \in RunId : store'[q].kind = store[q].kind \/ store'[q].kind = "none"
           /\ \A q \in RunId : runs[q].state = "unstarted" /\ tree[q].there => tree'[q].there
           /\ \A q \in RunId : q # r /\ tree[q].there => tree'[q].there
BY DiscardKeeps DEF NoEntry

(* So a step of a handler keeps all of it.                                 *)
LEMMA HandlerKeeps ==
    ASSUME TypeInv, KeepsInv, NEW h \in Handler, HandlerStep(h)
    PROVE  KeepsInv'
<1> DEFINE p == handler[h].pred
           s == handler[h].succ
           Others == \A g \in Handler : g # h => handler'[g] = handler[g]
           Waiting == \A q \in RunId : q # s /\ runs[q].state = "unstarted"
                          => /\ runs'[q].state = "unstarted"
                             /\ tree[q].there => tree'[q].there
           Working == \A q \in RunId : Live(runs[q].state) /\ tree[q].there => tree'[q].there
           Entries == \A q \in RunId : store'[q].kind = store[q].kind \/ store'[q].kind = "none"
<1>1. /\ handler \in [Handler -> HandlerRecord] /\ tree \in [RunId -> Worktree]
      /\ store \in [RunId -> Entry] /\ runs \in [RunId -> RunRecord] /\ TypeOK
  BY DEF TypeInv, TypeOK
<1>2. Ages  BY HandlerAges
<1>3. handler[h] \in HandlerRecord /\ HandlerOK(h)
  BY <1>1 DEF KeepsInv, HandlerInv
<1>4. await' = await /\ decision' = decision /\ rejected' = rejected
  BY DEF HandlerStep, Create, Take, ContinueFrom, Refuse, RefuseStart, Start, Register,
         Label, TakeHandle, RetirePredecessor
<1>5. AwaitInv' /\ DecisionInv'
  BY <1>2, <1>4, AwaitStable, DecisionStable DEF KeepsInv
<1>6. ASSUME Others, Waiting, HandlerOK(h)', StoreInv',
             \/ handler'[h].succ \in {None, s}
             \/ \A g \in Handler : handler[g].succ # handler'[h].succ,
             LiveKeepsWorkspace'
      PROVE  KeepsInv'
  <2>1. Distinct'  BY <1>6, DistinctKept DEF KeepsInv, HandlerInv
  <2>2. ASSUME NEW g \in Handler  PROVE HandlerOK(g)'
    <3>1. CASE g = h  BY <1>6, <3>1
    <3>2. CASE g # h
      <4>1. handler'[g] = handler[g]  BY <1>6, <3>2
      <4> QED BY <1>2, <1>6, <3>2, <4>1, OtherHandlers DEF KeepsInv
    <3> QED BY <3>1, <3>2
  <2> QED BY <1>5, <1>6, <2>1, <2>2 DEF KeepsInv, HandlerInv
<1>7. ASSUME ~Start(h), Working PROVE LiveKeepsWorkspace'
  <2>1. NoneBorn  BY <1>7, HandlerAges
  <2> QED BY <1>4, <1>7, <2>1, LiveStable DEF KeepsInv
<1>8. ASSUME child' = child, Entries PROVE StoreInv'
  BY <1>2, <1>8, StoreStable DEF KeepsInv
<1>9. ASSUME ~Start(h), \A q \in RunId : q # s /\ runs[q].state = "unstarted" /\ tree[q].there
                                            => tree'[q].there
      PROVE  Waiting
  BY <1>9, HandlerAges DEF NoneBorn, NotBorn
<1>10. \A q \in RunId : ~(Live(runs[q].state) /\ runs[q].state = "unstarted")
  BY <1>1, Phases
<1> HIDE DEF Others, Waiting, Working, Entries
<1>11. ASSUME NEW r \in RunId, Create(h, r)  PROVE KeepsInv'
  <2>1. handler'[h].pc = "built" /\ handler'[h].succ = r /\ handler'[h].pred = None /\ Others
    BY <1>1, <1>11 DEF Create, IdleHandler, Others
  <2>2. tree'[r].there /\ \A q \in RunId : q # r => tree'[q] = tree[q]
    BY <1>1, <1>11 DEF Create, Checkout
  <2>3. runs' = runs /\ store' = store /\ child' = child /\ ~Start(h)
    BY <1>11 DEF Create, Start, HandlerAt, runVars
  <2>4. runs[r].state = "unstarted" /\ \A g \in Handler : handler[g].succ # r
    BY <1>11 DEF Create, Unused
  <2>5. HandlerOK(h)'  BY <2>1, <2>2, <2>3, <2>4 DEF HandlerOK
  <2>6. Waiting  BY <1>9, <2>2, <2>3
  <2>7. Working  BY <2>2 DEF Working
  <2>8. Entries  BY <2>3 DEF Entries
  <2> QED BY <1>6, <1>7, <1>8, <2>1, <2>3, <2>4, <2>5, <2>6, <2>7, <2>8
<1>12. ASSUME NEW r \in RunId, Take(h, r)  PROVE KeepsInv'
  <2>1. handler'[h].pc = "took" /\ handler'[h].succ = None /\ handler'[h].pred = r /\ Others
    BY <1>1, <1>12 DEF Take, IdleHandler, Others
  <2>2. tree' = tree /\ store' = store /\ child' = child /\ ~Start(h)
    BY <1>12 DEF Take, Start, HandlerAt
  <2>3. Settled(runs[r].state)  BY <1>12 DEF Take, MayTakeContinuation, Settled
  <2>4. Settled(runs'[r].state)  BY <1>2, <2>3 DEF Ages, Older
  <2>5. HandlerOK(h)'  BY <2>1, <2>4 DEF HandlerOK
  <2>6. Waiting  BY <1>9, <2>2
  <2>7. Working /\ Entries  BY <2>2 DEF Working, Entries
  <2> QED BY <1>6, <1>7, <1>8, <2>1, <2>2, <2>5, <2>6, <2>7
<1>13. ASSUME NEW r \in RunId, ContinueFrom(h, r)  PROVE KeepsInv'
  <2>1. handler'[h].pc = "built" /\ handler'[h].succ = r /\ handler'[h].pred = p /\ Others
    BY <1>1, <1>13 DEF ContinueFrom, HandlerRecord, Others
  <2>2. runs' = runs /\ store' = store /\ child' = child /\ ~Start(h)
    BY <1>13 DEF ContinueFrom, Start, HandlerAt, runVars
  <2>3. p \in RunId /\ tree[p].there  BY <1>13 DEF ContinueFrom, HandlerAt, TypeInv, NamesRun
  <2>4. tree'[r].there /\ \A q \in RunId : q # r => tree'[q].there = tree[q].there
    <3>1. tree' = [tree EXCEPT ![p] = Commit(p), ![r] = Checkout(HandedOn(p))]
      BY <1>13 DEF ContinueFrom
    <3>2. Commit(p).there = tree[p].there  BY <1>1, <2>3 DEF Commit, Worktree
    <3>3. Checkout(HandedOn(p)).there  BY DEF Checkout
    <3> QED BY <1>1, <2>3, <3>1, <3>2, <3>3
  <2>5. runs[r].state = "unstarted" /\ \A g \in Handler : handler[g].succ # r
    BY <1>13 DEF ContinueFrom, Unused
  <2>6. HandlerOK(h)'  BY <1>3, <2>1, <2>2, <2>4, <2>5 DEF HandlerOK
  <2>7. Waiting  BY <1>9, <2>2, <2>4
  <2>8. Working /\ Entries  BY <2>2, <2>4 DEF Working, Entries
  <2> QED BY <1>6, <1>7, <1>8, <2>1, <2>2, <2>5, <2>6, <2>7, <2>8
<1>14. CASE Refuse(h)
  <2>1. handler'[h] = IdleHandler /\ Others  BY <1>1, <1>14 DEF Refuse, Others
  <2>2. store' = store /\ child' = child /\ ~Start(h)
    BY <1>14 DEF Refuse, Start, HandlerAt
  <2>3. p \in RunId  BY <1>14 DEF Refuse, HandlerAt, TypeInv, NamesRun
  <2>4. \A q \in RunId : tree'[q].there = tree[q].there
    <3>1. Commit(p).there = tree[p].there  BY <1>1, <2>3 DEF Commit, Worktree
    <3> QED BY <1>1, <1>14, <2>3, <3>1 DEF Refuse
  <2>5. HandlerOK(h)'  BY <2>1 DEF HandlerOK, IdleHandler
  <2>6. Waiting  BY <1>9, <2>2, <2>4
  <2>7. Working /\ Entries  BY <2>2, <2>4 DEF Working, Entries
  <2>8. handler'[h].succ = None  BY <2>1 DEF IdleHandler
  <2> QED BY <1>6, <1>7, <1>8, <2>1, <2>2, <2>5, <2>6, <2>7, <2>8
<1>15. CASE RefuseStart(h)
  <2>1. handler'[h] = IdleHandler /\ Others  BY <1>1, <1>15 DEF RefuseStart, Others
  <2>2. store' = store /\ child' = child  BY <1>15 DEF RefuseStart
  <2>3. ~Start(h)
    BY <1>1, <2>1 DEF Start, Move, IdleHandler, HandlerRecord
  <2>4. s \in RunId /\ runs[s].state = "unstarted"
    BY <1>3, <1>15 DEF RefuseStart, HandlerAt, HandlerOK
  <2>5. \A q \in RunId : q # s => tree'[q] = tree[q]  BY <1>1, <1>15 DEF RefuseStart
  <2>6. HandlerOK(h)'  BY <2>1 DEF HandlerOK, IdleHandler
  <2>7. Waiting  BY <1>9, <2>3, <2>5
  <2>8. Working /\ Entries  BY <1>10, <2>2, <2>4, <2>5 DEF Working, Entries
  <2>9. handler'[h].succ = None  BY <2>1 DEF IdleHandler
  <2> QED BY <1>6, <1>7, <1>8, <2>1, <2>2, <2>3, <2>6, <2>7, <2>8, <2>9
<1>16. CASE Start(h)
  <2>1. /\ handler'[h].pc = "started" /\ handler'[h].succ = s /\ handler'[h].pred = p
        /\ Others
    BY <1>1, <1>16 DEF Start, Move, HandlerRecord, Others
  <2>2. tree' = tree /\ store' = store /\ child' = child \cup {s}  BY <1>16 DEF Start
  <2>3. s \in RunId /\ tree[s].there
    BY <1>3, <1>16 DEF Start, HandlerAt, HandlerOK
  <2>4. runs'[s].state = "running" /\ \A q \in RunId : q # s => NotBorn(q)
    BY <1>16, HandlerAges
  <2>5. p # None => Settled(runs'[p].state)
    <3>1. p \in RunId \cup {None}  BY <1>3 DEF HandlerRecord
    <3> QED BY <1>2, <1>3, <3>1 DEF HandlerOK, Ages, Older
  <2>6. HandlerOK(h)'  BY <2>1, <2>3, <2>4, <2>5 DEF HandlerOK
  <2>7. Waiting  BY <2>2, <2>4 DEF Waiting, NotBorn
  <2>8. StoreInv'  BY <1>2, <2>2, <2>4 DEF KeepsInv, StoreInv, Ages, Older
  <2>9. LiveKeepsWorkspace'
    BY <1>4, <2>2, <2>3, <2>4 DEF KeepsInv, LiveKeepsWorkspace, NotBorn, Live
  <2> QED BY <1>6, <2>1, <2>6, <2>7, <2>8, <2>9
<1>17. CASE Register(h)
  <2>1. /\ handler'[h].pc \in {"idle", "registered"} /\ handler'[h].succ \in {None, s}
        /\ handler'[h].pred \in {None, p} /\ Others
    BY <1>1, <1>17 DEF Register, IdleHandler, HandlerRecord, Others
  <2>2. tree' = tree /\ runs' = runs /\ child' = child /\ ~Start(h)
    BY <1>17 DEF Register, Start, HandlerAt, runVars
  <2>3. s \in RunId /\ runs[s].state # "unstarted"
    BY <1>3, <1>17 DEF Register, HandlerAt, HandlerOK
  <2>4. StoreInv'
    <3>1. store'[s] = Spawned /\ \A q \in RunId : q # s => store'[q] = store[q]
      BY <1>1, <1>17, <2>3 DEF Register, Put
    <3>2. Spawned.kind = "spawned"  BY DEF Spawned, NoEntry
    <3> QED BY <2>2, <2>3, <3>1, <3>2 DEF KeepsInv, StoreInv
  <2>5. HandlerOK(h)'  BY <1>3, <2>1, <2>2 DEF HandlerOK
  <2>6. Waiting  BY <1>9, <2>2
  <2>7. Working  BY <2>2 DEF Working
  <2> QED BY <1>6, <1>7, <2>1, <2>2, <2>4, <2>5, <2>6, <2>7
<1>18. CASE Label(h)
  <2>1. /\ handler'[h].pc = "labelled" /\ handler'[h].succ = s /\ handler'[h].pred = p
        /\ Others
    BY <1>1, <1>18 DEF Label, Move, HandlerRecord, Others
  <2>2. tree' = tree /\ store' = store /\ child' = child /\ ~Start(h)
    BY <1>18 DEF Label, Start, HandlerAt
  <2>3. p \in RunId /\ Settled(runs[p].state)
    BY <1>3, <1>18, NoneAssumption DEF Label, HandlerAt, HandlerOK, TypeInv, NamesRun
  <2>4. IsTerminal(runs'[p].state)
    <3>1. runs'[p] = Supersede(runs[p], s) /\ runs[p] \in RunRecord
      BY <1>1, <1>18, <2>3 DEF Label
    <3>2. runs'[p].state = IF runs[p].state # "needs_input" THEN runs[p].state ELSE "superseded"
      BY <3>1 DEF Supersede, RunRecord
    <3> QED BY <2>3, <3>2 DEF Settled, IsTerminal
  <2>5. HandlerOK(h)'  BY <2>1, <2>4 DEF HandlerOK, Settled
  <2>6. Waiting  BY <1>9, <2>2
  <2>7. Working /\ Entries  BY <2>2 DEF Working, Entries
  <2> QED BY <1>6, <1>7, <1>8, <2>1, <2>2, <2>5, <2>6, <2>7
<1>19. CASE TakeHandle(h)
  <2>1. /\ handler'[h].pc = "taken" /\ handler'[h].succ = s /\ handler'[h].pred = p
        /\ Others
    BY <1>1, <1>19 DEF TakeHandle, Move, HandlerRecord, Others
  <2>2. tree' = tree /\ store' = store /\ child' = child /\ runs' = runs /\ ~Start(h)
    BY <1>19 DEF TakeHandle, Start, HandlerAt, runVars
  <2>3. HandlerOK(h)'  BY <1>3, <1>19, <2>1, <2>2 DEF HandlerOK, TakeHandle, HandlerAt
  <2>4. Waiting  BY <1>9, <2>2
  <2>5. Working /\ Entries  BY <2>2 DEF Working, Entries
  <2> QED BY <1>6, <1>7, <1>8, <2>1, <2>2, <2>3, <2>4, <2>5
<1>20. CASE RetirePredecessor(h)
  <2>1. handler'[h] = IdleHandler /\ Others  BY <1>1, <1>20 DEF RetirePredecessor, Others
  <2>2. child' = child /\ ~Start(h) /\ Discard(p)
    BY <1>20 DEF RetirePredecessor, Start, HandlerAt, runVars
  <2>3. p \in RunId /\ IsTerminal(runs[p].state)
    BY <1>3, <1>20 DEF RetirePredecessor, HandlerAt, HandlerOK, TypeInv, NamesRun
  <2>4. runs[p].state # "unstarted" /\ ~Live(runs[p].state)  BY <1>1, <2>3, Phases
  <2>5. Entries  BY <2>2, <2>3, <2>4, DiscardSafe DEF Entries
  <2>6. Waiting  BY <1>9, <2>2, <2>3, <2>4, DiscardSafe
  <2>7. Working  BY <2>2, <2>3, <2>4, DiscardSafe DEF Working
  <2>8. HandlerOK(h)'  BY <2>1 DEF HandlerOK, IdleHandler
  <2>9. handler'[h].succ = None  BY <2>1 DEF IdleHandler
  <2> QED BY <1>6, <1>7, <1>8, <2>1, <2>2, <2>5, <2>6, <2>7, <2>8, <2>9
<1> QED BY <1>11, <1>12, <1>13, <1>14, <1>15, <1>16, <1>17, <1>18, <1>19, <1>20 DEF HandlerStep

(* So does a step of a run.                                                *)
LEMMA RunKeeps ==
    ASSUME TypeInv, KeepsInv, NEW r \in RunId, RunStep(r)
    PROVE  KeepsInv'
<1>1. Ages /\ NoneBorn  BY RunAges
<1>2. /\ handler' = handler /\ await' = await /\ decision' = decision
      /\ store' = store /\ rejected' = rejected /\ child' \subseteq child
  BY DEF RunStep, Edit, ChildEnds, Rest, ExpireRun, Forget, runVars
<1>3. \A q \in RunId : tree'[q].there = tree[q].there
  <2>1. tree \in [RunId -> Worktree]  BY DEF TypeInv, TypeOK
  <2>2. tree' = tree \/ tree' = [tree EXCEPT ![r].files = @ \cup {r}]
    BY DEF RunStep, Edit, ChildEnds, Rest, ExpireRun, Forget
  <2> QED BY <2>1, <2>2 DEF Worktree
<1>4. HandlerInv'  BY <1>1, <1>2, <1>3, HandlersStable DEF KeepsInv
<1>5. StoreInv'  BY <1>1, <1>2, StoreStable DEF KeepsInv
<1>6. AwaitInv' /\ DecisionInv'  BY <1>1, <1>2, AwaitStable, DecisionStable DEF KeepsInv
<1>7. LiveKeepsWorkspace'  BY <1>1, <1>2, <1>3, LiveStable DEF KeepsInv
<1> QED BY <1>4, <1>5, <1>6, <1>7 DEF KeepsInv

(* An await takes away only what has ended.                                *)
LEMMA AwaitKeeps ==
    ASSUME TypeInv, KeepsInv, NEW a \in Await, AwaitStep(a)
    PROVE  KeepsInv'
<1> DEFINE r == await[a].run
           Safe == /\ \A q \in RunId : store'[q].kind = store[q].kind \/ store'[q].kind = "none"
                   /\ \A q \in RunId : runs[q].state = "unstarted" /\ tree[q].there
                                           => tree'[q].there
                   /\ \A q \in RunId : Live(runs[q].state) /\ tree[q].there => tree'[q].there
           Doomed == \A b \in Await :
                        /\ await'[b].pc \in {"ended", "took", "diffed", "doom"} =>
                               IsTerminal(runs[await'[b].run].state) /\ await'[b].run \in RunId
                        /\ \A q \in await'[b].list : IsTerminal(runs[q].state)
<1>1. Ages /\ NoneBorn /\ runs' = runs  BY OthersAge
<1>2. /\ await \in [Await -> AwaitRecord] /\ tree \in [RunId -> Worktree]
      /\ store \in [RunId -> Entry] /\ TypeOK /\ await[a] \in AwaitRecord
  BY DEF TypeInv, TypeOK
<1>3. /\ handler' = handler /\ decision' = decision /\ rejected' = rejected
      /\ child' = child
  BY DEF AwaitStep, AwaitEnds, ReapLook, TakeWorktree, TakeDiff, Collect, ReapList, ReapDiscard,
         runVars
<1>4. \A q \in RunId : IsTerminal(runs[q].state) =>
          runs[q].state # "unstarted" /\ ~Live(runs[q].state)
  BY <1>2, Phases
<1>5. DecisionInv'  BY <1>1, <1>3, DecisionStable DEF KeepsInv
<1>6. Safe => HandlerInv' /\ StoreInv' /\ LiveKeepsWorkspace'
  <2>1. Safe => HandlerInv'  BY <1>1, <1>3, HandlersStable DEF KeepsInv
  <2>2. Safe => StoreInv'  BY <1>1, <1>3, StoreStable DEF KeepsInv
  <2>3. Safe => LiveKeepsWorkspace'  BY <1>1, <1>3, LiveStable DEF KeepsInv
  <2> QED BY <2>1, <2>2, <2>3
<1>7. (Doomed => AwaitInv') /\ (Safe /\ Doomed => KeepsInv')
  <2>1. Doomed => AwaitInv'  BY <1>1 DEF AwaitInv
  <2> QED BY <1>5, <1>6, <2>1 DEF KeepsInv
<1>8. store' = store /\ tree' = tree => Safe  OBVIOUS
<1>9. ASSUME NEW q \in RunId, Discard(q), IsTerminal(runs[q].state)  PROVE Safe
  BY <1>4, <1>9, DiscardSafe
<1>10. \A list : (\A q \in list : IsTerminal(runs[q].state)) /\ Walk(a, list) => Doomed
  <2> SUFFICES ASSUME NEW list, \A q \in list : IsTerminal(runs[q].state), Walk(a, list)
               PROVE  Doomed
    OBVIOUS
  <2>1. \A b \in Await : b # a => await'[b] = await[b]  BY <1>2 DEF Walk
  <2>2. await'[a].pc \in {"idle", "reaping"} /\ await'[a].list \subseteq list
    BY <1>2 DEF Walk, IdleAwait
  <2> QED BY <2>1, <2>2 DEF KeepsInv, AwaitInv
<1>11. \A q \in await[a].list : IsTerminal(runs[q].state)  BY DEF KeepsInv, AwaitInv
<1>12. ASSUME NEW pc, await' = [await EXCEPT ![a].pc = pc],
              pc \in {"took", "diffed", "doom"} => r \in RunId /\ IsTerminal(runs[r].state),
              pc # "ended"
       PROVE  Doomed
  <2>1. \A b \in Await : b # a => await'[b] = await[b]  BY <1>2, <1>12
  <2>2. await'[a].pc = pc /\ await'[a].run = r /\ await'[a].list = await[a].list
    BY <1>2, <1>12 DEF AwaitRecord
  <2> QED BY <1>11, <1>12, <2>1, <2>2 DEF KeepsInv, AwaitInv
<1> HIDE DEF Safe, Doomed
<1>13. ASSUME NEW q \in RunId, AwaitEnds(a, q)  PROVE Safe /\ Doomed
  <2>1. store' = store /\ tree' = tree /\ IsTerminal(runs[q].state)  BY <1>13 DEF AwaitEnds
  <2>2. \A b \in Await : b # a => await'[b] = await[b]  BY <1>2, <1>13 DEF AwaitEnds
  <2>3. await'[a].run = q /\ await'[a].list = {}  BY <1>2, <1>13 DEF AwaitEnds, IdleAwait
  <2> QED BY <1>8, <2>1, <2>2, <2>3 DEF Doomed, KeepsInv, AwaitInv
<1>14. ASSUME NEW q \in RunId, ReapLook(a, q)  PROVE Safe /\ Doomed
  <2>1. store' = store /\ tree' = tree /\ q \in await[a].list  BY <1>14 DEF ReapLook
  <2>2. CASE store[q].kind = "spawned"
    <3>1. await' = [await EXCEPT ![a] = [await[a] EXCEPT !.pc = "doom", !.run = q]]
      BY <1>14, <2>2 DEF ReapLook
    <3>2. await'[a].run = q /\ await'[a].list = await[a].list
      BY <1>2, <3>1 DEF AwaitRecord
    <3>3. \A b \in Await : b # a => await'[b] = await[b]  BY <1>2, <3>1
    <3> QED BY <1>8, <1>11, <2>1, <3>2, <3>3 DEF Doomed, KeepsInv, AwaitInv
  <2>3. CASE store[q].kind # "spawned"
    <3>1. Walk(a, await[a].list \ {q})  BY <1>14, <2>3 DEF ReapLook
    <3>2. \A x \in await[a].list \ {q} : IsTerminal(runs[x].state)  BY <1>11
    <3> QED BY <1>8, <1>10, <2>1, <3>1, <3>2
  <2> QED BY <2>2, <2>3
<1>15. CASE TakeWorktree(a)
  <2>1. store' = store /\ tree' = tree /\ r \in RunId /\ IsTerminal(runs[r].state)
    BY <1>15 DEF TakeWorktree, KeepsInv, AwaitInv
  <2>2. \E pc \in {"took", "reap"} : await' = [await EXCEPT ![a].pc = pc]
    BY <1>15 DEF TakeWorktree
  <2> QED BY <1>7, <1>8, <1>12, <2>1, <2>2
<1>16. CASE TakeDiff(a)
  <2>1. store' = store /\ r \in RunId /\ IsTerminal(runs[r].state)
    BY <1>16 DEF TakeDiff, KeepsInv, AwaitInv
  <2>2. tree' = tree \/ tree' = [tree EXCEPT ![r] = Gone]  BY <1>16 DEF TakeDiff
  <2>3. Safe  BY <1>2, <1>4, <2>1, <2>2 DEF Safe
  <2>4. Doomed
    <3>1. \A b \in Await : b # a => await'[b] = await[b]  BY <1>2, <1>16 DEF TakeDiff
    <3>2. await'[a].run = r /\ await'[a].list = await[a].list
      BY <1>2, <1>16 DEF TakeDiff, AwaitRecord
    <3> QED BY <1>11, <2>1, <3>1, <3>2 DEF Doomed, KeepsInv, AwaitInv
  <2> QED BY <1>7, <2>3, <2>4
<1>17. CASE Collect(a)
  <2>1. r \in RunId /\ IsTerminal(runs[r].state)
    BY <1>17 DEF Collect, KeepsInv, AwaitInv
  <2>2. await' = [await EXCEPT ![a].pc = "reap"]  BY <1>17 DEF Collect
  <2>3. Doomed  BY <1>12, <2>2
  <2>4. CASE await[a].patch = {}
    <3>1. Discard(r)  BY <1>17, <2>4 DEF Collect
    <3>2. Safe  BY <1>9, <2>1, <3>1
    <3> QED BY <1>7, <2>3, <3>2
  <2>5. CASE await[a].patch # {}
    <3>1. tree' = tree /\ store' = [store EXCEPT ![r] = Diff(await[a].patch)]
      BY <1>17, <2>5 DEF Collect, Put
    <3>2. \A q \in RunId : q # r => store'[q] = store[q]  BY <1>2, <3>1
    <3>3. HandlerInv'  BY <1>1, <1>3, <3>1, HandlersStable DEF KeepsInv
    <3>4. StoreInv'
      BY <1>1, <1>3, <1>4, <2>1, <3>2 DEF KeepsInv, StoreInv
    <3>5. LiveKeepsWorkspace'  BY <1>1, <1>3, <3>1, LiveStable DEF KeepsInv
    <3> QED BY <1>5, <1>7, <2>3, <3>3, <3>4, <3>5 DEF KeepsInv
  <2> QED BY <2>4, <2>5
<1>18. CASE ReapList(a)
  <2>1. store' = store /\ tree' = tree  BY <1>18 DEF ReapList
  <2>2. Walk(a, {q \in known : IsTerminal(runs[q].state) /\ runs[q].state # "completed"})
    BY <1>18 DEF ReapList
  <2> QED BY <1>7, <1>8, <1>10, <2>1, <2>2
<1>19. CASE ReapDiscard(a)
  <2>1. r \in RunId /\ IsTerminal(runs[r].state) /\ Discard(r) /\ Walk(a, await[a].list \ {r})
    BY <1>19 DEF ReapDiscard, KeepsInv, AwaitInv
  <2>2. \A x \in await[a].list \ {r} : IsTerminal(runs[x].state)  BY <1>11
  <2> QED BY <1>7, <1>9, <1>10, <2>1, <2>2
<1> QED
  BY <1>7, <1>13, <1>14, <1>15, <1>16, <1>17, <1>18, <1>19 DEF AwaitStep

(* An operator takes away what has ended, or rejects.                      *)
LEMMA DecisionKeeps ==
    ASSUME TypeInv, KeepsInv, NEW o \in Operator, DecisionStep(o)
    PROVE  KeepsInv'
<1> DEFINE r == decision[o].run
           Safe == /\ \A q \in RunId : store'[q].kind = store[q].kind \/ store'[q].kind = "none"
                   /\ \A q \in RunId : runs[q].state = "unstarted" /\ tree[q].there
                                           => tree'[q].there
                   /\ \A q \in RunId : Live(runs[q].state) /\ tree[q].there
                                           => tree'[q].there \/ q \in rejected'
                   /\ rejected \subseteq rejected'
           Decided == \A p \in Operator :
                        /\ decision'[p].pc \in {"accepting", "applied"} =>
                               decision'[p].run \in RunId /\ IsTerminal(runs[decision'[p].run].state)
                        /\ decision'[p].pc = "rejecting" =>
                               /\ decision'[p].run \in RunId
                               /\ runs[decision'[p].run].state # "unstarted"
<1>1. Ages /\ NoneBorn /\ runs' = runs  BY OthersAge
<1>2. /\ decision \in [Operator -> DecisionRecord] /\ tree \in [RunId -> Worktree]
      /\ store \in [RunId -> Entry] /\ TypeOK /\ decision[o] \in DecisionRecord
  BY DEF TypeInv, TypeOK
<1>3. handler' = handler /\ await' = await /\ child' = child
  BY DEF DecisionStep, AcceptLook, RejectLook, ApplyRefused, Apply, AcceptDone, RejectDone,
         runVars
<1>4. \A q \in RunId : IsTerminal(runs[q].state) =>
          runs[q].state # "unstarted" /\ ~Live(runs[q].state)
  BY <1>2, Phases
<1>5. AwaitInv'  BY <1>1, <1>3, AwaitStable DEF KeepsInv
<1>6. Safe /\ Decided => KeepsInv'
  <2>1. Safe => HandlerInv'  BY <1>1, <1>3, HandlersStable DEF KeepsInv
  <2>2. Safe => StoreInv'  BY <1>1, <1>3, StoreStable DEF KeepsInv
  <2>3. Safe => LiveKeepsWorkspace'  BY <1>1, LiveStable DEF KeepsInv
  <2>4. Decided => DecisionInv'  BY <1>1 DEF DecisionInv
  <2> QED BY <1>5, <2>1, <2>2, <2>3, <2>4 DEF KeepsInv
<1>7. store' = store /\ tree' = tree /\ rejected' = rejected => Safe  OBVIOUS
<1>8. ASSUME NEW q \in RunId, RejectLook(o, q)  PROVE Safe /\ Decided
  <2>1. store' = store /\ tree' = tree /\ rejected' = rejected /\ runs[q].state # "unstarted"
    BY <1>8 DEF RejectLook, KeepsInv, StoreInv
  <2>2. decision'[o].pc = "rejecting" /\ decision'[o].run = q
    BY <1>2, <1>8 DEF RejectLook, IdleDecision
  <2>3. \A p \in Operator : p # o => decision'[p] = decision[p]
    BY <1>2, <1>8 DEF RejectLook
  <2> QED BY <1>7, <2>1, <2>2, <2>3 DEF KeepsInv, DecisionInv
<1>9. ASSUME NEW q \in RunId, NEW agent \in BOOLEAN, AcceptLook(o, q, agent)
      PROVE  Safe /\ Decided
  <2>1. store' = store /\ tree' = tree /\ rejected' = rejected /\ IsTerminal(runs[q].state)
    BY <1>9 DEF AcceptLook, KeepsInv, StoreInv
  <2>2. decision'[o].pc = "accepting" /\ decision'[o].run = q
    BY <1>2, <1>9 DEF AcceptLook
  <2>3. \A p \in Operator : p # o => decision'[p] = decision[p]
    BY <1>2, <1>9 DEF AcceptLook
  <2> QED BY <1>7, <2>1, <2>2, <2>3 DEF KeepsInv, DecisionInv
<1>10. ASSUME decision' = [decision EXCEPT ![o] = IdleDecision]  PROVE Decided
  BY <1>2, <1>10 DEF KeepsInv, DecisionInv, IdleDecision
<1>11. CASE ApplyRefused(o)
  <2>1. store' = store /\ tree' = tree /\ rejected' = rejected
        /\ decision' = [decision EXCEPT ![o] = IdleDecision]
    BY <1>11 DEF ApplyRefused
  <2> QED BY <1>6, <1>7, <1>10, <2>1
<1>12. CASE Apply(o)
  <2>1. r \in RunId /\ tree' = tree /\ rejected' = rejected /\ IsTerminal(runs[r].state)
    BY <1>12 DEF Apply, KeepsInv, DecisionInv
  <2>2. \A q \in RunId : store'[q].kind = store[q].kind
    <3>1. \A q \in RunId : store[q].kind = "diff" =>
              [store[q] EXCEPT !.accepted = TRUE].kind = "diff"
      BY <1>2 DEF Entry
    <3> QED BY <1>2, <1>12, <2>1, <3>1 DEF Apply
  <2>3. decision'[o].pc = "applied" /\ decision'[o].run = r
    BY <1>2, <1>12 DEF Apply, DecisionRecord
  <2>4. \A p \in Operator : p # o => decision'[p] = decision[p]
    BY <1>2, <1>12 DEF Apply
  <2>5. Decided  BY <2>1, <2>3, <2>4 DEF KeepsInv, DecisionInv
  <2>6. Safe  BY <2>1, <2>2
  <2> QED BY <1>6, <2>5, <2>6
<1>13. CASE AcceptDone(o)
  <2>1. r \in RunId /\ IsTerminal(runs[r].state) /\ Discard(r) /\ rejected' = rejected
        /\ decision' = [decision EXCEPT ![o] = IdleDecision]
    BY <1>13 DEF AcceptDone, KeepsInv, DecisionInv
  <2>2. runs[r].state # "unstarted" /\ ~Live(runs[r].state)  BY <1>4, <2>1
  <2>3. Safe  BY <2>1, <2>2, DiscardSafe
  <2> QED BY <1>6, <1>10, <2>1, <2>3
<1>14. CASE RejectDone(o)
  <2>1. r \in RunId /\ runs[r].state # "unstarted" /\ Discard(r) /\ rejected' = rejected \cup {r}
        /\ decision' = [decision EXCEPT ![o] = IdleDecision]
    BY <1>14 DEF RejectDone, KeepsInv, DecisionInv
  <2>2. Safe  BY <2>1, DiscardSafe
  <2> QED BY <1>6, <1>10, <2>1, <2>2
<1> HIDE DEF Safe, Decided
<1> QED BY <1>6, <1>8, <1>9, <1>11, <1>12, <1>13, <1>14 DEF DecisionStep

(* The invariant that LiveKeepsWorkspace rests on: a handler's pick is its *)
(* own, what it labels has come to rest, and what an await or an operator  *)
(* is about to take away has ended, however long ago it looked.            *)
THEOREM KeepsInvCorrect == Spec => []KeepsInv
<1>1. Init => KeepsInv
  <2> SUFFICES ASSUME Init PROVE KeepsInv  OBVIOUS
  <2>1. HandlerInv
    BY DEF Init, HandlerInv, Distinct, HandlerOK, IdleHandler
  <2>2. StoreInv  BY DEF Init, StoreInv, NoEntry
  <2>3. AwaitInv /\ DecisionInv
    BY DEF Init, AwaitInv, DecisionInv, IdleAwait, IdleDecision
  <2>4. LiveKeepsWorkspace  BY DEF Init, LiveKeepsWorkspace, NoRun
  <2> QED BY <2>1, <2>2, <2>3, <2>4 DEF KeepsInv
<1>2. TypeInv /\ KeepsInv /\ [Next]_vars => KeepsInv'
  <2> SUFFICES ASSUME TypeInv, KeepsInv, [Next]_vars PROVE KeepsInv'  OBVIOUS
  <2>1. CASE UNCHANGED vars
    BY <2>1 DEF vars, runVars, KeepsInv, HandlerInv, Distinct, HandlerOK, StoreInv,
                AwaitInv, DecisionInv, LiveKeepsWorkspace
  <2> QED BY <2>1, HandlerKeeps, RunKeeps, AwaitKeeps, DecisionKeeps DEF Next
<1> QED BY <1>1, <1>2, TypeCorrect, PTL DEF Spec

(* A run that works or rests keeps its workspace, whatever continuations   *)
(* fail or succeed, whichever runs are collected, reaped or accepted, and  *)
(* in whatever order: only an operator who rejects the run takes it.       *)
THEOREM WorkspacesCorrect == Spec => []LiveKeepsWorkspace
<1>1. KeepsInv => LiveKeepsWorkspace  BY DEF KeepsInv
<1> QED BY <1>1, KeepsInvCorrect, PTL

(* What an operator or an await is about to discard has ended and does not *)
(* come back to life, and once a handler is about to retire a predecessor  *)
(* the run is over: the step that looks and the step that takes are far    *)
(* apart and hold nothing between them.                                    *)
THEOREM DiscardsEnded ==
    Spec => [](/\ \A h \in Handler : handler[h].pc = "taken" =>
                      IsTerminal(runs[handler[h].pred].state)
               /\ \A a \in Await : await[a].pc \in {"took", "diffed", "doom"} =>
                      IsTerminal(runs[await[a].run].state)
               /\ \A o \in Operator : decision[o].pc = "applied" =>
                      IsTerminal(runs[decision[o].run].state))
<1>1. KeepsInv =>
        /\ \A h \in Handler : handler[h].pc = "taken" =>
               IsTerminal(runs[handler[h].pred].state)
        /\ \A a \in Await : await[a].pc \in {"took", "diffed", "doom"} =>
               IsTerminal(runs[await[a].run].state)
        /\ \A o \in Operator : decision[o].pc = "applied" =>
               IsTerminal(runs[decision[o].run].state)
  BY DEF KeepsInv, HandlerInv, HandlerOK, AwaitInv, DecisionInv
<1> QED BY <1>1, KeepsInvCorrect, PTL

=============================================================================
