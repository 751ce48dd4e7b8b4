---------------------------- MODULE Bridge_proofs ----------------------------
(***************************************************************************)
(* Theorems about Bridge, for any number of servers that share the state   *)
(* directory, and of runs: what the sweep of one takes from another, what  *)
(* a refused call and a server that stops in order leave behind.           *)
(***************************************************************************)
EXTENDS Bridge, TLAPS

-----------------------------------------------------------------------------
(* Each part of the invariant is inductive, given the others *)

(* Every step keeps the types.  That a registered worktree is on disk      *)
(* rests on WorkspaceInv: StartRefused removes one that is not registered. *)
LEMMA TypeStep ==
    ASSUME TypeOK, WorkspaceInv, [Next]_vars
    PROVE  TypeOK'
<1> USE DEF TypeOK, ServerStep, CallStep, files, history, serverVars, runVars
<1>1. ASSUME NEW p \in Process, Boot(p)  PROVE TypeOK'
  BY <1>1 DEF Boot
<1>2. ASSUME NEW p \in Process, SweepRemove(p)  PROVE TypeOK'
  BY <1>2 DEF SweepRemove
<1>3. ASSUME NEW p \in Process, Serve(p)  PROVE TypeOK'
  BY <1>3 DEF Serve
<1>4. ASSUME NEW p \in Process, CloseControl(p)  PROVE TypeOK'
  <2>1. late' \subseteq Run  BY <1>4 DEF CloseControl, InFlight
  <2> QED BY <1>4, <2>1 DEF CloseControl, Stops
<1>5. ASSUME NEW p \in Process, CancelAll(p)  PROVE TypeOK'
  <2>1. cancelled' \subseteq Run  BY <1>5 DEF CancelAll, Owned
  <2> QED BY <1>5, <2>1 DEF CancelAll, Stops
<1>6. ASSUME NEW p \in Process, CloseAllGates(p)  PROVE TypeOK'
  <2>1. {r \in Owned(p) : gate[r] = "open"} \in SUBSET Run  BY DEF Owned
  <2> QED BY <1>6, <2>1 DEF CloseAllGates, Stops
<1>7. ASSUME NEW p \in Process, DiscardAll(p)  PROVE TypeOK'
  BY <1>7 DEF DiscardAll, Stops
<1>8. ASSUME NEW p \in Process, Exit(p)  PROVE TypeOK'
  BY <1>8 DEF Exit, Stops
<1>9. ASSUME NEW p \in Process, Crash(p)  PROVE TypeOK'
  BY <1>9 DEF Crash
<1>10. ASSUME NEW p \in Process, NEW r \in Run, SweepLook(p, r)  PROVE TypeOK'
  BY <1>10 DEF SweepLook
<1>11. ASSUME NEW p \in Process, NEW r \in Run, Begin(p, r)  PROVE TypeOK'
  BY <1>11 DEF Begin
<1>12. ASSUME NEW p \in Process, NEW r \in Run, CloseOne(p, r)  PROVE TypeOK'
  BY <1>12 DEF CloseOne, CloseGate
<1>13. ASSUME NEW p \in Process, NEW r \in Run, DiscardOne(p, r)  PROVE TypeOK'
  BY <1>13 DEF DiscardOne, Discard
<1>14. ASSUME NEW r \in Run, NoGate(r)  PROVE TypeOK'
  BY <1>14 DEF NoGate, CallGoes
<1>15. ASSUME NEW r \in Run, GateFails(r)  PROVE TypeOK'
  BY <1>15 DEF GateFails, CallGoes
<1>16. ASSUME NEW r \in Run, GateListens(r)  PROVE TypeOK'
  BY <1>16 DEF GateListens, CallGoes
<1>17. ASSUME NEW r \in Run, GateWrites(r)  PROVE TypeOK'
  BY <1>17 DEF GateWrites, CallGoes
<1>18. ASSUME NEW r \in Run, GateWriteFails(r)  PROVE TypeOK'
  BY <1>18 DEF GateWriteFails, CallGoes
<1>19. ASSUME NEW r \in Run, GateOpens(r)  PROVE TypeOK'
  BY <1>19 DEF GateOpens, CallGoes
<1>20. ASSUME NEW r \in Run, Prepare(r)  PROVE TypeOK'
  BY <1>20 DEF Prepare, CallGoes
<1>21. ASSUME NEW r \in Run, PrepareFails(r)  PROVE TypeOK'
  BY <1>21 DEF PrepareFails, CloseGate, CallGoes
<1>22. ASSUME NEW r \in Run, Start(r)  PROVE TypeOK'
  BY <1>22 DEF Start, CallGoes
<1>23. ASSUME NEW r \in Run, StartRefused(r)  PROVE TypeOK'
  BY <1>23 DEF StartRefused, CloseGate, CallGoes, WorkspaceInv
<1>24. ASSUME NEW r \in Run, Register(r)  PROVE TypeOK'
  BY <1>24 DEF Register, CallGoes
<1>25. ASSUME NEW r \in Run, Spawn(r)  PROVE TypeOK'
  BY <1>25 DEF Spawn
<1>26. ASSUME NEW r \in Run, Supervised(r)  PROVE TypeOK'
  BY <1>26 DEF Supervised
<1>27. ASSUME NEW r \in Run, Rests(r)  PROVE TypeOK'
  BY <1>27 DEF Rests
<1>28. ASSUME NEW r \in Run, CancelRun(r)  PROVE TypeOK'
  BY <1>28 DEF CancelRun
<1>29. ASSUME NEW r \in Run, Awaited(r)  PROVE TypeOK'
  BY <1>29 DEF Awaited, CloseGate
<1>30. ASSUME NEW r \in Run, Decided(r)  PROVE TypeOK'
  BY <1>30 DEF Decided, Discard
<1>31. CASE UNCHANGED vars  BY <1>31 DEF vars
<1> QED BY <1>1, <1>2, <1>3, <1>4, <1>5, <1>6, <1>7, <1>8, <1>9, <1>10,
           <1>11, <1>12, <1>13, <1>14, <1>15, <1>16, <1>17, <1>18, <1>19,
           <1>20, <1>21, <1>22, <1>23, <1>24, <1>25, <1>26, <1>27, <1>28,
           <1>29, <1>30, <1>31
        DEF Next, ServerSteps, CallSteps, RunSteps

(* Only Begin gives a run an owner, and only a server that is up begins    *)
(* one.                                                                    *)
LEMMA OwnerStep ==
    ASSUME TypeOK, OwnerInv, [Next]_vars
    PROVE  OwnerInv'
<1> USE DEF TypeOK, OwnerInv, InProcess, files, history, serverVars, runVars
<1> USE BridgeAssumption
<1>1. ASSUME NEW p \in Process, Boot(p)  PROVE OwnerInv'
  BY <1>1 DEF Boot
<1>2. ASSUME NEW p \in Process, SweepRemove(p)  PROVE OwnerInv'
  BY <1>2 DEF SweepRemove
<1>3. ASSUME NEW p \in Process, Serve(p)  PROVE OwnerInv'
  BY <1>3 DEF Serve
<1>4. ASSUME NEW p \in Process, CloseControl(p)  PROVE OwnerInv'
  BY <1>4 DEF CloseControl, Stops
<1>5. ASSUME NEW p \in Process, CancelAll(p)  PROVE OwnerInv'
  BY <1>5 DEF CancelAll, Stops
<1>6. ASSUME NEW p \in Process, CloseAllGates(p)  PROVE OwnerInv'
  BY <1>6 DEF CloseAllGates, Stops
<1>7. ASSUME NEW p \in Process, DiscardAll(p)  PROVE OwnerInv'
  BY <1>7 DEF DiscardAll, Stops
<1>8. ASSUME NEW p \in Process, Exit(p)  PROVE OwnerInv'
  BY <1>8 DEF Exit, Stops
<1>9. ASSUME NEW p \in Process, Crash(p)  PROVE OwnerInv'
  BY <1>9 DEF Crash
<1>10. ASSUME NEW p \in Process, NEW r \in Run, SweepLook(p, r)  PROVE OwnerInv'
  BY <1>10 DEF SweepLook
<1>11. ASSUME NEW p \in Process, NEW r \in Run, Begin(p, r)  PROVE OwnerInv'
  BY <1>11 DEF Begin
<1>12. ASSUME NEW p \in Process, NEW r \in Run, CloseOne(p, r)  PROVE OwnerInv'
  BY <1>12 DEF CloseOne, CloseGate
<1>13. ASSUME NEW p \in Process, NEW r \in Run, DiscardOne(p, r)  PROVE OwnerInv'
  BY <1>13 DEF DiscardOne, Discard
<1>14. ASSUME NEW r \in Run, NoGate(r)  PROVE OwnerInv'
  BY <1>14 DEF NoGate, CallGoes
<1>15. ASSUME NEW r \in Run, GateFails(r)  PROVE OwnerInv'
  BY <1>15 DEF GateFails, CallGoes
<1>16. ASSUME NEW r \in Run, GateListens(r)  PROVE OwnerInv'
  BY <1>16 DEF GateListens, CallGoes
<1>17. ASSUME NEW r \in Run, GateWrites(r)  PROVE OwnerInv'
  BY <1>17 DEF GateWrites, CallGoes
<1>18. ASSUME NEW r \in Run, GateWriteFails(r)  PROVE OwnerInv'
  BY <1>18 DEF GateWriteFails, CallGoes
<1>19. ASSUME NEW r \in Run, GateOpens(r)  PROVE OwnerInv'
  BY <1>19 DEF GateOpens, CallGoes
<1>20. ASSUME NEW r \in Run, Prepare(r)  PROVE OwnerInv'
  BY <1>20 DEF Prepare, CallGoes
<1>21. ASSUME NEW r \in Run, PrepareFails(r)  PROVE OwnerInv'
  BY <1>21 DEF PrepareFails, CloseGate, CallGoes
<1>22. ASSUME NEW r \in Run, Start(r)  PROVE OwnerInv'
  BY <1>22 DEF Start, CallGoes
<1>23. ASSUME NEW r \in Run, StartRefused(r)  PROVE OwnerInv'
  BY <1>23 DEF StartRefused, CloseGate, CallGoes
<1>24. ASSUME NEW r \in Run, Register(r)  PROVE OwnerInv'
  BY <1>24 DEF Register, CallGoes
<1>25. ASSUME NEW r \in Run, Spawn(r)  PROVE OwnerInv'
  BY <1>25 DEF Spawn
<1>26. ASSUME NEW r \in Run, Supervised(r)  PROVE OwnerInv'
  BY <1>26 DEF Supervised
<1>27. ASSUME NEW r \in Run, Rests(r)  PROVE OwnerInv'
  BY <1>27 DEF Rests
<1>28. ASSUME NEW r \in Run, CancelRun(r)  PROVE OwnerInv'
  BY <1>28 DEF CancelRun
<1>29. ASSUME NEW r \in Run, Awaited(r)  PROVE OwnerInv'
  BY <1>29 DEF Awaited, CloseGate
<1>30. ASSUME NEW r \in Run, Decided(r)  PROVE OwnerInv'
  BY <1>30 DEF Decided, Discard
<1>31. CASE UNCHANGED vars  BY <1>31 DEF vars
<1> QED BY <1>1, <1>2, <1>3, <1>4, <1>5, <1>6, <1>7, <1>8, <1>9, <1>10,
           <1>11, <1>12, <1>13, <1>14, <1>15, <1>16, <1>17, <1>18, <1>19,
           <1>20, <1>21, <1>22, <1>23, <1>24, <1>25, <1>26, <1>27, <1>28,
           <1>29, <1>30, <1>31
        DEF Next, ServerSteps, CallSteps, RunSteps

(* A worktree goes with its call, or with the store.                       *)
LEMMA WorkspaceStep ==
    ASSUME TypeOK, OwnerInv, WorkspaceInv, [Next]_vars
    PROVE  WorkspaceInv'
<1> USE DEF TypeOK, OwnerInv, WorkspaceInv, files, history, serverVars, runVars
<1>1. ASSUME NEW p \in Process, Boot(p)  PROVE WorkspaceInv'
  BY <1>1 DEF Boot
<1>2. ASSUME NEW p \in Process, SweepRemove(p)  PROVE WorkspaceInv'
  BY <1>2 DEF SweepRemove
<1>3. ASSUME NEW p \in Process, Serve(p)  PROVE WorkspaceInv'
  BY <1>3 DEF Serve
<1>4. ASSUME NEW p \in Process, CloseControl(p)  PROVE WorkspaceInv'
  BY <1>4 DEF CloseControl, Stops
<1>5. ASSUME NEW p \in Process, CancelAll(p)  PROVE WorkspaceInv'
  BY <1>5 DEF CancelAll, Stops
<1>6. ASSUME NEW p \in Process, CloseAllGates(p)  PROVE WorkspaceInv'
  BY <1>6 DEF CloseAllGates, Stops
<1>7. ASSUME NEW p \in Process, DiscardAll(p)  PROVE WorkspaceInv'
  BY <1>7 DEF DiscardAll, Stops
<1>8. ASSUME NEW p \in Process, Exit(p)  PROVE WorkspaceInv'
  BY <1>8 DEF Exit, Stops
<1>9. ASSUME NEW p \in Process, Crash(p)  PROVE WorkspaceInv'
  BY <1>9 DEF Crash
<1>10. ASSUME NEW p \in Process, NEW r \in Run, SweepLook(p, r)  PROVE WorkspaceInv'
  BY <1>10 DEF SweepLook
<1>11. ASSUME NEW p \in Process, NEW r \in Run, Begin(p, r)  PROVE WorkspaceInv'
  BY <1>11 DEF Begin
<1>12. ASSUME NEW p \in Process, NEW r \in Run, CloseOne(p, r)  PROVE WorkspaceInv'
  BY <1>12 DEF CloseOne, CloseGate
<1>13. ASSUME NEW p \in Process, NEW r \in Run, DiscardOne(p, r)  PROVE WorkspaceInv'
  BY <1>13 DEF DiscardOne, Discard
<1>14. ASSUME NEW r \in Run, NoGate(r)  PROVE WorkspaceInv'
  BY <1>14 DEF NoGate, CallGoes
<1>15. ASSUME NEW r \in Run, GateFails(r)  PROVE WorkspaceInv'
  BY <1>15 DEF GateFails, CallGoes
<1>16. ASSUME NEW r \in Run, GateListens(r)  PROVE WorkspaceInv'
  BY <1>16 DEF GateListens, CallGoes
<1>17. ASSUME NEW r \in Run, GateWrites(r)  PROVE WorkspaceInv'
  BY <1>17 DEF GateWrites, CallGoes
<1>18. ASSUME NEW r \in Run, GateWriteFails(r)  PROVE WorkspaceInv'
  BY <1>18 DEF GateWriteFails, CallGoes
<1>19. ASSUME NEW r \in Run, GateOpens(r)  PROVE WorkspaceInv'
  BY <1>19 DEF GateOpens, CallGoes
<1>20. ASSUME NEW r \in Run, Prepare(r)  PROVE WorkspaceInv'
  BY <1>20 DEF Prepare, CallGoes
<1>21. ASSUME NEW r \in Run, PrepareFails(r)  PROVE WorkspaceInv'
  BY <1>21 DEF PrepareFails, CloseGate, CallGoes
<1>22. ASSUME NEW r \in Run, Start(r)  PROVE WorkspaceInv'
  BY <1>22 DEF Start, CallGoes
<1>23. ASSUME NEW r \in Run, StartRefused(r)  PROVE WorkspaceInv'
  BY <1>23 DEF StartRefused, CloseGate, CallGoes
<1>24. ASSUME NEW r \in Run, Register(r)  PROVE WorkspaceInv'
  BY <1>24 DEF Register, CallGoes
<1>25. ASSUME NEW r \in Run, Spawn(r)  PROVE WorkspaceInv'
  BY <1>25 DEF Spawn
<1>26. ASSUME NEW r \in Run, Supervised(r)  PROVE WorkspaceInv'
  BY <1>26 DEF Supervised
<1>27. ASSUME NEW r \in Run, Rests(r)  PROVE WorkspaceInv'
  BY <1>27 DEF Rests
<1>28. ASSUME NEW r \in Run, CancelRun(r)  PROVE WorkspaceInv'
  BY <1>28 DEF CancelRun
<1>29. ASSUME NEW r \in Run, Awaited(r)  PROVE WorkspaceInv'
  BY <1>29 DEF Awaited, CloseGate
<1>30. ASSUME NEW r \in Run, Decided(r)  PROVE WorkspaceInv'
  BY <1>30 DEF Decided, Discard
<1>31. CASE UNCHANGED vars  BY <1>31 DEF vars
<1> QED BY <1>1, <1>2, <1>3, <1>4, <1>5, <1>6, <1>7, <1>8, <1>9, <1>10,
           <1>11, <1>12, <1>13, <1>14, <1>15, <1>16, <1>17, <1>18, <1>19,
           <1>20, <1>21, <1>22, <1>23, <1>24, <1>25, <1>26, <1>27, <1>28,
           <1>29, <1>30, <1>31
        DEF Next, ServerSteps, CallSteps, RunSteps

(* A config goes with its gate: the sweep removes those of dead processes, *)
(* and CloseAll only gates that have been opened.                          *)
LEMMA GateStep ==
    ASSUME TypeOK, OwnerInv, GateInv, SweepInv, StopInv, [Next]_vars
    PROVE  GateInv'
<1> USE DEF TypeOK, OwnerInv, GateInv, InProcess, Alive, files, history, serverVars, runVars
<1> USE BridgeAssumption
<1>1. ASSUME NEW p \in Process, Boot(p)  PROVE GateInv'
  BY <1>1 DEF Boot
<1>2. ASSUME NEW p \in Process, SweepRemove(p)  PROVE GateInv'
  BY <1>2 DEF SweepRemove, SweepInv, Dead
<1>3. ASSUME NEW p \in Process, Serve(p)  PROVE GateInv'
  BY <1>3 DEF Serve
<1>4. ASSUME NEW p \in Process, CloseControl(p)  PROVE GateInv'
  BY <1>4 DEF CloseControl, Stops
<1>5. ASSUME NEW p \in Process, CancelAll(p)  PROVE GateInv'
  BY <1>5 DEF CancelAll, Stops
<1>6. ASSUME NEW p \in Process, CloseAllGates(p)  PROVE GateInv'
  BY <1>6 DEF CloseAllGates, Stops
<1>7. ASSUME NEW p \in Process, DiscardAll(p)  PROVE GateInv'
  BY <1>7 DEF DiscardAll, Stops
<1>8. ASSUME NEW p \in Process, Exit(p)  PROVE GateInv'
  BY <1>8 DEF Exit, Stops
<1>9. ASSUME NEW p \in Process, Crash(p)  PROVE GateInv'
  BY <1>9 DEF Crash
<1>10. ASSUME NEW p \in Process, NEW r \in Run, SweepLook(p, r)  PROVE GateInv'
  BY <1>10 DEF SweepLook
<1>11. ASSUME NEW p \in Process, NEW r \in Run, Begin(p, r)  PROVE GateInv'
  BY <1>11 DEF Begin
<1>12. ASSUME NEW p \in Process, NEW r \in Run, CloseOne(p, r)  PROVE GateInv'
  BY <1>12 DEF CloseOne, CloseGate, StopInv
<1>13. ASSUME NEW p \in Process, NEW r \in Run, DiscardOne(p, r)  PROVE GateInv'
  BY <1>13 DEF DiscardOne, Discard
<1>14. ASSUME NEW r \in Run, NoGate(r)  PROVE GateInv'
  BY <1>14 DEF NoGate, CallGoes
<1>15. ASSUME NEW r \in Run, GateFails(r)  PROVE GateInv'
  BY <1>15 DEF GateFails, CallGoes
<1>16. ASSUME NEW r \in Run, GateListens(r)  PROVE GateInv'
  BY <1>16 DEF GateListens, CallGoes
<1>17. ASSUME NEW r \in Run, GateWrites(r)  PROVE GateInv'
  BY <1>17 DEF GateWrites, CallGoes
<1>18. ASSUME NEW r \in Run, GateWriteFails(r)  PROVE GateInv'
  BY <1>18 DEF GateWriteFails, CallGoes
<1>19. ASSUME NEW r \in Run, GateOpens(r)  PROVE GateInv'
  BY <1>19 DEF GateOpens, CallGoes
<1>20. ASSUME NEW r \in Run, Prepare(r)  PROVE GateInv'
  BY <1>20 DEF Prepare, CallGoes
<1>21. ASSUME NEW r \in Run, PrepareFails(r)  PROVE GateInv'
  BY <1>21 DEF PrepareFails, CloseGate, CallGoes
<1>22. ASSUME NEW r \in Run, Start(r)  PROVE GateInv'
  BY <1>22 DEF Start, CallGoes
<1>23. ASSUME NEW r \in Run, StartRefused(r)  PROVE GateInv'
  BY <1>23 DEF StartRefused, CloseGate, CallGoes
<1>24. ASSUME NEW r \in Run, Register(r)  PROVE GateInv'
  BY <1>24 DEF Register, CallGoes
<1>25. ASSUME NEW r \in Run, Spawn(r)  PROVE GateInv'
  BY <1>25 DEF Spawn
<1>26. ASSUME NEW r \in Run, Supervised(r)  PROVE GateInv'
  BY <1>26 DEF Supervised
<1>27. ASSUME NEW r \in Run, Rests(r)  PROVE GateInv'
  BY <1>27 DEF Rests
<1>28. ASSUME NEW r \in Run, CancelRun(r)  PROVE GateInv'
  BY <1>28 DEF CancelRun
<1>29. ASSUME NEW r \in Run, Awaited(r)  PROVE GateInv'
  BY <1>29 DEF Awaited, CloseGate
<1>30. ASSUME NEW r \in Run, Decided(r)  PROVE GateInv'
  BY <1>30 DEF Decided, Discard
<1>31. CASE UNCHANGED vars  BY <1>31 DEF vars
<1> QED BY <1>1, <1>2, <1>3, <1>4, <1>5, <1>6, <1>7, <1>8, <1>9, <1>10,
           <1>11, <1>12, <1>13, <1>14, <1>15, <1>16, <1>17, <1>18, <1>19,
           <1>20, <1>21, <1>22, <1>23, <1>24, <1>25, <1>26, <1>27, <1>28,
           <1>29, <1>30, <1>31
        DEF Next, ServerSteps, CallSteps, RunSteps

(* A sweep dooms nothing that lives, for a config that is there has a gate *)
(* to dial while its process lives; and it leaves nothing it found.        *)
LEMMA SweepStep ==
    ASSUME TypeOK, OwnerInv, GateInv, SweepInv, [Next]_vars
    PROVE  SweepInv'
<1> USE DEF TypeOK, OwnerInv, GateInv, SweepInv, InProcess, Alive, Dead, Answers,
            files, history, serverVars, runVars
<1> USE BridgeAssumption
<1>1. ASSUME NEW p \in Process, Boot(p)  PROVE SweepInv'
  BY <1>1 DEF Boot
<1>2. ASSUME NEW p \in Process, SweepRemove(p)  PROVE SweepInv'
  BY <1>2 DEF SweepRemove
<1>3. ASSUME NEW p \in Process, Serve(p)  PROVE SweepInv'
  BY <1>3 DEF Serve
<1>4. ASSUME NEW p \in Process, CloseControl(p)  PROVE SweepInv'
  BY <1>4 DEF CloseControl, Stops
<1>5. ASSUME NEW p \in Process, CancelAll(p)  PROVE SweepInv'
  BY <1>5 DEF CancelAll, Stops
<1>6. ASSUME NEW p \in Process, CloseAllGates(p)  PROVE SweepInv'
  BY <1>6 DEF CloseAllGates, Stops
<1>7. ASSUME NEW p \in Process, DiscardAll(p)  PROVE SweepInv'
  BY <1>7 DEF DiscardAll, Stops
<1>8. ASSUME NEW p \in Process, Exit(p)  PROVE SweepInv'
  BY <1>8 DEF Exit, Stops
<1>9. ASSUME NEW p \in Process, Crash(p)  PROVE SweepInv'
  BY <1>9 DEF Crash
<1>10. ASSUME NEW p \in Process, NEW r \in Run, SweepLook(p, r)  PROVE SweepInv'
  BY <1>10 DEF SweepLook
<1>11. ASSUME NEW p \in Process, NEW r \in Run, Begin(p, r)  PROVE SweepInv'
  BY <1>11 DEF Begin
<1>12. ASSUME NEW p \in Process, NEW r \in Run, CloseOne(p, r)  PROVE SweepInv'
  BY <1>12 DEF CloseOne, CloseGate
<1>13. ASSUME NEW p \in Process, NEW r \in Run, DiscardOne(p, r)  PROVE SweepInv'
  BY <1>13 DEF DiscardOne, Discard
<1>14. ASSUME NEW r \in Run, NoGate(r)  PROVE SweepInv'
  BY <1>14 DEF NoGate, CallGoes
<1>15. ASSUME NEW r \in Run, GateFails(r)  PROVE SweepInv'
  BY <1>15 DEF GateFails, CallGoes
<1>16. ASSUME NEW r \in Run, GateListens(r)  PROVE SweepInv'
  BY <1>16 DEF GateListens, CallGoes
<1>17. ASSUME NEW r \in Run, GateWrites(r)  PROVE SweepInv'
  BY <1>17 DEF GateWrites, CallGoes
<1>18. ASSUME NEW r \in Run, GateWriteFails(r)  PROVE SweepInv'
  BY <1>18 DEF GateWriteFails, CallGoes
<1>19. ASSUME NEW r \in Run, GateOpens(r)  PROVE SweepInv'
  BY <1>19 DEF GateOpens, CallGoes
<1>20. ASSUME NEW r \in Run, Prepare(r)  PROVE SweepInv'
  BY <1>20 DEF Prepare, CallGoes
<1>21. ASSUME NEW r \in Run, PrepareFails(r)  PROVE SweepInv'
  BY <1>21 DEF PrepareFails, CloseGate, CallGoes
<1>22. ASSUME NEW r \in Run, Start(r)  PROVE SweepInv'
  BY <1>22 DEF Start, CallGoes
<1>23. ASSUME NEW r \in Run, StartRefused(r)  PROVE SweepInv'
  BY <1>23 DEF StartRefused, CloseGate, CallGoes
<1>24. ASSUME NEW r \in Run, Register(r)  PROVE SweepInv'
  BY <1>24 DEF Register, CallGoes
<1>25. ASSUME NEW r \in Run, Spawn(r)  PROVE SweepInv'
  BY <1>25 DEF Spawn
<1>26. ASSUME NEW r \in Run, Supervised(r)  PROVE SweepInv'
  BY <1>26 DEF Supervised
<1>27. ASSUME NEW r \in Run, Rests(r)  PROVE SweepInv'
  BY <1>27 DEF Rests
<1>28. ASSUME NEW r \in Run, CancelRun(r)  PROVE SweepInv'
  BY <1>28 DEF CancelRun
<1>29. ASSUME NEW r \in Run, Awaited(r)  PROVE SweepInv'
  BY <1>29 DEF Awaited, CloseGate
<1>30. ASSUME NEW r \in Run, Decided(r)  PROVE SweepInv'
  BY <1>30 DEF Decided, Discard
<1>31. CASE UNCHANGED vars  BY <1>31 DEF vars
<1> QED BY <1>1, <1>2, <1>3, <1>4, <1>5, <1>6, <1>7, <1>8, <1>9, <1>10,
           <1>11, <1>12, <1>13, <1>14, <1>15, <1>16, <1>17, <1>18, <1>19,
           <1>20, <1>21, <1>22, <1>23, <1>24, <1>25, <1>26, <1>27, <1>28,
           <1>29, <1>30, <1>31
        DEF Next, ServerSteps, CallSteps, RunSteps

(* Each loop of a shutdown works off what it took up, and nothing is added *)
(* behind it but by calls that were in flight.                             *)
LEMMA StopStep ==
    ASSUME TypeOK, OwnerInv, GateInv, WorkspaceInv, StopInv, [Next]_vars
    PROVE  StopInv'
<1> USE DEF TypeOK, OwnerInv, GateInv, WorkspaceInv, StopInv, InProcess, Alive, Owned,
            InFlight, files, history, serverVars, runVars
<1> USE BridgeAssumption
<1>1. ASSUME NEW p \in Process, Boot(p)  PROVE StopInv'
  BY <1>1 DEF Boot
<1>2. ASSUME NEW p \in Process, SweepRemove(p)  PROVE StopInv'
  BY <1>2 DEF SweepRemove
<1>3. ASSUME NEW p \in Process, Serve(p)  PROVE StopInv'
  BY <1>3 DEF Serve
<1>4. ASSUME NEW p \in Process, CloseControl(p)  PROVE StopInv'
  BY <1>4 DEF CloseControl, Stops
<1>5. ASSUME NEW p \in Process, CancelAll(p)  PROVE StopInv'
  BY <1>5 DEF CancelAll, Stops
<1>6. ASSUME NEW p \in Process, CloseAllGates(p)  PROVE StopInv'
  BY <1>6 DEF CloseAllGates, Stops
<1>7. ASSUME NEW p \in Process, DiscardAll(p)  PROVE StopInv'
  BY <1>7 DEF DiscardAll, Stops
<1>8. ASSUME NEW p \in Process, Exit(p)  PROVE StopInv'
  BY <1>8 DEF Exit, Stops
<1>9. ASSUME NEW p \in Process, Crash(p)  PROVE StopInv'
  BY <1>9 DEF Crash
<1>10. ASSUME NEW p \in Process, NEW r \in Run, SweepLook(p, r)  PROVE StopInv'
  BY <1>10 DEF SweepLook
<1>11. ASSUME NEW p \in Process, NEW r \in Run, Begin(p, r)  PROVE StopInv'
  BY <1>11 DEF Begin
<1>12. ASSUME NEW p \in Process, NEW r \in Run, CloseOne(p, r)  PROVE StopInv'
  BY <1>12 DEF CloseOne, CloseGate
<1>13. ASSUME NEW p \in Process, NEW r \in Run, DiscardOne(p, r)  PROVE StopInv'
  BY <1>13 DEF DiscardOne, Discard
<1>14. ASSUME NEW r \in Run, NoGate(r)  PROVE StopInv'
  BY <1>14 DEF NoGate, CallGoes
<1>15. ASSUME NEW r \in Run, GateFails(r)  PROVE StopInv'
  BY <1>15 DEF GateFails, CallGoes
<1>16. ASSUME NEW r \in Run, GateListens(r)  PROVE StopInv'
  BY <1>16 DEF GateListens, CallGoes
<1>17. ASSUME NEW r \in Run, GateWrites(r)  PROVE StopInv'
  BY <1>17 DEF GateWrites, CallGoes
<1>18. ASSUME NEW r \in Run, GateWriteFails(r)  PROVE StopInv'
  BY <1>18 DEF GateWriteFails, CallGoes
<1>19. ASSUME NEW r \in Run, GateOpens(r)  PROVE StopInv'
  BY <1>19 DEF GateOpens, CallGoes
<1>20. ASSUME NEW r \in Run, Prepare(r)  PROVE StopInv'
  BY <1>20 DEF Prepare, CallGoes
<1>21. ASSUME NEW r \in Run, PrepareFails(r)  PROVE StopInv'
  BY <1>21 DEF PrepareFails, CloseGate, CallGoes
<1>22. ASSUME NEW r \in Run, Start(r)  PROVE StopInv'
  BY <1>22 DEF Start, CallGoes
<1>23. ASSUME NEW r \in Run, StartRefused(r)  PROVE StopInv'
  BY <1>23 DEF StartRefused, CloseGate, CallGoes
<1>24. ASSUME NEW r \in Run, Register(r)  PROVE StopInv'
  BY <1>24 DEF Register, CallGoes
<1>25. ASSUME NEW r \in Run, Spawn(r)  PROVE StopInv'
  BY <1>25 DEF Spawn
<1>26. ASSUME NEW r \in Run, Supervised(r)  PROVE StopInv'
  BY <1>26 DEF Supervised
<1>27. ASSUME NEW r \in Run, Rests(r)  PROVE StopInv'
  BY <1>27 DEF Rests
<1>28. ASSUME NEW r \in Run, CancelRun(r)  PROVE StopInv'
  BY <1>28 DEF CancelRun
<1>29. ASSUME NEW r \in Run, Awaited(r)  PROVE StopInv'
  BY <1>29 DEF Awaited, CloseGate
<1>30. ASSUME NEW r \in Run, Decided(r)  PROVE StopInv'
  BY <1>30 DEF Decided, Discard
<1>31. CASE UNCHANGED vars  BY <1>31 DEF vars
<1> QED BY <1>1, <1>2, <1>3, <1>4, <1>5, <1>6, <1>7, <1>8, <1>9, <1>10,
           <1>11, <1>12, <1>13, <1>14, <1>15, <1>16, <1>17, <1>18, <1>19,
           <1>20, <1>21, <1>22, <1>23, <1>24, <1>25, <1>26, <1>27, <1>28,
           <1>29, <1>30, <1>31
        DEF Next, ServerSteps, CallSteps, RunSteps

-----------------------------------------------------------------------------
(* The theorems *)

(* No server has started and no call has been made.                        *)
LEMMA BridgeInvInit == Init => BridgeInv
<1> SUFFICES ASSUME Init  PROVE BridgeInv  OBVIOUS
<1>1. TypeOK  BY DEF Init, TypeOK, ServerStep, CallStep
<1>2. OwnerInv /\ GateInv /\ WorkspaceInv
  BY DEF Init, OwnerInv, GateInv, WorkspaceInv
<1>3. SweepInv /\ StopInv  BY DEF Init, SweepInv, StopInv
<1> QED BY <1>1, <1>2, <1>3 DEF BridgeInv

(* The inductive invariant, for every value of the constants.              *)
THEOREM BridgeInvCorrect == Spec => []BridgeInv
<1>1. BridgeInv /\ [Next]_vars => BridgeInv'
  BY TypeStep, OwnerStep, WorkspaceStep, GateStep, SweepStep, StopStep DEF BridgeInv
<1> QED BY BridgeInvInit, <1>1, PTL DEF Spec

(* Every variable keeps its type, and what is registered is on disk.       *)
THEOREM TypeCorrect == Spec => []TypeOK
<1>1. BridgeInv => TypeOK  BY DEF BridgeInv
<1> QED BY <1>1, BridgeInvCorrect, PTL

(* The sweep of a server that starts never takes the config of a gate that *)
(* is open, whatever the other server does meanwhile, and leaves none of a *)
(* dead server.                                                            *)
THEOREM SweepCorrect == Spec => []SweepExact
<1>1. BridgeInv => SweepExact
  BY DEF BridgeInv, GateInv, SweepInv, SweepExact
<1> QED BY <1>1, BridgeInvCorrect, PTL

(* A call that is refused at whatever step has given everything back.      *)
THEOREM RefusalsCorrect == Spec => []RefusedLeavesNothing
<1>1. BridgeInv => RefusedLeavesNothing
  BY DEF BridgeInv, GateInv, WorkspaceInv, RefusedLeavesNothing
<1> QED BY <1>1, BridgeInvCorrect, PTL

(* A server that stops in order leaves neither config nor worktree of a    *)
(* run whose call had returned.                                            *)
THEOREM ExitsClean == Spec => []CleanExit
<1>1. BridgeInv => CleanExit
  <2> SUFFICES ASSUME BridgeInv, NEW p \in Process, server[p] = "exited",
                      NEW r \in Owned(p) \ late
               PROVE  r \notin config /\ r \notin workspace
    BY DEF CleanExit, Owned
  <2>1. r \in Run /\ call[r] \in {"returned", "refused"} /\ gate[r] # "open"
        /\ r \notin stored
    BY DEF BridgeInv, StopInv, Owned
  <2> QED BY <2>1 DEF BridgeInv, GateInv, WorkspaceInv
<1> QED BY <1>1, BridgeInvCorrect, PTL

=============================================================================
