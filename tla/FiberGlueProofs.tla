-------------------------- MODULE FiberGlueProofs ---------------------------
(***************************************************************************)
(* TLAPS proofs about FiberGlue, for every set of jobs and fibers.         *)
(***************************************************************************)
EXTENDS FiberGlueInv, TLAPS

\* The initial state of the glue satisfies the inductive invariant.
THEOREM InitInv == Init => IndInv
<1> USE Names, Bounds DEF Names, Bounds, Activations
<1> SUFFICES ASSUME Init PROVE IndInv
  OBVIOUS
<1>1. TypeOK
  <2>1. 0 \in 0 .. MaxDepth
    OBVIOUS
  <2>2. sp \in Positions
    BY <2>1 DEF Init, Positions
  <2>3. base \in [Activations -> 0 .. MaxDepth] /\ top \in [Activations -> 0 .. MaxDepth]
    BY <2>1 DEF Init
  <2> QED
    BY <2>2, <2>3 DEF Init, TypeOK, JobStates, Outcomes, EventStates
<1>2. QueueInv /\ OneRoot
  BY DEF Init, QueueInv, OneRoot, Running
<1>3. TokenInv /\ HolderInv /\ FlightInv
  BY DEF Init, TokenInv, HolderInv, FlightInv, HasToken
<1>4. SlotInv
  BY DEF Init, SlotInv, Waiting
<1>5. StackInv
  BY DEF Init, StackInv, StackSafe, HasToken, Waiting, Live, Home
<1>6. WakeInv
  BY DEF Init, WakeInv, Running
<1> QED
  BY <1>1, <1>2, <1>3, <1>4, <1>5, <1>6 DEF IndInv

\* Every step of the glue keeps its state well typed.
LEMMA TypeStep == ASSUME IndInv, [Next]_vars PROVE TypeOK'
<1> USE Names, Bounds
    DEF Names, Bounds, TypeOK, Activations, Positions, Parties, Outcomes, EventStates, JobStates
<1> TypeOK
  BY DEF IndInv
<1>1. ASSUME UNCHANGED vars PROVE TypeOK'
  BY <1>1 DEF vars, queueVars, stackVars, fiberVars, parkVars
<1>2. CASE Setup
  BY <1>2 DEF Setup, stackVars, fiberVars, parkVars
<1>3. ASSUME NEW j \in Jobs, DriveUnbound(j) \/ Drive(j) \/ Start(j) PROVE TypeOK'
  BY <1>3 DEF DriveUnbound, Drive, Start, stackVars, fiberVars, parkVars
<1>4. CASE Call
  BY <1>4 DEF Call, queueVars, fiberVars, parkVars
<1>5. CASE Return
  BY <1>5 DEF Return, Home, queueVars, fiberVars, parkVars
<1>6. CASE PlainExportTraps
  BY <1>6 DEF PlainExportTraps, queueVars, fiberVars, parkVars
<1>7. ASSUME NEW f \in Fibers, FiberInit(f) \/ SwitchFirst(f) PROVE TypeOK'
  BY <1>7 DEF FiberInit, SwitchFirst, Me, queueVars, fiberVars, parkVars
<1>8. ASSUME NEW f \in Fibers, SwitchInto(f) \/ SwitchOut(f) PROVE TypeOK'
  <2>1. slot[f] \in Parties /\ cur # None /\ Swap(f)
    BY <1>8 DEF SwitchInto, SwitchOut, IndInv, SlotInv, HolderInv, Started, Waiting
  <2> QED
    BY <2>1 DEF Swap, Me, queueVars, parkVars
<1>9. ASSUME NEW f \in Fibers, FiberReturn(f) PROVE TypeOK'
  BY <1>9 DEF FiberReturn, queueVars, parkVars
<1>10. ASSUME NEW f \in Fibers, FiberSettled(f) PROVE TypeOK'
  <2>1. slot[f] \in Parties
    BY <1>10 DEF FiberSettled, IndInv, SlotInv, HolderInv, Waiting
  <2> QED
    BY <1>10, <2>1 DEF FiberSettled, queueVars, parkVars
<1>11. ASSUME NEW a \in Activations, Trap(a) \/ ResumeTraps(a) PROVE TypeOK'
  BY <1>11 DEF Trap, ResumeTraps, Dies, stackVars, parkVars
<1>12. ASSUME NEW a \in Activations, Resume(a) PROVE TypeOK'
  BY <1>12 DEF Resume, queueVars, stackVars
<1>13. ASSUME NEW j \in Jobs, Arm(j) \/ Park(j) \/ RootReturn(j) PROVE TypeOK'
  <2>1. CASE Arm(j)
    BY <2>1 DEF Arm, queueVars, stackVars, fiberVars
  <2>2. CASE Park(j)
    BY <2>2 DEF Park, stackVars
  <2>3. CASE RootReturn(j)
    BY <2>3 DEF RootReturn, fiberVars, parkVars
  <2> QED
    BY <1>13, <2>1, <2>2, <2>3
<1>14. ASSUME NEW j \in Jobs, Wake(j) PROVE TypeOK'
  BY <1>14 DEF Wake, Unpark, queueVars, stackVars
<1>15. CASE StaleWake
  BY <1>15 DEF StaleWake, Unpark, queueVars, stackVars
<1> QED
  BY <1>1, <1>2, <1>3, <1>4, <1>5, <1>6, <1>7, <1>8, <1>9, <1>10, <1>11, <1>12,
     <1>13, <1>14, <1>15 DEF Next, JobStep, FiberStep, ActivationStep

\* Which steps leave the queue of jobs alone.
LEMMA QueueFrame ==
  ASSUME Call \/ Return \/ PlainExportTraps \/ StaleWake
           \/ (\E f \in Fibers : FiberStep(f))
           \/ (\E a \in Activations : Resume(a))
           \/ (\E j \in Jobs : Arm(j) \/ Wake(j))
  PROVE  UNCHANGED queueVars
  BY DEF Call, Return, PlainExportTraps, StaleWake, FiberStep, FiberInit, SwitchFirst,
         SwitchInto, SwitchOut, Swap, FiberReturn, FiberSettled, Resume, Arm, Wake

\* A job that leaves the in-flight state by a trap.
LEMMA DeathOfJob ==
  ASSUME IndInv, NEW a \in Activations, Trap(a) \/ ResumeTraps(a)
  PROVE  /\ UNCHANGED <<bound, chain, after, ticket>>
         /\ \/ a \in Fibers /\ UNCHANGED job
            \/ a \in Jobs /\ job[a] = "running" /\ job' = [job EXCEPT ![a] = "err"]
<1> USE Names DEF Names, IndInv, HolderInv, TypeOK, Started, Activations
<1>1. CASE Trap(a)
  BY <1>1 DEF Trap, Dies
<1>2. CASE ResumeTraps(a)
  BY <1>2 DEF ResumeTraps, Dies
<1> QED
  BY <1>1, <1>2

\* The chain is in the order of the tickets: when the link that a job waits
\* for has settled, so have all the jobs driven before it.
LEMMA StartInOrder ==
  ASSUME IndInv, NEW j \in Jobs, Start(j)
  PROVE  \A i \in Jobs : ticket[i] # 0 /\ ticket[i] < ticket[j] => Settled(i)
<1> USE DEF IndInv, Start, TypeOK
<1>1. CASE after[j] = None
  <2>1. ticket[j] <= 1 /\ \A i \in Jobs : ticket[i] \in Nat
    BY <1>1 DEF QueueInv
  <2> QED
    BY <2>1
<1>2. CASE after[j] # None
  <2>1. Settled(after[j]) /\ ticket[j] = ticket[after[j]] + 1 /\ after[j] \in Jobs
    BY <1>2 DEF ChainReady, QueueInv
  <2>2. \A i \in Jobs : ticket[i] # 0 /\ ticket[i] < ticket[after[j]] => Settled(i)
    BY <2>1 DEF QueueInv, Settled
  <2>3. \A i \in Jobs : ticket[i] # 0 /\ ticket[i] = ticket[after[j]] => i = after[j]
    BY <2>1 DEF QueueInv
  <2> QED
    BY <2>1, <2>2, <2>3
<1> QED
  BY <1>1, <1>2

\* Every step preserves the numbering of the jobs, and with it the exclusion
\* of two root activations: a job begins only behind settled ones.
LEMMA QueueStep == ASSUME IndInv, [Next]_vars PROVE QueueInv' /\ OneRoot'
<1> DEFINE Goal == QueueInv' /\ OneRoot'
<1> USE Names DEF Names
<1> TypeOK /\ QueueInv /\ OneRoot
  BY DEF IndInv
<1>1. ASSUME UNCHANGED queueVars PROVE Goal
  BY <1>1 DEF queueVars, QueueInv, OneRoot, Running, Settled
<1>2. ASSUME UNCHANGED <<job, chain, after, ticket>> PROVE Goal
  BY <1>2 DEF QueueInv, OneRoot, Running, Settled
<1>3. ASSUME NEW j \in Jobs, job[j] = "running", NEW o \in {"ok", "err"},
             job' = [job EXCEPT ![j] = o], UNCHANGED <<chain, after, ticket>>
      PROVE  Goal
  BY <1>3 DEF QueueInv, OneRoot, Running, Settled, TypeOK
<1>4. ASSUME NEW j \in Jobs, DriveUnbound(j) PROVE Goal
  BY <1>4 DEF DriveUnbound, QueueInv, OneRoot, Running, Settled, TypeOK
<1>5. ASSUME NEW j \in Jobs, Drive(j) PROVE Goal
  <2> USE <1>5 DEF Drive, TypeOK
  <2>1. ticket[j] = 0 /\ job[j] = "new" /\ chain # j
    BY DEF QueueInv
  <2>2. \A i \in Jobs : ticket[i] < ticket'[j]
    BY DEF QueueInv
  <2>3. ticket'[j] # 0 /\ \A i \in Jobs \ {j} : ticket'[i] = ticket[i] /\ job'[i] = job[i]
    OBVIOUS
  <2>4. \A i \in Jobs : after'[i] # None =>
          ticket'[after'[i]] # 0 /\ ticket'[i] = ticket'[after'[i]] + 1
    BY <2>1 DEF QueueInv
  <2>5. \A i \in Jobs : after'[i] = None => ticket'[i] <= 1
    BY <2>1 DEF QueueInv
  <2>6. \A i \in Jobs : Settled(i) => Settled(i)'
    BY DEF Settled
  <2>7. \A i, k \in Jobs :
          job'[k] \in {"running", "ok", "err"} /\ ticket'[i] # 0 /\ ticket'[i] < ticket'[k]
            => Settled(i)'
    BY <2>1, <2>2, <2>3, <2>6 DEF QueueInv
  <2>8. \A i, k \in Jobs : ticket'[i] = ticket'[k] /\ ticket'[i] # 0 => i = k
    BY <2>2, <2>3 DEF QueueInv
  <2>9. \A i \in Jobs : ticket'[i] <= ticket'[chain']
    BY <2>2, <2>3
  <2>10. \A i \in Jobs : /\ job'[i] = "new" => ticket'[i] = 0
                         /\ job'[i] \in {"queued", "running", "ok"} => ticket'[i] # 0
    BY <2>3 DEF QueueInv
  <2>11. OneRoot'
    BY DEF OneRoot, Running
  <2> QED
    BY <2>3, <2>4, <2>5, <2>7, <2>8, <2>9, <2>10, <2>11 DEF QueueInv
<1>6. ASSUME NEW j \in Jobs, Start(j) PROVE Goal
  <2> USE <1>6 DEF Start, TypeOK
  <2>1. \A i \in Jobs : ticket[i] # 0 /\ ticket[i] < ticket[j] => Settled(i)
    BY StartInOrder
  <2>2. \A i \in Jobs : job[i] # "running"
    <3> SUFFICES ASSUME NEW i \in Jobs, job[i] = "running" PROVE FALSE
      OBVIOUS
    <3>1. ticket[i] # 0 /\ ticket[j] # 0 /\ i # j
      BY DEF QueueInv
    <3>2. ~(ticket[i] < ticket[j])
      BY <2>1, <3>1 DEF Settled
    <3>3. ~(ticket[j] < ticket[i])
      BY <3>1 DEF QueueInv, Settled
    <3>4. ticket[i] \in Nat /\ ticket[j] \in Nat
      OBVIOUS
    <3>5. ticket[i] # ticket[j]
      BY <3>1 DEF QueueInv
    <3> QED
      BY <3>2, <3>3, <3>4, <3>5
  <2>3. OneRoot'
    BY <2>2 DEF OneRoot, Running
  <2>4. QueueInv'
    BY <2>1 DEF QueueInv, Settled
  <2> QED
    BY <2>3, <2>4
<1>7. ASSUME NEW a \in Activations, Trap(a) \/ ResumeTraps(a) PROVE Goal
  BY <1>2, <1>3, <1>7, DeathOfJob
<1>8. ASSUME NEW j \in Jobs, Park(j) \/ RootReturn(j) PROVE Goal
  BY <1>2, <1>3, <1>8 DEF Park, RootReturn
<1>9. CASE Setup
  BY <1>2, <1>9 DEF Setup
<1>10. CASE UNCHANGED vars
  BY <1>1, <1>10 DEF vars
<1> QED
  BY <1>1, <1>4, <1>5, <1>6, <1>7, <1>8, <1>9, <1>10, QueueFrame
  DEF Next, JobStep, ActivationStep

\* Control changes hands: the proofs of TokenInv, HolderInv, FlightInv and
\* SlotInv look at these variables only.
ControlInv == TokenInv /\ HolderInv /\ FlightInv /\ SlotInv

\* Steps that leave alone who holds the token, who waits, and who is in flight.
LEMMA ControlFrame ==
  ASSUME IndInv, UNCHANGED <<cur, pend, fin, parked, fiber, slot>>,
         \A j \in Jobs : job'[j] = "running" <=> job[j] = "running"
  PROVE  ControlInv'
  BY Names DEF Names, IndInv, ControlInv, TypeOK, TokenInv, HolderInv, FlightInv, HasToken,
     SlotInv, Started, Waiting, Activations, Parties

\* A job begins: it takes the token that nobody holds.
LEMMA ControlStart ==
  ASSUME IndInv, NEW j \in Jobs, Start(j), OneRoot' PROVE ControlInv'
<1> USE Names DEF Names, IndInv, Start, fiberVars, parkVars, TypeOK, Activations
<1>1. \A i \in Jobs : job[i] = "running" => FALSE
  BY DEF OneRoot, Running
<1>2. ~HasToken
  BY <1>1 DEF FlightInv
<1>3. TokenInv'
  BY <1>2 DEF TokenInv, HasToken
<1>4. HolderInv'
  BY <1>2 DEF HolderInv, HasToken, Started
<1>5. FlightInv'
  BY DEF FlightInv, HasToken
<1>6. SlotInv'
  BY <1>1 DEF SlotInv, Started, Waiting, Parties
<1> QED
  BY <1>3, <1>4, <1>5, <1>6 DEF ControlInv

\* A fresh entry in the map is nobody's: it neither waits nor is waited for.
LEMMA ControlFiberInit ==
  ASSUME IndInv, NEW f \in Fibers, FiberInit(f) PROVE ControlInv'
<1> USE Names DEF Names, IndInv, FiberInit, queueVars, parkVars, TypeOK, Activations
<1>1. TokenInv' /\ FlightInv'
  BY DEF TokenInv, FlightInv, HasToken
<1>2. HolderInv'
  BY DEF HolderInv, Started
<1>3. SlotInv'
  BY DEF SlotInv, Started, Waiting, Parties
<1> QED
  BY <1>1, <1>2, <1>3 DEF ControlInv

\* The first switch: the switcher waits in the slot, the fiber executes.
LEMMA ControlSwitchFirst ==
  ASSUME IndInv, NEW f \in Fibers, SwitchFirst(f) PROVE ControlInv'
<1> USE Names DEF Names, IndInv, SwitchFirst, Me, queueVars, parkVars, TypeOK, Activations
<1>1. TokenInv'
  BY DEF TokenInv
<1>2. HolderInv'
  BY DEF HolderInv, Started
<1>3. FlightInv'
  BY DEF FlightInv, HasToken
<1>4. SlotInv'
  <2>1. slot'[f].who = cur /\ slot'[f] # None /\ ~Waiting(f)
    BY NullIsNoParty DEF SlotInv, Waiting, Parties
  <2>2. \A g \in Fibers \ {f} : slot'[g] = slot[g] /\ fiber'[g] = fiber[g]
    OBVIOUS
  <2>3. \A a \in Activations : Started(a) => Started(a)'
    BY DEF Started
  <2>4. \A g \in Fibers : Waiting(g)' <=> fiber'[g] = "started"
    BY <2>1, <2>2 DEF SlotInv, Waiting
  <2>5. \A g \in Fibers : Waiting(g) => slot[g].who \in Activations /\ slot[g].who # f
    BY DEF SlotInv, Waiting, Started, Parties
  <2>6. ASSUME NEW g \in Fibers, Waiting(g)'
        PROVE  /\ Started(slot[g].who)'
               /\ cur' # slot'[g].who
               /\ pend'[slot'[g].who] = "none"
               /\ parked' # slot'[g].who
               /\ slot'[g].who \in Fibers => fin'[slot'[g].who] = "none"
    <3>1. CASE g = f
      BY <2>1, <2>3, <3>1 DEF HolderInv, TokenInv, Started
    <3>2. CASE g # f
      BY <2>2, <2>3, <2>5, <2>6, <3>2 DEF SlotInv, Waiting, Started
    <3> QED
      BY <3>1, <3>2
  <2>7. \A g, h \in Fibers :
          Waiting(g)' /\ Waiting(h)' /\ slot'[g].who = slot'[h].who => g = h
    BY <2>1, <2>2 DEF SlotInv, Waiting
  <2> QED
    BY <2>4, <2>6, <2>7 DEF SlotInv
<1> QED
  BY <1>1, <1>2, <1>3, <1>4 DEF ControlInv

\* Every later switch: the switcher takes the place of the other side, whose
\* promise is resolved.
LEMMA ControlSwap ==
  ASSUME IndInv, NEW f \in Fibers, cur # None, fiber[f] = "started", Swap(f)
  PROVE  ControlInv'
<1> USE Names DEF Names, IndInv, Swap, Me, queueVars, parkVars, TypeOK, Activations
<1>1. slot[f] \in Parties /\ slot[f].who \in Activations /\ slot[f].who # cur
  BY DEF SlotInv, Waiting, Parties
<1>2. TokenInv'
  BY <1>1 DEF TokenInv
<1>3. HolderInv'
  BY <1>1 DEF HolderInv, TokenInv, SlotInv, Waiting, Started
<1>4. FlightInv'
  BY <1>1 DEF FlightInv, HasToken
<1>5. SlotInv'
  <2>1. slot'[f].who = cur /\ slot'[f] # None
    BY NullIsNoParty DEF Parties
  <2>2. \A g \in Fibers \ {f} : slot'[g] = slot[g]
    OBVIOUS
  <2>3. \A a \in Activations : Started(a) <=> Started(a)'
    BY DEF Started
  <2>4. \A g \in Fibers : Waiting(g)' <=> fiber'[g] = "started"
    BY <2>1, <2>2 DEF SlotInv, Waiting
  <2>5. \A g \in Fibers : Waiting(g) => slot[g].who \in Activations /\ slot[g].who # cur
    BY DEF SlotInv, Waiting, Parties
  <2>6. ASSUME NEW g \in Fibers, Waiting(g)'
        PROVE  /\ Started(slot[g].who)'
               /\ cur' # slot'[g].who
               /\ pend'[slot'[g].who] = "none"
               /\ parked' # slot'[g].who
               /\ slot'[g].who \in Fibers => fin'[slot'[g].who] = "none"
    <3>1. CASE g = f
      BY <1>1, <2>1, <2>3, <3>1 DEF HolderInv, TokenInv, Started
    <3>2. CASE g # f
      BY <1>1, <2>2, <2>3, <2>5, <2>6, <3>2 DEF SlotInv, Waiting, Started
    <3> QED
      BY <3>1, <3>2
  <2>7. \A g, h \in Fibers :
          Waiting(g)' /\ Waiting(h)' /\ slot'[g].who = slot'[h].who => g = h
    BY <2>1, <2>2, <2>5 DEF SlotInv, Waiting
  <2> QED
    BY <2>4, <2>6, <2>7 DEF SlotInv
<1> QED
  BY <1>2, <1>3, <1>4, <1>5 DEF ControlInv

\* A fiber ends, by returning or by a trap: the token waits in its promise.
LEMMA ControlFiberEnds ==
  ASSUME IndInv, NEW f \in Fibers, cur = f, NEW o \in {"ok", "err"},
         fin' = [fin EXCEPT ![f] = o], cur' = None,
         UNCHANGED <<job, fiber, slot, pend, parked>>
  PROVE  ControlInv'
<1> USE Names DEF Names, IndInv, TypeOK, Activations
<1>1. TokenInv'
  BY DEF TokenInv
<1>2. HolderInv'
  BY DEF HolderInv, Started
<1>3. FlightInv'
  BY DEF FlightInv, HasToken
<1>4. SlotInv'
  BY DEF SlotInv, Started, Waiting, Parties
<1> QED
  BY <1>1, <1>2, <1>3, <1>4 DEF ControlInv

\* The final switch: the entry goes, and its waiting party gets the token.
LEMMA ControlFiberSettled ==
  ASSUME IndInv, NEW f \in Fibers, FiberSettled(f) PROVE ControlInv'
<1> USE Names DEF Names, IndInv, FiberSettled, queueVars, parkVars, TypeOK, Activations
<1>1. fiber[f] = "started" /\ Waiting(f)
  BY DEF HolderInv, SlotInv
<1>2. slot[f] \in Parties /\ slot[f].who \in Activations /\ slot[f].who # f
  BY <1>1 DEF SlotInv, Waiting, Parties
<1>3. TokenInv'
  BY <1>2 DEF TokenInv
<1>4. HolderInv'
  BY <1>1, <1>2 DEF HolderInv, TokenInv, SlotInv, Waiting, Started
<1>5. FlightInv'
  BY <1>2 DEF FlightInv, HasToken
<1>6. SlotInv'
  BY <1>1, <1>2 DEF SlotInv, HolderInv, TokenInv, Started, Waiting, Parties
<1> QED
  BY <1>3, <1>4, <1>5, <1>6 DEF ControlInv

\* The job that executes ends: nobody holds the token, and no job is in flight.
LEMMA ControlJobEnds ==
  ASSUME IndInv, NEW j \in Jobs, cur = j, NEW o \in {"ok", "err"},
         job' = [job EXCEPT ![j] = o], cur' = None,
         UNCHANGED <<fiber, slot, pend, fin, parked>>
  PROVE  ControlInv'
<1> USE Names DEF Names, IndInv, TypeOK, Activations
<1>1. job[j] = "running" /\ \A i \in Jobs : job'[i] # "running"
  BY DEF HolderInv, Started, OneRoot, Running
<1>2. TokenInv'
  BY DEF TokenInv
<1>3. HolderInv'
  BY DEF HolderInv, TokenInv, Started
<1>4. FlightInv'
  BY <1>1 DEF FlightInv, HasToken, TokenInv
<1>5. SlotInv'
  BY DEF SlotInv, Started, Waiting, Parties
<1> QED
  BY <1>2, <1>3, <1>4, <1>5 DEF ControlInv

\* A suspended activation goes on, or traps on the rejection.
LEMMA ControlResume ==
  ASSUME IndInv, NEW a \in Activations, Resume(a) PROVE ControlInv'
<1> USE Names DEF Names, IndInv, Resume, queueVars, TypeOK, Activations
<1>1. TokenInv'
  BY DEF TokenInv
<1>2. HolderInv'
  BY DEF HolderInv, Started
<1>3. FlightInv'
  BY DEF FlightInv, HasToken
<1>4. SlotInv'
  BY DEF SlotInv, Started, Waiting, Parties
<1> QED
  BY <1>1, <1>2, <1>3, <1>4 DEF ControlInv

\* A rejected activation traps in turn: the token passes to its promise, or its job ends.
LEMMA ControlResumeTraps ==
  ASSUME IndInv, NEW a \in Activations, ResumeTraps(a) PROVE ControlInv'
<1> USE Names DEF Names, IndInv, ResumeTraps, parkVars, TypeOK, Activations
<1>1. CASE a \in Jobs
  <2>1. a \notin Fibers /\ job' = [job EXCEPT ![a] = "err"] /\ UNCHANGED fin
    BY <1>1 DEF Dies
  <2>2. \A i \in Jobs : job'[i] # "running"
    BY <2>1, <1>1 DEF HolderInv, Started, OneRoot, Running
  <2>3. TokenInv' /\ HolderInv'
    BY <2>1, <1>1 DEF TokenInv, HolderInv, Started
  <2>4. FlightInv'
    BY <2>1, <2>2, <1>1 DEF FlightInv, HasToken, TokenInv
  <2>5. SlotInv'
    BY <2>1, <1>1 DEF SlotInv, Started, Waiting, Parties
  <2> QED
    BY <2>3, <2>4, <2>5 DEF ControlInv
<1>2. CASE a \in Fibers
  <2>1. a \notin Jobs /\ fin' = [fin EXCEPT ![a] = "err"] /\ UNCHANGED job
    BY <1>2 DEF Dies
  <2>2. TokenInv'
    BY <2>1, <1>2 DEF TokenInv
  <2>3. HolderInv'
    BY <2>1, <1>2 DEF HolderInv, Started
  <2>4. FlightInv'
    BY <2>1, <1>2 DEF FlightInv, HasToken
  <2>5. SlotInv'
    BY <2>1, <1>2 DEF SlotInv, Started, Waiting, Parties
  <2> QED
    BY <2>2, <2>3, <2>4, <2>5 DEF ControlInv
<1> QED
  BY <1>1, <1>2

\* A job that parks hands the token to its waker, or goes on with the wake it missed.
LEMMA ControlPark ==
  ASSUME IndInv, NEW j \in Jobs, Park(j) PROVE ControlInv'
<1> USE Names DEF Names, IndInv, Park, TypeOK, Activations
<1>1. parked = None
  BY DEF TokenInv
<1>2. TokenInv'
  BY <1>1 DEF TokenInv
<1>3. HolderInv'
  BY <1>1 DEF HolderInv, Started
<1>4. FlightInv'
  BY <1>1 DEF FlightInv, HasToken
<1>5. SlotInv'
  BY <1>1 DEF SlotInv, Started, Waiting, Parties
<1> QED
  BY <1>2, <1>3, <1>4, <1>5 DEF ControlInv

\* A wake passes the token of a parked job on, and nothing else.
LEMMA ControlUnpark ==
  ASSUME IndInv, Unpark, UNCHANGED <<job, cur, fiber, slot, fin>> PROVE ControlInv'
<1> USE Names DEF Names, IndInv, Unpark, TypeOK, Activations
<1>1. CASE parked = None
  BY <1>1, ControlFrame
<1>2. CASE parked # None
  <2> USE <1>2
  <2>1. TokenInv'
    BY DEF TokenInv
  <2>2. HolderInv'
    BY DEF HolderInv, Started
  <2>3. FlightInv'
    BY DEF FlightInv, HasToken
  <2>4. SlotInv'
    BY DEF SlotInv, Started, Waiting, Parties
  <2> QED
    BY <2>1, <2>2, <2>3, <2>4 DEF ControlInv
<1> QED
  BY <1>1, <1>2

\* Every step of the glue passes control on correctly.
LEMMA ControlStep == ASSUME IndInv, [Next]_vars PROVE ControlInv'
<1> USE Names DEF Names
<1> TypeOK /\ HolderInv /\ SlotInv
  BY DEF IndInv
<1>1. CASE UNCHANGED vars
  BY <1>1, ControlFrame DEF vars, queueVars, fiberVars, parkVars
<1>2. CASE Setup \/ Call \/ Return \/ PlainExportTraps
  BY <1>2, ControlFrame
  DEF Setup, Call, Return, PlainExportTraps, queueVars, fiberVars, parkVars
<1>3. CASE StaleWake
  BY <1>3, ControlUnpark DEF StaleWake, queueVars
<1>4. ASSUME NEW j \in Jobs, JobStep(j) PROVE ControlInv'
  <2>1. CASE DriveUnbound(j) \/ Drive(j)
    BY <2>1, ControlFrame DEF DriveUnbound, Drive, fiberVars, parkVars, TypeOK
  <2>2. CASE Start(j)
    BY <2>2, ControlStart, QueueStep
  <2>3. CASE Arm(j)
    BY <2>3, ControlFrame DEF Arm, queueVars, fiberVars
  <2>4. CASE Park(j)
    BY <2>4, ControlPark
  <2>5. CASE Wake(j)
    BY <2>5, ControlUnpark DEF Wake, queueVars
  <2>6. CASE RootReturn(j)
    BY <2>6, ControlJobEnds DEF RootReturn, fiberVars, parkVars
  <2> QED
    BY <1>4, <2>1, <2>2, <2>3, <2>4, <2>5, <2>6 DEF JobStep
<1>5. ASSUME NEW f \in Fibers, FiberStep(f) PROVE ControlInv'
  <2>1. CASE FiberInit(f) \/ SwitchFirst(f) \/ FiberSettled(f)
    BY <2>1, ControlFiberInit, ControlSwitchFirst, ControlFiberSettled
  <2>2. CASE SwitchInto(f)
    BY <2>2, ControlSwap DEF SwitchInto
  <2>3. CASE SwitchOut(f)
    BY <2>3, ControlSwap DEF SwitchOut, HolderInv, Started
  <2>4. CASE FiberReturn(f)
    BY <2>4, ControlFiberEnds DEF FiberReturn, queueVars, parkVars
  <2> QED
    BY <1>5, <2>1, <2>2, <2>3, <2>4 DEF FiberStep
<1>6. ASSUME NEW a \in Activations, ActivationStep(a) PROVE ControlInv'
  <2>1. CASE Trap(a)
    BY <2>1, ControlJobEnds, ControlFiberEnds DEF Trap, Dies, parkVars
  <2> QED
    BY <1>6, <2>1, ControlResume, ControlResumeTraps DEF ActivationStep
<1> QED
  BY <1>1, <1>2, <1>3, <1>4, <1>5, <1>6 DEF Next

\* Who is alive and at home in a region: nobody else.
LEMMA HomeIsPrivate ==
  ASSUME IndInv, NEW a \in Activations, NEW b \in Activations,
         Live(a), Live(b), Home(a) = Home(b)
  PROVE  a = b
  BY Names DEF Names, IndInv, OneRoot, Running, Live, Home, Activations

\* The wakes: what unpark() does keeps them.
LEMMA WakeUnpark ==
  ASSUME IndInv, Unpark, UNCHANGED <<job, cur>>,
         \A j \in Jobs : event'[j] = "idle" <=> event[j] = "idle"
  PROVE  WakeInv'
<1> USE Names DEF Names, IndInv, TypeOK, Activations, Unpark
<1>1. CASE parked = None
  BY <1>1 DEF WakeInv, Running
<1>2. CASE parked # None
  <2>1. \A j \in Jobs : job[j] = "running" => j = parked
    BY <1>2 DEF HolderInv, OneRoot, Running
  <2>2. parked \in Jobs /\ pend'[parked] = "repoll" /\ parked' = None
    BY <1>2
  <2> QED
    BY <2>1, <2>2, <1>2 DEF WakeInv, Running
<1> QED
  BY <1>1, <1>2

\* Every step keeps a wake until the job has polled again.
LEMMA WakeStep == ASSUME IndInv, [Next]_vars PROVE WakeInv'
<1> USE Names DEF Names, TypeOK, Activations
<1> TypeOK /\ WakeInv
  BY DEF IndInv
<1>1. ASSUME UNCHANGED <<parkVars, pend>>,
             \A j \in Jobs : /\ job'[j] \in {"new", "queued"} => job[j] \in {"new", "queued"}
                             /\ job'[j] = "running" => job[j] = "running"
      PROVE  WakeInv'
  <2>1. parked' = parked /\ (wakePending' <=> wakePending) /\ event' = event /\ pend' = pend
    BY <1>1 DEF parkVars
  <2>2. parked' # None => ~wakePending'
    BY <2>1 DEF WakeInv
  <2>3. \A j \in Running' : event'[j] = "fired" => wakePending' \/ pend'[j] = "repoll"
    BY <1>1, <2>1 DEF WakeInv, Running
  <2>4. \A j \in Jobs : job'[j] \in {"new", "queued"} => event'[j] = "idle"
    BY <1>1, <2>1 DEF WakeInv
  <2>5. \A f \in Fibers : pend'[f] # "repoll"
    BY <2>1 DEF WakeInv
  <2> QED
    BY <2>2, <2>3, <2>4, <2>5 DEF WakeInv
<1>2. CASE Setup \/ Call \/ Return \/ PlainExportTraps \/ UNCHANGED vars
  BY <1>1, <1>2 DEF Setup, Call, Return, PlainExportTraps, vars, queueVars, fiberVars
<1>3. CASE StaleWake
  BY <1>3, WakeUnpark DEF StaleWake, queueVars
<1>4. ASSUME NEW j \in Jobs, JobStep(j) PROVE WakeInv'
  <2>1. CASE DriveUnbound(j) \/ Drive(j)
    BY <1>1, <2>1 DEF DriveUnbound, Drive, fiberVars
  <2>2. CASE Start(j)
    BY <2>2 DEF Start, fiberVars, parkVars, WakeInv, Running
  <2>3. CASE Arm(j)
    BY <2>3 DEF Arm, queueVars, fiberVars, WakeInv, Running
  <2>4. CASE Park(j)
    <3>1. \A i \in Jobs : job[i] = "running" => i = j
      BY <2>4 DEF Park, IndInv, OneRoot, Running
    <3>2. parked = None /\ pend[j] = "none"
      BY <2>4 DEF Park, IndInv, TokenInv
    <3> QED
      BY <2>4, <3>1, <3>2 DEF Park, WakeInv, Running
  <2>5. CASE Wake(j)
    BY <2>5, WakeUnpark DEF Wake, queueVars
  <2>6. CASE RootReturn(j)
    BY <1>1, <2>6 DEF RootReturn, fiberVars
  <2> QED
    BY <1>4, <2>1, <2>2, <2>3, <2>4, <2>5, <2>6 DEF JobStep
<1>5. ASSUME NEW f \in Fibers, FiberStep(f) PROVE WakeInv'
  <2>1. CASE FiberInit(f) \/ SwitchFirst(f) \/ FiberReturn(f)
    BY <1>1, <2>1 DEF FiberInit, SwitchFirst, FiberReturn, queueVars
  <2>2. CASE SwitchInto(f) \/ SwitchOut(f)
    <3>1. cur # None /\ Swap(f) /\ fiber[f] = "started"
      BY <2>2 DEF SwitchInto, SwitchOut, IndInv, HolderInv, Started
    <3>2. \A a \in Activations : pend[a] = "none"
      BY <3>1 DEF IndInv, TokenInv
    <3> QED
      BY <3>1, <3>2 DEF Swap, queueVars, parkVars, WakeInv, Running
  <2>3. CASE FiberSettled(f)
    <3>1. \A a \in Activations : pend[a] = "none"
      BY <2>3 DEF FiberSettled, IndInv, TokenInv
    <3> QED
      BY <2>3, <3>1 DEF FiberSettled, queueVars, parkVars, WakeInv, Running
  <2> QED
    BY <1>5, <2>1, <2>2, <2>3 DEF FiberStep
<1>6. ASSUME NEW a \in Activations, ActivationStep(a) PROVE WakeInv'
  <2>1. CASE Trap(a)
    BY <1>1, <2>1, DeathOfJob DEF Trap
  <2>2. CASE Resume(a)
    BY <2>2 DEF Resume, queueVars, WakeInv, Running
  <2>3. CASE ResumeTraps(a)
    <3>1. \A j \in Jobs : /\ job'[j] \in {"new", "queued"} => job[j] \in {"new", "queued"}
                          /\ job'[j] = "running" => job[j] = "running"
      BY <2>3, DeathOfJob
    <3> QED
      BY <2>3, <3>1 DEF ResumeTraps, parkVars, WakeInv, Running
  <2> QED
    BY <1>6, <2>1, <2>2, <2>3 DEF ActivationStep
<1> QED
  BY <1>2, <1>3, <1>4, <1>5, <1>6 DEF Next

\* The stacks.  Steps that move neither sp nor a frame, nor wake anybody.
LEMMA StackFrame ==
  ASSUME IndInv, ControlInv', UNCHANGED <<sp, top, slot>>,
         cur' = cur \/ cur' = None,
         \A a \in Activations : Live(a)' => Live(a),
         \A a \in Activations : pend'[a] # "none" => pend[a] # "none" \/ sp.reg = Home(a),
         parked' # None => parked # None \/ sp.reg = Main,
         ~HasToken' => sp.reg = Main,
         \A f \in Fibers : fiber'[f] = "fresh" => fiber[f] = "fresh"
  PROVE  StackInv'
<1> USE Names DEF Names, IndInv, StackInv, TypeOK, Activations
<1>1. StackSafe'
  BY DEF StackSafe, Home
<1>2. \A f \in Fibers : Waiting(f)' =>
        slot'[f].sp.reg = Home(slot'[f].who) /\ top'[slot'[f].who] <= slot'[f].sp.d
  BY DEF Waiting
<1>3. \A a \in Activations : pend'[a] # "none" => sp'.reg = Home(a)
  OBVIOUS
<1> QED
  BY <1>1, <1>2, <1>3 DEF Home

\* The running code moves sp on its own region.
LEMMA StackMove ==
  ASSUME IndInv, NEW a \in Activations, cur = a, Live(a),
         sp' \in Positions, top' = [top EXCEPT ![a] = sp'.d], sp'.reg = Home(a),
         UNCHANGED <<queueVars, cur, fiberVars, parkVars>>
  PROVE  StackInv'
<1> USE Names DEF Names, IndInv, TypeOK, Activations, queueVars, fiberVars, parkVars
<1>1. StackSafe'
  <2>1. sp'.d \in 0 .. MaxDepth
    BY DEF Positions
  <2>2. \A b \in Activations : Live(b)' /\ Home(b) = sp'.reg => b = a
    BY HomeIsPrivate DEF Live
  <2>3. \A b \in Activations : Live(b)' /\ Home(b) = sp'.reg => top'[b] <= sp'.d
    BY <2>1, <2>2
  <2> QED
    BY <2>3 DEF StackSafe, Home
<1>2. \A f \in Fibers : Waiting(f)' =>
        slot'[f].sp.reg = Home(slot'[f].who) /\ top'[slot'[f].who] <= slot'[f].sp.d
  BY DEF StackInv, SlotInv, Waiting, Parties
<1>3. fiber[a] # "fresh" \/ a \notin Fibers
  BY DEF HolderInv, Started
<1> QED
  BY <1>1, <1>2, <1>3, NullIsNoParty DEF StackInv, TokenInv, HasToken, Home

\* A waiting party gets its saved position back, and with it its region.
LEMMA StackRestore ==
  ASSUME IndInv, NEW f \in Fibers, Waiting(f), cur' = None,
         sp' = slot[f].sp, UNCHANGED <<top, job, parked>>, parked = None,
         \A b \in Activations : pend[b] = "none",
         NEW o \in Outcomes, pend' = [pend EXCEPT ![slot[f].who] = o], o # "none",
         \A b \in Activations : Live(b)' => Live(b),
         \A g \in Fibers : Waiting(g)' =>
           \/ slot'[g] = slot[g]
           \/ slot'[g] = Me /\ cur # None,
         \A g \in Fibers : fiber'[g] = "fresh" => fiber[g] = "fresh"
  PROVE  StackInv'
<1> USE Names DEF Names, IndInv, TypeOK, Activations
<1>1. slot[f] \in Parties /\ slot[f].who \in Activations /\ slot[f].sp \in Positions
  BY DEF Waiting, Parties
<1>2. /\ sp'.reg = Home(slot[f].who)
      /\ top'[slot[f].who] <= sp'.d
      /\ Live(slot[f].who)
  BY <1>1 DEF StackInv, SlotInv, Started, Live
<1>3. StackSafe'
  <2>1. \A b \in Activations : Live(b)' /\ Home(b) = sp'.reg => b = slot[f].who
    BY <1>1, <1>2, HomeIsPrivate
  <2> QED
    BY <1>2, <2>1 DEF StackSafe, Home
<1>4. \A g \in Fibers : Waiting(g)' =>
        slot'[g].sp.reg = Home(slot'[g].who) /\ top'[slot'[g].who] <= slot'[g].sp.d
  <2> SUFFICES ASSUME NEW g \in Fibers, Waiting(g)'
               PROVE  slot'[g].sp.reg = Home(slot'[g].who) /\ top'[slot'[g].who] <= slot'[g].sp.d
    OBVIOUS
  <2>1. CASE slot'[g] = slot[g]
    BY <2>1 DEF StackInv, Waiting
  <2>2. CASE slot'[g] = Me /\ cur # None
    BY <2>2 DEF Me, StackInv, StackSafe, HolderInv, Started, Live
  <2> QED
    BY <2>1, <2>2
<1>5. \A a \in Activations : pend'[a] # "none" => a = slot[f].who
  BY <1>1
<1>6. HasToken'
  BY <1>1 DEF HasToken
<1> QED
  BY <1>2, <1>3, <1>4, <1>5, <1>6 DEF StackInv, Home

\* A job enters the module: nothing is live on the main stack.
LEMMA StackStart ==
  ASSUME IndInv, NEW j \in Jobs, Start(j), OneRoot' PROVE StackInv'
<1> USE Names DEF Names, IndInv, Start, TypeOK, Activations, fiberVars, parkVars
<1>1. \A i \in Jobs : job[i] # "running"
  BY DEF OneRoot, Running
<1>2. sp.reg = Main /\ \A a \in Activations : pend[a] = "none"
  BY <1>1 DEF StackInv, FlightInv, HasToken
<1>3. \A f \in Fibers : Waiting(f) => slot[f].who \in Activations /\ slot[f].who # j
  BY DEF SlotInv, Waiting, Started, Parties
<1>4. StackSafe'
  BY <1>1, <1>2 DEF StackSafe, Live, Home, Positions
<1> QED
  BY <1>2, <1>3, <1>4 DEF StackInv, Waiting, HasToken, Home, FlightInv

\* A new entry: its reserved bytes are in a region that nobody runs on.
LEMMA StackFiberInit ==
  ASSUME IndInv, NEW f \in Fibers, FiberInit(f) PROVE StackInv'
<1> USE Names DEF Names, IndInv, FiberInit, TypeOK, Activations, queueVars, parkVars
<1>1. sp.reg # f
  BY DEF StackInv, StackSafe, HolderInv, Started, Home
<1>2. \A g \in Fibers : Waiting(g) => slot[g].who \in Activations /\ slot[g].who # f
  BY DEF SlotInv, Waiting, Started, Parties
<1>3. StackSafe'
  BY <1>1 DEF StackInv, StackSafe, Live, Home
<1> QED
  BY <1>2, <1>3 DEF StackInv, Waiting, HasToken, Home, TokenInv

\* The first switch saves sp, beyond the switcher's frames, and moves it to
\* the fiber's region.
LEMMA StackSwitchFirst ==
  ASSUME IndInv, NEW f \in Fibers, SwitchFirst(f) PROVE StackInv'
<1> USE Names DEF Names, IndInv, SwitchFirst, Me, TypeOK, Activations, queueVars, parkVars
<1>1. top[f] = 1
  BY DEF StackInv
<1>2. StackSafe'
  BY <1>1 DEF StackSafe, Live, Home
<1>3. sp.reg = Home(cur) /\ top[cur] <= sp.d
  BY DEF StackInv, StackSafe, HolderInv, Started, Live
<1>4. \A g \in Fibers : Waiting(g)' =>
        slot'[g].sp.reg = Home(slot'[g].who) /\ top'[slot'[g].who] <= slot'[g].sp.d
  BY <1>3 DEF StackInv, Waiting
<1> QED
  BY <1>2, <1>4 DEF StackInv, HasToken, Home, TokenInv

\* Every later switch restores what the other side saved.
LEMMA StackSwap ==
  ASSUME IndInv, NEW f \in Fibers, cur # None, fiber[f] = "started", Swap(f)
  PROVE  StackInv'
<1> USE Names DEF Names, IndInv
<1>1. Waiting(f)
  BY DEF SlotInv
<1>2. parked = None /\ \A b \in Activations : pend[b] = "none"
  BY DEF TokenInv
<1>3. \A g \in Fibers : slot'[g] = slot[g] \/ slot'[g] = Me
  BY DEF Swap, TypeOK
<1>4. \A b \in Activations : Live(b)' => Live(b)
  BY DEF Swap, queueVars, Live
<1> QED
  BY <1>1, <1>2, <1>3, <1>4, StackRestore DEF Swap, queueVars, parkVars, Outcomes

\* A fiber returns: its frames are gone.
LEMMA StackFiberReturn ==
  ASSUME IndInv, NEW f \in Fibers, FiberReturn(f) PROVE StackInv'
<1> USE Names DEF Names, IndInv, FiberReturn, TypeOK, Activations, queueVars, parkVars
<1>1. StackSafe'
  BY DEF StackSafe, Live, Home
<1>2. \A g \in Fibers : Waiting(g) => slot[g].who \in Activations /\ slot[g].who # f
  BY DEF SlotInv, Waiting, Parties
<1>3. HasToken' /\ fiber[f] # "fresh"
  BY DEF HasToken, HolderInv, Started
<1> QED
  BY <1>1, <1>2, <1>3 DEF StackInv, Waiting, Home, TokenInv

\* The final switch restores the last resumer's position.
LEMMA StackFiberSettled ==
  ASSUME IndInv, NEW f \in Fibers, FiberSettled(f) PROVE StackInv'
<1> USE Names DEF Names, IndInv
<1>1. Waiting(f)
  BY DEF FiberSettled, HolderInv, SlotInv
<1>2. parked = None /\ \A b \in Activations : pend[b] = "none"
  BY DEF FiberSettled, TokenInv
<1>3. \A g \in Fibers : slot'[g] = slot[g] \/ slot'[g] = None
  BY DEF FiberSettled, TypeOK
<1>4. \A b \in Activations : Live(b)' => Live(b)
  BY DEF FiberSettled, queueVars, Live, TypeOK, Activations
<1>5. fin[f] \in Outcomes /\ fin[f] # "none"
  BY DEF FiberSettled, TypeOK, Outcomes
<1>6. \A g \in Fibers : fiber'[g] = "fresh" => fiber[g] = "fresh"
  BY DEF FiberSettled, TypeOK
<1>7. cur' = None /\ sp' = slot[f].sp /\ UNCHANGED <<top, job, parked>>
        /\ pend' = [pend EXCEPT ![slot[f].who] = fin[f]]
  BY DEF FiberSettled, queueVars, parkVars
<1> QED
  BY <1>1, <1>2, <1>3, <1>4, <1>5, <1>6, <1>7, StackRestore DEF Waiting

\* The root returns to where it entered; a trap of a plain export only leaves
\* a gap.  In both cases nothing live is in the way.
LEMMA StackRootReturn ==
  ASSUME IndInv, NEW j \in Jobs, RootReturn(j) PROVE StackInv'
<1> USE Names DEF Names, IndInv, RootReturn, TypeOK, Activations, fiberVars, parkVars
<1>1. \A i \in Jobs : job'[i] # "running"
  BY DEF OneRoot, Running
<1>2. StackSafe'
  BY <1>1 DEF StackSafe, Live, Home
<1> QED
  BY <1>2 DEF StackInv, Waiting, TokenInv, Home

\* A trap of a plain export leaves a gap above every live frame.
LEMMA StackGap == ASSUME IndInv, PlainExportTraps PROVE StackInv'
<1> USE Names
    DEF Names, IndInv, PlainExportTraps, TypeOK, Activations, queueVars, fiberVars, parkVars
<1>1. sp'.reg = sp.reg /\ sp'.d = sp.d + 1 /\ sp.d \in 0 .. MaxDepth
  BY DEF Positions
<1>2. \A a \in Activations : top[a] \in 0 .. MaxDepth
  OBVIOUS
<1>3. StackSafe'
  BY <1>1, <1>2 DEF StackInv, StackSafe, Live, Home
<1> QED
  BY <1>1, <1>3 DEF StackInv, Waiting, HasToken, Home

\* Every step of the glue keeps the stacks apart.
LEMMA StackStep == ASSUME IndInv, [Next]_vars PROVE StackInv'
<1> USE Names DEF Names, TypeOK, Activations
<1> TypeOK /\ HolderInv /\ StackInv
  BY DEF IndInv
<1> ControlInv'
  BY ControlStep
<1>1. ASSUME UNCHANGED <<cur, sp, top, fiber, slot, pend, fin, parked>>,
             \A j \in Jobs : job'[j] = "running" => job[j] = "running"
      PROVE  StackInv'
  BY <1>1, StackFrame DEF StackInv, HasToken, Live
<1>2. CASE Setup \/ UNCHANGED vars
  BY <1>1, <1>2 DEF Setup, vars, queueVars, stackVars, fiberVars, parkVars
<1>3. CASE Call
  <2>1. Live(cur) /\ sp.reg = Home(cur)
    BY <1>3 DEF Call, HolderInv, Started, Live, StackInv, StackSafe
  <2>2. sp' \in Positions /\ sp'.reg = sp.reg /\ sp'.d = sp.d + 1
    BY <1>3, Bounds DEF Call, Positions, Bounds
  <2> QED
    BY <1>3, <2>1, <2>2, StackMove DEF Call
<1>4. CASE Return
  <2>1. Live(cur) /\ cur \in Activations
    BY <1>4 DEF Return, HolderInv, Started, Live
  <2>2. sp' \in Positions /\ sp'.reg = Home(cur) /\ top' = [top EXCEPT ![cur] = sp'.d]
    BY <1>4, <2>1, Bounds DEF Return, Positions, Bounds, Home
  <2> QED
    BY <1>4, <2>1, <2>2, StackMove DEF Return
<1>5. CASE PlainExportTraps
  BY <1>5, StackGap
<1>6. ASSUME Unpark, UNCHANGED <<queueVars, cur, stackVars, fiber, slot, fin>>
      PROVE  StackInv'
  <2>1. \A a \in Activations : pend'[a] # "none" => pend[a] # "none" \/ sp.reg = Home(a)
    BY <1>6 DEF Unpark, StackInv, Home
  <2>2. HasToken => HasToken'
    BY <1>6 DEF Unpark, HasToken
  <2>3. parked' # None => parked # None
    BY <1>6 DEF Unpark
  <2> QED
    BY <1>6, <2>1, <2>2, <2>3, StackFrame DEF queueVars, stackVars, Live, StackInv
<1>7. CASE StaleWake
  BY <1>6, <1>7 DEF StaleWake
<1>8. ASSUME NEW j \in Jobs, JobStep(j) PROVE StackInv'
  <2>1. CASE DriveUnbound(j) \/ Drive(j) \/ Arm(j)
    BY <1>1, <2>1
    DEF DriveUnbound, Drive, Arm, queueVars, stackVars, fiberVars, parkVars
  <2>2. CASE Start(j)
    BY <2>2, StackStart, QueueStep
  <2>3. CASE Park(j)
    <3>1. sp.reg = Main /\ parked = None /\ \A a \in Activations : pend[a] = "none"
      BY <2>3 DEF Park, StackInv, StackSafe, Home, IndInv, TokenInv
    <3>2. /\ UNCHANGED <<sp, top, slot, fiber>>
          /\ cur' = None
          /\ \A i \in Jobs : job'[i] = "running" => job[i] = "running"
          /\ \A a \in Activations : pend'[a] # "none" => a = j
      BY <2>3, <3>1 DEF Park, stackVars
    <3> QED
      BY <3>1, <3>2, StackFrame DEF Live, Home
  <2>4. CASE Wake(j)
    BY <1>6, <2>4 DEF Wake
  <2>5. CASE RootReturn(j)
    BY <2>5, StackRootReturn
  <2> QED
    BY <1>8, <2>1, <2>2, <2>3, <2>4, <2>5 DEF JobStep
<1>9. ASSUME NEW f \in Fibers, FiberStep(f) PROVE StackInv'
  <2>1. CASE SwitchInto(f) \/ SwitchOut(f)
    BY <2>1, StackSwap DEF SwitchInto, SwitchOut, HolderInv, Started
  <2> QED
    BY <1>9, <2>1, StackFiberInit, StackSwitchFirst, StackFiberReturn, StackFiberSettled
    DEF FiberStep
<1>10. ASSUME NEW a \in Activations, ActivationStep(a) PROVE StackInv'
  <2>1. sp.reg = Home(a)
    <3>1. cur = a \/ pend[a] # "none"
      BY <1>10 DEF ActivationStep, Trap, Resume, ResumeTraps
    <3> QED
      BY <3>1 DEF StackInv, StackSafe
  <2>2. \A i \in Jobs : job'[i] = "running" => job[i] = "running"
    BY <1>10, DeathOfJob DEF ActivationStep, Resume, queueVars
  <2>3. CASE Trap(a) \/ ResumeTraps(a)
    <3>1. ~HasToken' => a \in Jobs
      BY <2>3 DEF Trap, ResumeTraps, Dies, HasToken
    <3>2. /\ UNCHANGED <<sp, top, slot, fiber, parked>>
          /\ cur' = None
          /\ \A b \in Activations : pend'[b] # "none" => pend[b] # "none"
      BY <2>3 DEF Trap, ResumeTraps, stackVars, parkVars
    <3> QED
      BY <2>1, <2>2, <3>1, <3>2, StackFrame DEF Live, Home
  <2>4. CASE Resume(a)
    <3>1. /\ UNCHANGED <<sp, top, slot, fiber, parked, job>>
          /\ cur' = a
          /\ \A b \in Activations : pend'[b] # "none" => pend[b] # "none"
      BY <2>4 DEF Resume, queueVars, stackVars
    <3>2. StackSafe'
      BY <2>1, <3>1 DEF StackInv, StackSafe, Live, Home
    <3> QED
      BY <3>1, <3>2 DEF StackInv, Waiting, HasToken, Home
  <2> QED
    BY <1>10, <2>3, <2>4 DEF ActivationStep
<1> QED
  BY <1>2, <1>3, <1>4, <1>5, <1>7, <1>8, <1>9, <1>10 DEF Next

\* The inductive invariant holds of every behaviour of the glue.
THEOREM InvHolds == Spec => []IndInv
<1>1. IndInv /\ [Next]_vars => IndInv'
  BY TypeStep, QueueStep, ControlStep, StackStep, WakeStep DEF IndInv, ControlInv
<1> QED
  BY <1>1, InitInv, PTL DEF Spec

\* The state of the glue is well typed, for every set of jobs and fibers.
THEOREM TypeCorrect == Spec => []TypeOK
<1>1. IndInv => TypeOK
  BY DEF IndInv
<1> QED
  BY <1>1, InvHolds, PTL

\* The INVARIANT of fiber-env.js: at most one root activation is in flight.
THEOREM AtMostOneRoot == Spec => []OneRoot
<1>1. IndInv => OneRoot
  BY DEF IndInv
<1> QED
  BY <1>1, InvHolds, PTL

\* Control is neither lost nor doubled while a job is in flight.
THEOREM ControlIsKept == Spec => []OneContinuation
<1>1. IndInv => OneContinuation
  <2> SUFFICES ASSUME IndInv PROVE OneContinuation
    OBVIOUS
  <2> USE Names DEF Names, IndInv, TypeOK, Activations
  <2>1. \A s, t \in Tokens : s = t
    BY DEF Tokens, TokenInv
  <2>2. Tokens # {} => HasToken
    <3> SUFFICES ASSUME NEW t \in Tokens PROVE HasToken
      OBVIOUS
    <3> QED
      BY DEF Tokens, HasToken
  <2>3. HasToken => Tokens # {}
    <3>1. cur # None => <<"runs", cur>> \in Tokens
      BY DEF Tokens
    <3>2. \A a \in Activations : pend[a] # "none" => <<"resumes", a>> \in Tokens
      BY DEF Tokens
    <3>3. \A f \in Fibers : fin[f] # "none" => <<"ended", f>> \in Tokens
      BY DEF Tokens
    <3>4. parked # None => <<"parked", parked>> \in Tokens
      BY DEF Tokens
    <3> QED
      BY <3>1, <3>2, <3>3, <3>4 DEF HasToken
  <2>4. Running # {} <=> \E j \in Jobs : job[j] = "running"
    BY DEF Running
  <2> QED
    BY <2>1, <2>2, <2>3, <2>4 DEF OneContinuation, FlightInv
<1> QED
  BY <1>1, InvHolds, PTL

\* Compiled code never writes over a live frame of another activation.
THEOREM StacksStaySafe == Spec => []StackSafe
<1>1. IndInv => StackSafe
  BY DEF IndInv, StackInv
<1> QED
  BY <1>1, InvHolds, PTL

\* No wakeup is lost: a parked job's waker has not been called.
THEOREM WakesAreKept == Spec => []NoLostWake
<1>1. IndInv => NoLostWake
  BY Names DEF Names, IndInv, TypeOK, Activations, NoLostWake, WakeInv, TokenInv, HolderInv, Running
<1> QED
  BY <1>1, InvHolds, PTL

\* The error "a fiber job is already parked" is never thrown.
THEOREM ParkNeverThrows == Spec => []ParkSlotFree
<1>1. IndInv => ParkSlotFree
  BY Names DEF Names, IndInv, ParkSlotFree, TokenInv, Running
<1> QED
  BY <1>1, InvHolds, PTL

\* A step of the glue is a step of the job queue, or leaves the queue alone.
LEMMA QueueRefines == ASSUME IndInv, [Next]_vars PROVE [Queue!Next]_(Queue!qvars)
<1> DEFINE Goal == [Queue!Next]_(Queue!qvars)
<1> USE Names DEF Names, Queue!qvars
<1> TypeOK /\ QueueInv
  BY DEF IndInv
<1>1. ASSUME UNCHANGED <<job, ticket>> PROVE Goal
  BY <1>1
<1>2. ASSUME NEW j \in Jobs, job[j] = "running", NEW o \in {"ok", "err"},
             job' = [job EXCEPT ![j] = o], UNCHANGED ticket
      PROVE  Goal
  BY <1>2 DEF Queue!Next, Queue!Finish
<1>3. ASSUME NEW j \in Jobs, DriveUnbound(j) PROVE Goal
  BY <1>3 DEF DriveUnbound, Queue!Next, Queue!Refuse
<1>4. ASSUME NEW j \in Jobs, Drive(j) PROVE Goal
  <2>1. CASE chain = None
    <3>1. Queue!Last(0) /\ ticket' = [ticket EXCEPT ![j] = 0 + 1]
      BY <1>4, <2>1 DEF Drive, QueueInv, Queue!Last, TypeOK
    <3>2. Queue!Submit(j)
      BY <1>4, <3>1 DEF Drive, Queue!Submit
    <3> QED
      BY <3>2 DEF Queue!Next
  <2>2. CASE chain # None
    <3>1. chain \in Jobs /\ Queue!Last(ticket[chain])
      BY <2>2 DEF QueueInv, Queue!Last, TypeOK
    <3>2. Queue!Submit(j)
      BY <1>4, <2>2, <3>1 DEF Drive, Queue!Submit
    <3> QED
      BY <3>2 DEF Queue!Next
  <2> QED
    BY <2>1, <2>2
<1>5. ASSUME NEW j \in Jobs, Start(j) PROVE Goal
  <2>1. \A i \in Jobs : 0 < ticket[i] /\ ticket[i] < ticket[j] => Queue!Settled(i)
    BY <1>5, StartInOrder DEF TypeOK, Settled, Queue!Settled
  <2>2. Queue!Begin(j)
    BY <1>5, <2>1 DEF Start, Queue!Begin
  <2> QED
    BY <2>2 DEF Queue!Next
<1>6. ASSUME NEW a \in Activations, Trap(a) \/ ResumeTraps(a) PROVE Goal
  BY <1>1, <1>2, <1>6, DeathOfJob
<1>7. ASSUME NEW j \in Jobs, Park(j) \/ RootReturn(j) PROVE Goal
  BY <1>1, <1>2, <1>7 DEF Park, RootReturn
<1>8. CASE Setup \/ UNCHANGED queueVars
  BY <1>1, <1>8 DEF Setup, queueVars
<1> QED
  BY <1>3, <1>4, <1>5, <1>6, <1>7, <1>8, QueueFrame DEF Next, JobStep, ActivationStep, vars

\* The glue implements the serial, first-come-first-served job queue.
THEOREM ImplementsQueue == Spec => QueueSpec
<1>1. Init => Queue!Init
  BY DEF Init, Queue!Init
<1>2. IndInv /\ [Next]_vars => [Queue!Next]_(Queue!qvars)
  BY QueueRefines
<1> QED
  BY <1>1, <1>2, InvHolds, PTL DEF Spec, QueueSpec, Queue!Spec
=============================================================================
