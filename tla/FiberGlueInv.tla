---------------------------- MODULE FiberGlueInv ----------------------------
(***************************************************************************)
(* The inductive invariant behind the safety properties of FiberGlue.      *)
(***************************************************************************)
EXTENDS FiberGlue

Waiting(f) == slot[f] # None

\* Tickets number the jobs in the order of the chain, and a job that has begun
\* has only settled jobs before it.
QueueInv ==
  /\ chain = None => \A j \in Jobs : ticket[j] = 0
  /\ chain # None => ticket[chain] # 0 /\ \A j \in Jobs : ticket[j] <= ticket[chain]
  /\ \A i, j \in Jobs : ticket[i] = ticket[j] /\ ticket[i] # 0 => i = j
  /\ \A j \in Jobs : job[j] = "new" => ticket[j] = 0
  /\ \A j \in Jobs : job[j] \in {"queued", "running", "ok"} => ticket[j] # 0
  /\ \A j \in Jobs : after[j] = None => ticket[j] <= 1
  /\ \A j \in Jobs : after[j] # None =>
       ticket[after[j]] # 0 /\ ticket[j] = ticket[after[j]] + 1
  /\ \A i, j \in Jobs :
       job[j] \in {"running", "ok", "err"} /\ ticket[i] # 0 /\ ticket[i] < ticket[j]
         => Settled(i)

\* The control token: at most one, and held by something alive.
TokenInv ==
  /\ cur # None => /\ \A a \in Activations : pend[a] = "none"
                   /\ \A f \in Fibers : fin[f] = "none"
                   /\ parked = None
  /\ \A a \in Activations : pend[a] # "none" =>
       /\ \A b \in Activations : pend[b] # "none" => b = a
       /\ \A f \in Fibers : fin[f] = "none"
       /\ parked = None
  /\ \A f \in Fibers : fin[f] # "none" =>
       /\ \A g \in Fibers : fin[g] # "none" => g = f
       /\ parked = None

\* What holds the token is a job in flight or a started fiber.
Started(a) == IF a \in Jobs THEN job[a] = "running" ELSE fiber[a] = "started"

HolderInv ==
  /\ cur # None => Started(cur)
  /\ \A a \in Activations : pend[a] # "none" => Started(a)
  /\ \A f \in Fibers : fin[f] # "none" => fiber[f] = "started"
  /\ parked # None => job[parked] = "running"

HasToken ==
  \/ cur # None
  \/ \E a \in Activations : pend[a] # "none"
  \/ \E f \in Fibers : fin[f] # "none"
  \/ parked # None

FlightInv == HasToken <=> \E j \in Jobs : job[j] = "running"

\* The slots: who waits in one neither holds the token nor waits elsewhere.
SlotInv ==
  /\ \A f \in Fibers : Waiting(f) <=> fiber[f] = "started"
  /\ \A f \in Fibers : Waiting(f) =>
       /\ Started(slot[f].who)
       /\ cur # slot[f].who
       /\ pend[slot[f].who] = "none"
       /\ parked # slot[f].who
       /\ slot[f].who \in Fibers => fin[slot[f].who] = "none"
  /\ \A f, g \in Fibers :
       Waiting(f) /\ Waiting(g) /\ slot[f].who = slot[g].who => f = g

\* Saved positions are beyond the frames of those who will go on there.
StackInv ==
  /\ StackSafe
  /\ \A f \in Fibers : Waiting(f) =>
       /\ slot[f].sp.reg = Home(slot[f].who)
       /\ top[slot[f].who] <= slot[f].sp.d
  /\ \A a \in Activations : pend[a] # "none" => sp.reg = Home(a)
  /\ parked # None => sp.reg = Main
  /\ ~HasToken => sp.reg = Main
  /\ \A f \in Fibers : fiber[f] = "fresh" => top[f] = 1

\* A wake that nobody was parked for is remembered until the job polls again.
WakeInv ==
  /\ parked # None => ~wakePending
  /\ \A j \in Running : event[j] = "fired" => wakePending \/ pend[j] = "repoll"
  /\ \A j \in Jobs : job[j] \in {"new", "queued"} => event[j] = "idle"
  /\ \A f \in Fibers : pend[f] # "repoll"

\* The inductive invariant.
IndInv ==
  /\ TypeOK
  /\ QueueInv
  /\ OneRoot
  /\ TokenInv
  /\ HolderInv
  /\ FlightInv
  /\ SlotInv
  /\ StackInv
  /\ WakeInv
=============================================================================
