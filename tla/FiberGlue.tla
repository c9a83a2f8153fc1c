----------------------------- MODULE FiberGlue ------------------------------
(***************************************************************************)
(* The fiber glue of the browser runtime: crates/web/web/fiber-env.js (the *)
(* JavaScript half, on JSPI) together with crates/web/src/fiber.rs (the    *)
(* Rust half).  Every wasmtime future of the runtime is polled inside a    *)
(* JOB: an activation of `starstream_fiber_run' that `drive' starts.  A    *)
(* job creates FIBERS and switches between them and itself; it may park    *)
(* until the waker of its future is called.  All activations share one     *)
(* global, the shadow stack pointer `sp', which nobody but this code and   *)
(* the prologues and epilogues of the compiled functions sets.             *)
(*                                                                         *)
(* Jobs run on the module's main shadow stack, each fiber on a region of   *)
(* its own.  A position on a stack is [reg, d]: a region, and how deep the *)
(* stack has grown there.                                                  *)
(*                                                                         *)
(* Promise reactions that are ready at the same time may run in any order  *)
(* here; the microtask queue of the host picks one of those orders.        *)
(*                                                                         *)
(* The callers are modelled as the code uses them: wasmtime initialises a  *)
(* stack that is not in use, switches into a fresh or a suspended fiber,   *)
(* and out of the fiber that runs; a compiled function grows the shadow    *)
(* stack on entry and resets it to where its caller left it on return; a   *)
(* trap leaves `sp' where it was.                                          *)
(***************************************************************************)
EXTENDS Naturals

CONSTANTS
  Jobs,      \* the calls of drive()
  Fibers,    \* the fiber stacks, named by their top_of_stack
  Main,      \* the region of the module's main shadow stack
  None,      \* JavaScript's null
  MaxDepth   \* bound: how deep a shadow stack may grow

ASSUME Names ==
  /\ Jobs \cap Fibers = {}
  /\ {Main, None} \cap (Jobs \cup Fibers) = {}
  /\ Main # None

ASSUME Bounds == MaxDepth \in Nat \ {0}

VARIABLES
  bound,        \* setup() has bound sp, enterFiber and runJob
  job,          \* the promise that drive returned for each job
  chain,        \* the tail of the chain: the last job driven, or None
  after,        \* the job whose link of the chain each job waits for
  ticket,       \* history: the order in which the jobs were driven
  cur,          \* the activation that executes, or None: JavaScript idles
  sp,           \* the global __stack_pointer
  base, top,    \* history: where the frames of each activation start and end
  fiber,        \* the map `fibers': "free" (no entry), "fresh" or "started"
  slot,         \* the `slot' of each entry: the parked other side
  pend,         \* the promise a suspended activation waits for, once settled
  fin,          \* the promise of enterFiber, once settled
  parked,       \* the job whose resolve function `parked' holds, or None
  wakePending,
  event         \* what each job's future waits for: see EventStates

queueVars == <<bound, job, chain, after, ticket>>
stackVars == <<sp, base, top>>
fiberVars == <<fiber, slot, pend, fin>>
parkVars  == <<parked, wakePending, event>>
vars == <<queueVars, cur, stackVars, fiberVars, parkVars>>

Activations == Jobs \cup Fibers
Home(a)     == IF a \in Jobs THEN Main ELSE a
Positions   == [reg : Fibers \cup {Main}, d : 0 .. MaxDepth]
Parties     == [who : Activations, sp : Positions]   \* who waits, and its sp
JobStates   == {"new", "queued", "running", "ok", "err"}

\* "ok" and "err": resolved and rejected; "repoll": resolved by park/unpark.
Outcomes    == {"none", "ok", "err", "repoll"}

\* "armed": the future stashed the waker; "fired": the waker has been called
\* and the future would be ready to go on if it were polled.
EventStates == {"idle", "armed", "fired"}

ASSUME NullIsNoParty == None \notin Parties

Settled(j)  == job[j] \in {"ok", "err"}
Running     == {j \in Jobs : job[j] = "running"}
Live(a)     == IF a \in Jobs THEN job[a] = "running" ELSE fiber[a] # "free"

Init ==
  /\ bound = FALSE
  /\ job = [j \in Jobs |-> "new"]
  /\ chain = None
  /\ after = [j \in Jobs |-> None]
  /\ ticket = [j \in Jobs |-> 0]
  /\ cur = None
  /\ sp = [reg |-> Main, d |-> 0]
  /\ base = [a \in Activations |-> 0]
  /\ top = [a \in Activations |-> 0]
  /\ fiber = [f \in Fibers |-> "free"]
  /\ slot = [f \in Fibers |-> None]
  /\ pend = [a \in Activations |-> "none"]
  /\ fin = [f \in Fibers |-> "none"]
  /\ parked = None
  /\ wakePending = FALSE
  /\ event = [j \in Jobs |-> "idle"]
-----------------------------------------------------------------------------
(* The queue of jobs.                                                      *)

\* setup(exports); where JSPI or the export is missing it throws instead and
\* binds nothing.
Setup ==
  /\ ~bound
  /\ bound' = TRUE
  /\ UNCHANGED <<job, chain, after, ticket, cur, stackVars, fiberVars, parkVars>>

\* drive(job) before setup: a rejected promise, and the chain stays as it is.
DriveUnbound(j) ==
  /\ cur = None /\ job[j] = "new" /\ ~bound
  /\ job' = [job EXCEPT ![j] = "err"]
  /\ UNCHANGED <<bound, chain, after, ticket, cur, stackVars, fiberVars, parkVars>>

\* drive(job): run = chain.then(() => runJob(job)), and run becomes the chain.
Drive(j) ==
  /\ cur = None /\ job[j] = "new" /\ bound
  /\ job' = [job EXCEPT ![j] = "queued"]
  /\ after' = [after EXCEPT ![j] = chain]
  /\ chain' = j
  /\ ticket' = [ticket EXCEPT ![j] = IF chain = None THEN 1 ELSE ticket[chain] + 1]
  /\ UNCHANGED <<bound, cur, stackVars, fiberVars, parkVars>>

\* Mutant: the jobs are not chained.
UnchainedReady(j) == TRUE

\* The reaction of the chain: runJob(job) enters the module wherever sp is.
\* Both ways the previous job can settle resolve its link.
ChainReady(j) == after[j] # None => Settled(after[j])

Start(j) ==
  /\ cur = None /\ job[j] = "queued" /\ ChainReady(j)
  /\ job' = [job EXCEPT ![j] = "running"]
  /\ cur' = j
  /\ base' = [base EXCEPT ![j] = sp.d]
  /\ top' = [top EXCEPT ![j] = sp.d]
  /\ UNCHANGED <<bound, chain, after, ticket, sp, fiberVars, parkVars>>
-----------------------------------------------------------------------------
(* The shadow stack under compiled code.                                   *)

\* A function with a frame is entered.
Call ==
  /\ cur # None /\ sp.d < MaxDepth
  /\ sp' = [sp EXCEPT !.d = @ + 1]
  /\ top' = [top EXCEPT ![cur] = sp.d + 1]
  /\ UNCHANGED <<queueVars, cur, base, fiberVars, parkVars>>

\* One or more functions return.
Return ==
  /\ cur # None
  /\ \E d \in base[cur] .. MaxDepth :
       /\ d < top[cur]
       /\ sp' = [reg |-> Home(cur), d |-> d]
       /\ top' = [top EXCEPT ![cur] = d]
  /\ UNCHANGED <<queueVars, cur, base, fiberVars, parkVars>>

\* A plain export called between two steps of the job traps: its frame stays.
PlainExportTraps ==
  /\ cur = None /\ bound /\ sp.d < MaxDepth
  /\ sp' = [sp EXCEPT !.d = @ + 1]
  /\ UNCHANGED <<queueVars, cur, base, top, fiberVars, parkVars>>
-----------------------------------------------------------------------------
(* Fibers.                                                                 *)

\* fiber_init(top, entry, arg0).  The reserved 16 bytes are position 0.
FiberInit(f) ==
  /\ cur # None /\ fiber[f] = "free"
  /\ fiber' = [fiber EXCEPT ![f] = "fresh"]
  /\ slot' = [slot EXCEPT ![f] = None]
  /\ base' = [base EXCEPT ![f] = 1]
  /\ top' = [top EXCEPT ![f] = 1]
  /\ UNCHANGED <<queueVars, cur, sp, pend, fin, parkVars>>

\* Mutant: the stack pointer is not saved with the parked side.
MeWithoutSp == [who |-> cur]

Me == [who |-> cur, sp |-> sp]

\* fiberSwitch, first switch: enterFiber runs the fiber before it returns.
SwitchFirst(f) ==
  /\ cur # None /\ fiber[f] = "fresh"
  /\ fiber' = [fiber EXCEPT ![f] = "started"]
  /\ slot' = [slot EXCEPT ![f] = Me]
  /\ sp' = [reg |-> f, d |-> 1]
  /\ cur' = f
  /\ UNCHANGED <<queueVars, base, top, pend, fin, parkVars>>

\* Mutant: the stack pointer is not switched.
SwapKeepsSp(f) ==
  /\ slot' = [slot EXCEPT ![f] = Me]
  /\ pend' = [pend EXCEPT ![slot[f].who] = "ok"]
  /\ cur' = None
  /\ UNCHANGED <<queueVars, sp, base, top, fiber, fin, parkVars>>

\* fiberSwitch, every later switch.
Swap(f) ==
  LET other == slot[f] IN
  /\ slot' = [slot EXCEPT ![f] = Me]
  /\ sp' = other.sp
  /\ pend' = [pend EXCEPT ![other.who] = "ok"]
  /\ cur' = None
  /\ UNCHANGED <<queueVars, base, top, fiber, fin, parkVars>>

SwitchInto(f) ==
  /\ cur # None /\ fiber[f] = "started"
  /\ slot[f].who = f /\ cur # f
  /\ Swap(f)

SwitchOut(f) == cur = f /\ Swap(f)

\* The fiber's entry function returns: the promise of enterFiber resolves.
FiberReturn(f) ==
  /\ cur = f
  /\ fin' = [fin EXCEPT ![f] = "ok"]
  /\ sp' = [reg |-> f, d |-> base[f]]
  /\ top' = [top EXCEPT ![f] = base[f]]
  /\ cur' = None
  /\ UNCHANGED <<queueVars, base, fiber, slot, pend, parkVars>>

\* Mutant: the resumer is not told that the fiber trapped.
FiberSettledResolves(f) ==
  /\ cur = None /\ fin[f] # "none"
  /\ fiber' = [fiber EXCEPT ![f] = "free"]
  /\ slot' = [slot EXCEPT ![f] = None]
  /\ sp' = slot[f].sp
  /\ pend' = [pend EXCEPT ![slot[f].who] = "ok"]
  /\ fin' = [fin EXCEPT ![f] = "none"]
  /\ UNCHANGED <<queueVars, cur, base, top, parkVars>>

\* The two reactions of that promise: the final switch back.
FiberSettled(f) ==
  LET back == slot[f] IN
  /\ cur = None /\ fin[f] # "none"
  /\ fiber' = [fiber EXCEPT ![f] = "free"]
  /\ slot' = [slot EXCEPT ![f] = None]
  /\ sp' = back.sp
  /\ pend' = [pend EXCEPT ![back.who] = fin[f]]
  /\ fin' = [fin EXCEPT ![f] = "none"]
  /\ UNCHANGED <<queueVars, cur, base, top, parkVars>>

\* The end of an activation by a trap: its promise is rejected.
Dies(a) ==
  \/ /\ a \in Jobs
     /\ job' = [job EXCEPT ![a] = "err"]
     /\ UNCHANGED fin
  \/ /\ a \in Fibers
     /\ fin' = [fin EXCEPT ![a] = "err"]
     /\ UNCHANGED job

Trap(a) ==
  /\ cur = a
  /\ Dies(a)
  /\ cur' = None
  /\ UNCHANGED <<bound, chain, after, ticket, stackVars, fiber, slot, pend, parkVars>>

\* A suspended activation goes on: its promise was resolved ...
Resume(a) ==
  /\ cur = None /\ pend[a] \in {"ok", "repoll"}
  /\ cur' = a
  /\ pend' = [pend EXCEPT ![a] = "none"]
  /\ event' = IF pend[a] = "repoll" /\ event[a] = "fired"
              THEN [event EXCEPT ![a] = "idle"] ELSE event
  /\ UNCHANGED <<queueVars, stackVars, fiber, slot, fin, parked, wakePending>>

\* ... or rejected, which makes it trap in turn.
ResumeTraps(a) ==
  /\ cur = None /\ pend[a] = "err"
  /\ pend' = [pend EXCEPT ![a] = "none"]
  /\ Dies(a)
  /\ UNCHANGED <<bound, chain, after, ticket, cur, stackVars, fiber, slot, parkVars>>
-----------------------------------------------------------------------------
(* block_on: polling, parking and waking.                                  *)

\* The job's future returns Pending somewhere below and keeps the waker.
Arm(j) ==
  /\ cur # None /\ job[j] = "running" /\ event[j] = "idle"
  /\ event' = [event EXCEPT ![j] = "armed"]
  /\ UNCHANGED <<queueVars, cur, stackVars, fiberVars, parked, wakePending>>

\* park(): a pending wake is used up; a second parked job would be an error.
Park(j) ==
  /\ cur = j /\ job[j] = "running" /\ event[j] # "idle"
  /\ cur' = None
  /\ IF wakePending
     THEN /\ wakePending' = FALSE
          /\ pend' = [pend EXCEPT ![j] = "repoll"]
          /\ UNCHANGED <<job, parked>>
     ELSE IF parked # None
     THEN /\ job' = [job EXCEPT ![j] = "err"]
          /\ UNCHANGED <<pend, parked, wakePending>>
     ELSE /\ parked' = j
          /\ UNCHANGED <<job, pend, wakePending>>
  /\ UNCHANGED <<bound, chain, after, ticket, stackVars, fiber, slot, fin, event>>

\* Mutant: `parked' keeps the resolve function it has called.
UnparkKeepsParked ==
  IF parked # None
  THEN /\ pend' = [pend EXCEPT ![parked] = "repoll"]
       /\ UNCHANGED <<parked, wakePending>>
  ELSE wakePending' = TRUE /\ UNCHANGED <<parked, pend>>

\* Mutant: a wake that finds nobody parked is forgotten.
UnparkForgets ==
  IF parked # None
  THEN /\ parked' = None
       /\ pend' = [pend EXCEPT ![parked] = "repoll"]
       /\ UNCHANGED wakePending
  ELSE UNCHANGED <<parked, pend, wakePending>>

\* starstream_fiber_unpark().
Unpark ==
  IF parked # None
  THEN /\ parked' = None
       /\ pend' = [pend EXCEPT ![parked] = "repoll"]
       /\ UNCHANGED wakePending
  ELSE /\ wakePending' = TRUE
       /\ UNCHANGED <<parked, pend>>

\* What the future waits for comes about, and its waker is called: between
\* two steps of the job, or from below while the job still polls.
Wake(j) ==
  /\ event[j] = "armed"
  /\ event' = [event EXCEPT ![j] = "fired"]
  /\ Unpark
  /\ UNCHANGED <<queueVars, cur, stackVars, fiber, slot, fin>>

\* A waker that outlived its job, or that is called for no reason.
StaleWake ==
  /\ bound
  /\ Unpark
  /\ UNCHANGED <<queueVars, cur, stackVars, fiber, slot, fin, event>>

\* The future is ready: block_on, and with it the job, returns.
RootReturn(j) ==
  /\ cur = j /\ job[j] = "running" /\ event[j] = "idle"
  /\ job' = [job EXCEPT ![j] = "ok"]
  /\ sp' = [reg |-> Main, d |-> base[j]]
  /\ cur' = None
  /\ UNCHANGED <<bound, chain, after, ticket, base, top, fiberVars, parkVars>>
-----------------------------------------------------------------------------
JobStep(j) ==
  DriveUnbound(j) \/ Drive(j) \/ Start(j) \/ Arm(j) \/ Park(j) \/ Wake(j) \/ RootReturn(j)

FiberStep(f) ==
  \/ FiberInit(f) \/ SwitchFirst(f) \/ SwitchInto(f) \/ SwitchOut(f)
  \/ FiberReturn(f) \/ FiberSettled(f)

ActivationStep(a) == Trap(a) \/ Resume(a) \/ ResumeTraps(a)

Next ==
  \/ Setup \/ Call \/ Return \/ PlainExportTraps \/ StaleWake
  \/ \E j \in Jobs : JobStep(j)
  \/ \E f \in Fibers : FiberStep(f)
  \/ \E a \in Activations : ActivationStep(a)

Spec == Init /\ [][Next]_vars

\* The event loop runs every reaction that is ready; an event that somebody
\* waits for comes about; and guest code that is given control again and again
\* eventually returns, or returns Pending (the assumption on the guest).
Fairness ==
  /\ \A j \in Jobs : /\ WF_vars(Start(j)) /\ WF_vars(Wake(j))
                     /\ SF_vars(Park(j)) /\ SF_vars(RootReturn(j))
  /\ \A f \in Fibers : WF_vars(FiberSettled(f)) /\ SF_vars(FiberReturn(f))
  /\ \A a \in Activations : WF_vars(Resume(a)) /\ WF_vars(ResumeTraps(a))

FairSpec == Spec /\ Fairness
-----------------------------------------------------------------------------
(* Properties.                                                             *)

\* The type invariant of the glue's state.
TypeOK ==
  /\ bound \in BOOLEAN
  /\ job \in [Jobs -> JobStates]
  /\ chain \in Jobs \cup {None}
  /\ after \in [Jobs -> Jobs \cup {None}]
  /\ ticket \in [Jobs -> Nat]
  /\ cur \in Activations \cup {None}
  /\ sp \in Positions
  /\ base \in [Activations -> 0 .. MaxDepth]
  /\ top \in [Activations -> 0 .. MaxDepth]
  /\ fiber \in [Fibers -> {"free", "fresh", "started"}]
  /\ slot \in [Fibers -> Parties \cup {None}]
  /\ pend \in [Activations -> Outcomes]
  /\ fin \in [Fibers -> {"none", "ok", "err"}]
  /\ parked \in Jobs \cup {None}
  /\ wakePending \in BOOLEAN
  /\ event \in [Jobs -> EventStates]

\* The INVARIANT of fiber-env.js: however many jobs are queued, and whatever
\* they suspend on, at most one root activation is in flight.
OneRoot == \A i, j \in Running : i = j

\* What keeps the job in flight going: somebody executes, or the promise a
\* suspended activation waits for has settled, or the fiber that had control
\* has ended, or the job is parked.
Tokens ==
  {<<"runs", a>> : a \in {b \in Activations : cur = b}}
    \cup {<<"resumes", a>> : a \in {b \in Activations : pend[b] # "none"}}
    \cup {<<"ended", f>> : f \in {g \in Fibers : fin[g] # "none"}}
    \cup {<<"parked", j>> : j \in {i \in Jobs : parked = i}}

\* While a job is in flight there is one such reason and never two: control
\* is handed on by every switch, trap, park and wake, neither lost (the job
\* would hang for ever) nor doubled (two activations would run at a time).
OneContinuation ==
  /\ \A s, t \in Tokens : s = t
  /\ Tokens # {} <=> Running # {}

\* Compiled code always runs on its own region, and wherever sp points, also
\* while JavaScript idles and any export may be called, it is beyond every
\* live frame (and the reserved bytes) there: nothing live is overwritten.
StackSafe ==
  /\ cur # None => sp.reg = Home(cur)
  /\ \A a \in Activations : Live(a) /\ Home(a) = sp.reg => top[a] <= sp.d

\* No lost wakeup: a job does not stay parked once its waker has been called,
\* whether the wake came before, during or after park().
NoLostWake == \A j \in Jobs : parked = j => event[j] # "fired"

\* The error "a fiber job is already parked" is unreachable: when a job gets
\* to park() nobody else is parked.
ParkSlotFree == \A j \in Running : cur = j => parked = None

\* The glue implements the job queue: serial, in the order of drive().
Queue == INSTANCE JobQueue WITH Jobs <- Jobs, job <- job, ticket <- ticket
QueueSpec == Queue!Spec

\* Every job that drive() accepted settles, whatever the jobs before it did:
\* a trap neither poisons the chain nor leaves it pending.
EveryJobSettles == \A j \in Jobs : job[j] = "queued" ~> Settled(j)

\* A trap in a fiber reaches the job in flight, through every fiber between
\* them: as a rejection, so that each resumer traps too instead of hanging or
\* going on as if nothing had happened.
TrapReachesJob ==
  \A f \in Fibers, j \in Jobs :
    (fin[f] = "err" /\ job[j] = "running") ~> (job[j] = "err")
=============================================================================
