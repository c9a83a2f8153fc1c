------------------------- MODULE PageRegistryProofs -------------------------
(***************************************************************************)
(* TLAPS proofs about PageRegistry, for every set of tasks and files and   *)
(* drops of any size.                                                      *)
(***************************************************************************)
EXTENDS PageRegistry, SequenceTheorems, TLAPS

(* A task that is busy has a file in hand; the example's task has only     *)
(* ever had the example.                                                   *)
TaskInv ==
  \A t \in Tasks :
    /\ stage[t] \in {"read", "hash", "load"} => rest[t] # <<>>
    /\ kind[t] = "example" => rest[t] \in {<<>>, <<Example>>}

(* Cards belong to tasks that have begun, and the example's card to it.    *)
CardInv ==
  \A c \in contracts :
    /\ stage[c.task] # "idle"
    /\ kind[c.task] = "example" => c.file = Example

(* Before the runtime is compiled nothing gets past the read.              *)
RuntimeInv ==
  ~runtime => /\ button = "off" /\ contracts = {}
              /\ \A t \in Tasks : stage[t] \notin {"hash", "load"}

RegistryInv ==
  /\ TypeOK /\ TaskInv /\ CardInv /\ RuntimeInv
  /\ LoadedOnce /\ ButtonTracksExample

-----------------------------------------------------------------------------
\* Bounded sequences are the sequences up to that length.
LEMMA BoundedSeqs ==
  ASSUME NEW S, NEW n \in Nat
  PROVE  \A s : s \in BoundedSeq(S, n) <=> s \in Seq(S) /\ Len(s) <= n
<1>1. ASSUME NEW s \in BoundedSeq(S, n) PROVE s \in Seq(S) /\ Len(s) <= n
  <2>1. PICK m \in 0..n : s \in [1..m -> S]
    BY DEF BoundedSeq, SeqOf
  <2> QED
    BY <2>1
<1>2. ASSUME NEW s \in Seq(S), Len(s) <= n PROVE s \in BoundedSeq(S, n)
  <2>1. Len(s) \in 0..n /\ s \in [1..Len(s) -> S]
    BY <1>2
  <2> QED
    BY <2>1 DEF BoundedSeq, SeqOf
<1> QED
  BY <1>1, <1>2

\* No files, and one more file than nothing, are within the bound.
LEMMA ShortLists ==
  /\ MaxDrop + 1 \in Nat
  /\ <<>> \in BoundedSeq(Files, MaxDrop + 1)
  /\ <<Example>> \in BoundedSeq(Files, MaxDrop + 1) \ {<<>>}
<1>1. MaxDrop + 1 \in Nat /\ MaxDrop \in Nat /\ Example \in Files
  BY RegistryAssumption DEF RegistryAssumption
<1>2. <<>> \in Seq(Files) /\ Len(<<>>) = 0
  BY EmptySeq
<1>3. Len(<<>>) <= MaxDrop + 1
  BY <1>1, <1>2
<1>4. <<Example>> \in Seq(Files) /\ Len(<<Example>>) <= MaxDrop + 1 /\ <<Example>> # <<>>
  BY <1>1
<1>5. \A s : s \in BoundedSeq(Files, MaxDrop + 1) <=> s \in Seq(Files) /\ Len(s) <= MaxDrop + 1
  BY <1>1, BoundedSeqs
<1> QED
  BY <1>1, <1>2, <1>3, <1>4, <1>5, Zenon

\* A task that advances drops the file it has in hand.
LEMMA AdvanceStep ==
  ASSUME TypeOK, TaskInv, NEW t \in Tasks, rest[t] # <<>>, Advance(t)
  PROVE  /\ rest' \in [Tasks -> BoundedSeq(Files, MaxDrop + 1)]
         /\ stage' \in [Tasks -> {"idle", "read", "hash", "load", "done", "failed"}]
         /\ \A u \in Tasks \ {t} : rest'[u] = rest[u] /\ stage'[u] = stage[u]
         /\ stage'[t] \in {"done", "read"}
         /\ stage'[t] = "read" => rest'[t] # <<>>
         /\ rest[t] = <<Example>> => rest'[t] = <<>>
<1>0. MaxDrop + 1 \in Nat
  BY RegistryAssumption DEF RegistryAssumption
<1>1. rest[t] \in Seq(Files) /\ Len(rest[t]) <= MaxDrop + 1
  BY <1>0, BoundedSeqs DEF TypeOK
<1>2. /\ Tail(rest[t]) \in Seq(Files)
      /\ Len(Tail(rest[t])) = Len(rest[t]) - 1
  BY <1>1, HeadTailProperties
<1>3. Tail(rest[t]) \in BoundedSeq(Files, MaxDrop + 1)
  <2>1. Len(rest[t]) \in Nat /\ Len(Tail(rest[t])) <= MaxDrop + 1
    BY <1>0, <1>1, <1>2, LenProperties
  <2> QED
    BY <1>0, <1>2, <2>1, BoundedSeqs
<1>4. rest' = [rest EXCEPT ![t] = Tail(rest[t])]
  BY DEF Advance
<1>5. Len(rest[t]) # 1 => Tail(rest[t]) # <<>>
  <2>1. Len(rest[t]) \in Nat
    BY <1>1, LenProperties
  <2>2. Tail(rest[t]) = <<>> => Len(Tail(rest[t])) = 0
    <3>1. Len(<<>>) = 0
      BY EmptySeq
    <3> QED
      BY <3>1, Zenon
  <2> QED
    BY <1>2, <2>1, <2>2
<1>6. rest[t] = <<Example>> => Tail(rest[t]) = <<>>
  BY <1>1, <1>2
<1> QED
  BY <1>3, <1>4, <1>5, <1>6 DEF Advance, TypeOK


\* The initial page satisfies the invariant.
LEMMA InitInv == Init => RegistryInv
<1> SUFFICES ASSUME Init PROVE RegistryInv
  OBVIOUS
<1>1. <<>> \in BoundedSeq(Files, MaxDrop + 1)
  BY ShortLists
<1> QED
  BY <1>1 DEF Init, RegistryInv, TypeOK, TaskInv, CardInv, RuntimeInv, LoadedOnce,
              ButtonTracksExample

\* A drop or a click begins with a task that was idle, so with no card.
LEMMA BeginStep ==
  ASSUME RegistryInv, NEW t \in Tasks, AddFiles(t) \/ AddDefault(t)
  PROVE  RegistryInv'
<1> USE DEF RegistryInv
<1>1. PICK k, fs : /\ Begin(t, k, fs) /\ k \in {"files", "example"}
                   /\ fs \in BoundedSeq(Files, MaxDrop + 1) \ {<<>>}
                   /\ k = "example" => fs = <<Example>>
  <2>1. CASE AddFiles(t)
    <3>1. PICK fs \in BoundedSeq(Files, MaxDrop) \ {<<>>} : Begin(t, "files", fs)
      BY <2>1 DEF AddFiles
    <3>2. MaxDrop \in Nat
      BY RegistryAssumption DEF RegistryAssumption
    <3>3. fs \in Seq(Files) /\ Len(fs) <= MaxDrop /\ Len(fs) \in Nat
      BY <3>2, BoundedSeqs, LenProperties
    <3>4. fs \in BoundedSeq(Files, MaxDrop + 1)
      BY <3>2, <3>3, ShortLists, BoundedSeqs
    <3> QED
      BY <3>1, <3>4
  <2>2. CASE AddDefault(t)
    BY <2>2, ShortLists DEF AddDefault
  <2> QED
    BY <2>1, <2>2
<1>2. TypeOK'
  BY <1>1 DEF Begin, TypeOK
<1>3. TaskInv'
  BY <1>1 DEF Begin, TypeOK, TaskInv
<1>4. \A c \in contracts : c.task # t /\ kind'[c.task] = kind[c.task]
  BY <1>1 DEF Begin, TypeOK, CardInv
<1>5. CardInv' /\ RuntimeInv'
  BY <1>1, <1>4 DEF Begin, TypeOK, CardInv, RuntimeInv
<1>6. LoadedOnce' /\ ButtonTracksExample'
  BY <1>1, <1>4 DEF Begin, LoadedOnce, ButtonTracksExample
<1> QED
  BY <1>2, <1>3, <1>5, <1>6

\* A file that is rejected, or turned away as a duplicate, changes its task only.
LEMMA NoCardStep ==
  ASSUME RegistryInv, NEW t \in Tasks, BytesRead(t) \/ ReadFails(t) \/ Duplicate(t)
  PROVE  RegistryInv'
<1> USE DEF RegistryInv
<1>1. rest[t] # <<>>
  BY DEF BytesRead, ReadFails, Duplicate, TaskInv
<1>2. <<>> \in BoundedSeq(Files, MaxDrop + 1)
  BY ShortLists
<1>3. /\ rest' \in [Tasks -> BoundedSeq(Files, MaxDrop + 1)]
      /\ stage' \in [Tasks -> {"idle", "read", "hash", "load", "done", "failed"}]
      /\ \A u \in Tasks \ {t} : rest'[u] = rest[u] /\ stage'[u] = stage[u]
      /\ stage'[t] \in {"done", "failed", "read"} \/ (runtime /\ stage'[t] = "hash" /\ rest'[t] = rest[t])
      /\ stage'[t] = "read" => rest'[t] # <<>>
      /\ rest[t] = <<Example>> => rest'[t] \in {<<>>, <<Example>>}
  <2>1. CASE Advance(t)
    BY <1>1, <2>1, AdvanceStep
  <2>2. CASE ~Advance(t)
    BY <1>1, <1>2, <2>2 DEF BytesRead, ReadFails, Duplicate, TypeOK
  <2> QED
    BY <2>1, <2>2
<1>4. UNCHANGED <<runtime, kind, contracts, loadedHashes, button>>
  BY DEF BytesRead, ReadFails, Duplicate
<1>5. TypeOK' /\ TaskInv'
  BY <1>1, <1>3, <1>4 DEF TypeOK, TaskInv
<1>6. CardInv' /\ RuntimeInv'
  BY <1>3, <1>4 DEF TypeOK, CardInv, RuntimeInv
<1>7. LoadedOnce' /\ ButtonTracksExample'
  BY <1>4 DEF LoadedOnce, ButtonTracksExample
<1> QED
  BY <1>5, <1>6, <1>7

\* A contract that is registered is one whose hash was not there.
LEMMA RegisterStep ==
  ASSUME RegistryInv, NEW t \in Tasks, Register(t) PROVE RegistryInv'
<1> USE DEF RegistryInv
<1>1. /\ rest[t] # <<>> /\ runtime /\ File(t) \in Files
      /\ kind[t] = "example" => File(t) = Example
  <2>1. rest[t] # <<>> /\ runtime /\ rest[t] \in Seq(Files)
    BY ShortLists, BoundedSeqs DEF Register, TypeOK, TaskInv, RuntimeInv
  <2> QED
    BY <2>1, HeadTailProperties DEF File, TaskInv
<1> DEFINE new == Card(File(t), t, "loading")
<1>2. /\ contracts' = contracts \cup {new}
      /\ new.file = File(t) /\ new.task = t /\ new.status = "loading"
      /\ new \in [file : Files, task : Tasks, status : Statuses]
  BY <1>1 DEF Register, Card, Statuses
<1>3. TypeOK' /\ TaskInv' /\ RuntimeInv'
  BY <1>1, <1>2 DEF Register, TypeOK, TaskInv, RuntimeInv
<1>4. CardInv'
  BY <1>1, <1>2 DEF Register, TypeOK, CardInv
<1>5. LoadedOnce'
  BY <1>2 DEF Register, LoadedOnce
<1>6. ButtonTracksExample'
  BY <1>2 DEF Register, ButtonTracksExample
<1> QED
  BY <1>3, <1>4, <1>5, <1>6

\* The card that addContract was waiting for keeps its file and its task.
LEMMA LoadedStep ==
  ASSUME RegistryInv, NEW t \in Tasks, NEW s \in {"instantiated", "failed"}, Loaded(t, s)
  PROVE  RegistryInv'
<1> USE DEF RegistryInv
<1>1. rest[t] # <<>> /\ runtime /\ Advance(t)
  BY DEF Loaded, TaskInv, RuntimeInv
<1>2. /\ rest' \in [Tasks -> BoundedSeq(Files, MaxDrop + 1)]
      /\ stage' \in [Tasks -> {"idle", "read", "hash", "load", "done", "failed"}]
      /\ \A u \in Tasks \ {t} : rest'[u] = rest[u] /\ stage'[u] = stage[u]
      /\ stage'[t] \in {"done", "read"}
      /\ stage'[t] = "read" => rest'[t] # <<>>
      /\ rest[t] = <<Example>> => rest'[t] = <<>>
  BY <1>1, AdvanceStep
<1> DEFINE old == Loading(t)
           new == Card(File(t), t, s)
<1>3. /\ old \in contracts /\ contracts' = (contracts \ {old}) \cup {new}
      /\ old.file = new.file /\ old.task = t /\ new.task = t
      /\ old.status = "loading" /\ new.status = s
      /\ new \in [file : Files, task : Tasks, status : Statuses]
  BY DEF Loaded, Loading, Card, Statuses, TypeOK
<1>4. TypeOK' /\ TaskInv' /\ RuntimeInv'
  BY <1>1, <1>2, <1>3 DEF Loaded, TypeOK, TaskInv, RuntimeInv
<1>5. CardInv'
  BY <1>2, <1>3 DEF Loaded, TypeOK, CardInv
<1>6. LoadedOnce'
  BY <1>3 DEF Loaded, LoadedOnce
<1>7. ButtonTracksExample'
  BY <1>3 DEF Loaded, ButtonTracksExample
<1> QED
  BY <1>4, <1>5, <1>6, <1>7

\* Of the example there is one card, so its termination frees the button.
LEMMA TerminateStep ==
  ASSUME RegistryInv, NEW c \in contracts, Terminate(c) PROVE RegistryInv'
<1> USE DEF RegistryInv
<1>1. runtime
  BY DEF RuntimeInv
<1>2. TypeOK' /\ TaskInv' /\ CardInv' /\ RuntimeInv'
  BY <1>1 DEF Terminate, TypeOK, TaskInv, CardInv, RuntimeInv
<1>3. LoadedOnce'
  BY DEF Terminate, LoadedOnce
<1>4. ButtonTracksExample'
  <2>1. CASE kind[c.task] = "example"
    <3>1. \A d \in contracts : kind[d.task] = "example" => d = c
      BY <2>1 DEF CardInv, LoadedOnce
    <3> QED
      BY <2>1, <3>1 DEF Terminate, ButtonTracksExample
  <2>2. CASE kind[c.task] # "example"
    BY <2>2 DEF Terminate, ButtonTracksExample
  <2> QED
    BY <2>1, <2>2
<1> QED
  BY <1>2, <1>3, <1>4

\* Every step of the page keeps the invariant.
LEMMA RegistryStep == RegistryInv /\ [Next]_vars => RegistryInv'
<1> SUFFICES ASSUME RegistryInv, [Next]_vars PROVE RegistryInv'
  OBVIOUS
<1>1. CASE UNCHANGED vars
  BY <1>1 DEF vars, RegistryInv, TypeOK, TaskInv, CardInv, RuntimeInv, LoadedOnce,
              ButtonTracksExample
<1>2. CASE Compiled
  BY <1>2 DEF Compiled, RegistryInv, TypeOK, TaskInv, CardInv, RuntimeInv, LoadedOnce,
              ButtonTracksExample
<1>3. ASSUME NEW t \in Tasks, AddFiles(t) \/ AddDefault(t) PROVE RegistryInv'
  BY <1>3, BeginStep
<1>4. ASSUME NEW t \in Tasks, Step(t) PROVE RegistryInv'
  BY <1>4, NoCardStep, RegisterStep, LoadedStep DEF Step
<1>5. ASSUME NEW c \in contracts, Terminate(c) PROVE RegistryInv'
  BY <1>5, TerminateStep
<1> QED
  BY <1>1, <1>2, <1>3, <1>4, <1>5 DEF Next

-----------------------------------------------------------------------------
\* The invariant holds in every state of the page, however its tasks interleave.
THEOREM RegistryInvariant == Spec => []RegistryInv
  BY InitInv, RegistryStep, PTL DEF Spec

\* Every variable of the page's registry stays in its domain.
THEOREM RegistryTypeCorrect == Spec => []TypeOK
<1>1. RegistryInv => TypeOK
  BY DEF RegistryInv
<1> QED
  BY <1>1, RegistryInvariant, PTL

\* However many drops and clicks interleave at the awaits of addContract, no
\* contract is loaded twice and no hash is left behind by a termination.
THEOREM NeverLoadedTwice == Spec => []LoadedOnce
<1>1. RegistryInv => LoadedOnce
  BY DEF RegistryInv
<1> QED
  BY <1>1, RegistryInvariant, PTL

\* The example button is disabled exactly while the example's card is there.
THEOREM ButtonNeverStuck == Spec => []ButtonTracksExample
<1>1. RegistryInv => ButtonTracksExample
  BY DEF RegistryInv
<1> QED
  BY <1>1, RegistryInvariant, PTL
=============================================================================
