-------------------------- MODULE CommandRunnerProofs --------------------------
(***************************************************************************)
(* OSCommandRunner::run, for pipes of any capacity and commands of any      *)
(* output: it never makes a read that could block, and on exit 0 it has      *)
(* everything the command wrote.                                            *)
(***************************************************************************)
EXTENDS CommandRunner, TLAPS

Conserved == \A s \in Streams : got[s] + pipe[s] + left[s] = output[s]

(* The child holds its write ends while it runs, and nobody does before. *)
Holding ==
  /\ "child" \in holders <=> child = "running"
  /\ child = "none" => holders = {}
  /\ pc = "spawn" => child = "none"

(* A status is there when the child is gone; 0 means that it wrote all. *)
StatusSound ==
  /\ status # Unset <=> child = "gone"
  /\ status = 0 => left = Zero
  /\ code = 0 => status = 0

(* The loop closes a stream on its end of file only: nothing is in it, and     *)
(* nobody can put anything in it.                                            *)
ClosedAtEnd ==
  /\ pc \in {"poll", "read"} => \A s \in Streams \ open : pipe[s] = 0 /\ holders = {}
  /\ pc \in {"spawn", "wait", "done"} => open = {}
  /\ pc \in {"wait", "done"} /\ ~interrupted => pipe = Zero
  /\ pc = "spawn" => pipe = Zero

ReadyOpen == pc = "read" => ready \subseteq open

IInv == /\ TypeOK /\ Conserved /\ Holding /\ StatusSound
        /\ ClosedAtEnd /\ ReadyOpen /\ ReadNeverBlocks

LEMMA InitInv == Init => IInv
<1> USE CapacityAssumption, UnsetAssumption DEF Init
<1> SUFFICES ASSUME Init PROVE IInv
  OBVIOUS
<1>0. Zero \in [Streams -> 0..Capacity] /\ Zero \in [Streams -> Nat]
  BY DEF Zero
<1>1. TypeOK
  BY <1>0 DEF TypeOK
<1>2. Conserved
  BY <1>1 DEF Conserved, TypeOK, Zero
<1>3. Holding /\ StatusSound /\ ClosedAtEnd /\ ReadyOpen /\ ReadNeverBlocks
  BY DEF Holding, StatusSound, ClosedAtEnd, ReadyOpen, ReadNeverBlocks
<1> QED
  BY <1>1, <1>2, <1>3 DEF IInv

LEMMA WriteInv == ASSUME IInv, NEW s \in Streams, Write(s) PROVE IInv'
<1> USE CapacityAssumption, UnsetAssumption DEF Write, IInv, run
<1>1. TypeOK'
  BY DEF TypeOK, Streams
<1>2. Conserved'
  BY DEF Conserved, TypeOK
<1>3. /\ Holding' /\ StatusSound' /\ ReadyOpen'
  BY DEF Holding, StatusSound, ReadyOpen, TypeOK, Zero
<1>4. ClosedAtEnd'
  BY DEF ClosedAtEnd, TypeOK, Holding
<1>5. ReadNeverBlocks'
  BY DEF ReadNeverBlocks, Reported, TypeOK
<1> QED
  BY <1>1, <1>2, <1>3, <1>4, <1>5

LEMMA GoneInv ==
  ASSUME IInv, NEW st \in {0, 1, 127, SigPipe}, st = 0 => left = Zero, Gone(st)
  PROVE  IInv'
<1> USE UnsetAssumption DEF Gone, IInv, run
<1>1. TypeOK'
  BY DEF TypeOK, SigPipe
<1>2. Conserved' /\ Holding' /\ ReadyOpen'
  BY DEF Conserved, Holding, ReadyOpen, TypeOK
<1>3. StatusSound'
  BY DEF StatusSound, SigPipe, TypeOK
<1>4. ClosedAtEnd' /\ ReadNeverBlocks'
  BY DEF ClosedAtEnd, ReadNeverBlocks, Reported, Holding
<1> QED
  BY <1>1, <1>2, <1>3, <1>4

LEMMA CommandInv == ASSUME IInv, Command \/ Fail \/ Bequeath \/ HeirEnds PROVE IInv'
<1>1. CASE \E s \in Streams : Write(s)
  BY <1>1, WriteInv
<1>2. CASE Succeed
  BY <1>2, GoneInv DEF Succeed
<1>3. CASE Fail
  BY <1>3, GoneInv DEF Fail
<1>4. CASE BreakPipe
  BY <1>4, GoneInv DEF BreakPipe, SigPipe
<1>5. CASE Bequeath
  BY <1>5 DEF Bequeath, IInv, run, TypeOK, Conserved, Holding, StatusSound, ClosedAtEnd,
              ReadyOpen, ReadNeverBlocks, Reported
<1>6. CASE HeirEnds
  BY <1>6 DEF HeirEnds, IInv, run, TypeOK, Conserved, Holding, StatusSound, ClosedAtEnd,
              ReadyOpen, ReadNeverBlocks, Reported
<1> QED
  BY <1>1, <1>2, <1>3, <1>4, <1>5, <1>6 DEF Command

LEMMA ReadInv == ASSUME IInv, NEW s \in Streams, Read(s) PROVE IInv'
<1> USE CapacityAssumption, UnsetAssumption DEF Read, IInv, command
<1>0. ready' = ready \ {s} /\ pc = "read" /\ pc' \in {"poll", "read"} /\ s \in ready
  BY DEF First
<1>a. CASE pipe[s] > 0
  <2>1. PICK n \in 1..pipe[s] : /\ got' = [got EXCEPT ![s] = @ + n]
                                /\ pipe' = [pipe EXCEPT ![s] = @ - n]
                                /\ open' = open
    BY <1>a
  <2>2. TypeOK'
    BY <1>0, <2>1 DEF TypeOK
  <2>3. Conserved'
    BY <2>1 DEF Conserved, TypeOK
  <2>4. Holding' /\ StatusSound' /\ ReadyOpen'
    BY <1>0, <2>1 DEF Holding, StatusSound, ReadyOpen, TypeOK
  <2>5. ClosedAtEnd'
    BY <1>0, <2>1 DEF ClosedAtEnd, ReadyOpen, TypeOK
  <2>6. ReadNeverBlocks'
    BY <1>0, <2>1 DEF ReadNeverBlocks, Reported, TypeOK
  <2> QED
    BY <2>2, <2>3, <2>4, <2>5, <2>6
<1>b. CASE ~(pipe[s] > 0)
  <2>1. /\ holders = {} /\ open' = open \ {s} /\ UNCHANGED <<got, pipe>>
        /\ pipe[s] = 0
    BY <1>b DEF TypeOK
  <2>2. TypeOK' /\ Conserved' /\ Holding' /\ StatusSound' /\ ReadyOpen'
    BY <1>0, <2>1 DEF TypeOK, Conserved, Holding, StatusSound, ReadyOpen
  <2>3. ClosedAtEnd' /\ ReadNeverBlocks'
    BY <1>0, <2>1 DEF ClosedAtEnd, ReadNeverBlocks, Reported
  <2> QED
    BY <2>2, <2>3
<1> QED
  BY <1>a, <1>b

LEMMA RunInv == ASSUME IInv, Run \/ SpawnFails \/ PollInterrupted PROVE IInv'
<1> USE UnsetAssumption, CapacityAssumption DEF IInv, command
<1>1. CASE Spawn
  BY <1>1 DEF Spawn, TypeOK, Conserved, Holding, StatusSound, ClosedAtEnd, ReadyOpen,
              ReadNeverBlocks, Zero, Streams
<1>2. CASE Poll
  BY <1>2 DEF Poll, PollOf, TypeOK, Conserved, Holding, StatusSound, ClosedAtEnd, ReadyOpen,
              ReadNeverBlocks, Reported
<1>3. CASE LeaveLoop
  <2>1. pipe = Zero
    BY <1>3 DEF LeaveLoop, LeaveWhen, ClosedAtEnd, TypeOK, Zero
  <2> QED
    BY <1>3, <2>1 DEF LeaveLoop, LeaveWhen, TypeOK, Conserved, Holding, StatusSound,
              ClosedAtEnd, ReadyOpen, ReadNeverBlocks, Reported
<1>4. CASE Wait
  BY <1>4 DEF Wait, TypeOK, Conserved, Holding, StatusSound, ClosedAtEnd, ReadyOpen,
              ReadNeverBlocks
<1>5. CASE \E s \in Streams : Read(s)
  BY <1>5, ReadInv
<1>6. CASE SpawnFails
  BY <1>6 DEF SpawnFails, TypeOK, Conserved, Holding, StatusSound, ClosedAtEnd, ReadyOpen,
              ReadNeverBlocks
<1>7. CASE PollInterrupted
  BY <1>7 DEF PollInterrupted, TypeOK, Conserved, Holding, StatusSound, ClosedAtEnd,
              ReadyOpen, ReadNeverBlocks
<1> QED
  BY <1>1, <1>2, <1>3, <1>4, <1>5, <1>6, <1>7 DEF Run

LEMMA StutterInv == ASSUME IInv, UNCHANGED vars PROVE IInv'
BY DEF vars, command, run, IInv, TypeOK, Conserved, Holding, StatusSound, ClosedAtEnd,
       ReadyOpen, ReadNeverBlocks, Reported

(* OSCommandRunner::run: no chunk is lost between the command and the program, and each *)
(* of the streams is closed only at its end.                                       *)
THEOREM Invariant == Spec => []IInv
<1>1. IInv /\ [Next]_vars => IInv'
  BY CommandInv, RunInv, StutterInv DEF Next
<1> QED
  BY InitInv, <1>1, PTL DEF Spec

(* The variables keep their types, and run has a result exactly when it has    *)
(* returned.                                                                 *)
THEOREM TypeCorrect == Spec => []TypeOK
BY Invariant, PTL DEF IInv

(* The poll loop never makes a read that waits for the command, so no command  *)
(* waits for it on the other pipe for ever.                                  *)
THEOREM NeverBlocks == Spec => []ReadNeverBlocks
BY Invariant, PTL DEF IInv

(* What the callers of run trust: the output that comes with exit 0 is all of  *)
(* it, unless a signal cut the poll loop short.                              *)
THEOREM CompleteOutput == Spec => []OutputComplete
<1>1. IInv => OutputComplete
  <2> SUFFICES ASSUME IInv, code = 0, ~interrupted PROVE got = output
    BY DEF OutputComplete
  <2>1. pc = "done"
    BY UnsetAssumption DEF IInv, TypeOK
  <2>2. pipe = Zero /\ left = Zero
    BY <2>1 DEF IInv, StatusSound, ClosedAtEnd
  <2>3. \A s \in Streams : got[s] = output[s]
    BY <2>2 DEF IInv, Conserved, TypeOK, Zero
  <2> QED
    BY <2>3 DEF IInv, TypeOK
<1> QED
  BY <1>1, Invariant, PTL
=============================================================================
