---------------------------- MODULE CommandRunner ----------------------------
(***************************************************************************)
(* OSCommandRunner::run (command_runner.cpp): one external command, its     *)
(* standard output and error drained through two pipes by a poll loop, and   *)
(* its status collected by waitpid.                                         *)
(*                                                                         *)
(* The command is what the other end makes of it: it writes to either pipe   *)
(* in any order, blocks on a full one, dies of SIGPIPE on a closed one, and   *)
(* may leave behind a process that holds the write ends after it is gone.     *)
(***************************************************************************)
EXTENDS Integers

CONSTANTS
  Capacity,     \* what a pipe holds
  MaxOutput,    \* bound: what a command writes to a stream
  Interrupts,   \* a signal may interrupt poll
  Heirs,        \* a command may leave a process behind
  Unset         \* no result yet

ASSUME CapacityAssumption == Capacity \in Nat \ {0} /\ MaxOutput \in Nat
ASSUME FlagAssumption == Interrupts \in BOOLEAN /\ Heirs \in BOOLEAN
ASSUME UnsetAssumption == Unset \notin Int

Streams == {"out", "err"}
SigPipe == 128 + 13

VARIABLES
  \* the command
  output,       \* what it writes to each stream when it runs to its end
  left,         \* ... of which not written yet
  child,        \* "none", "running" or "gone"
  status,       \* its wait status, as the code that run makes of it
  holders,      \* the processes that hold the write ends
  \* between them
  pipe,         \* what is in each pipe
  \* run
  pc,
  open,         \* the streams whose read end is open: out_open, err_open
  ready,        \* the streams poll reported, not read yet in this round
  got,          \* result.out and result.err
  code,         \* result.code
  interrupted   \* the loop was left on an interrupted poll

command == <<output, left, child, status, holders>>
run == <<pc, open, ready, got, code, interrupted>>
vars == <<command, pipe, run>>

Zero == [s \in Streams |-> 0]

Init ==
  /\ output \in [Streams -> 0..MaxOutput] /\ left = output
  /\ child = "none" /\ status = Unset /\ holders = {}
  /\ pipe = Zero
  /\ pc = "spawn" /\ open = {} /\ ready = {} /\ got = Zero
  /\ code = Unset /\ interrupted = FALSE

-----------------------------------------------------------------------------
(* The command *)

Write(s) ==
  /\ child = "running" /\ left[s] > 0 /\ s \in open /\ pipe[s] < Capacity
  /\ left' = [left EXCEPT ![s] = @ - 1]
  /\ pipe' = [pipe EXCEPT ![s] = @ + 1]
  /\ UNCHANGED <<output, child, status, holders, run>>

Gone(st) ==
  /\ child = "running"
  /\ child' = "gone" /\ status' = st /\ holders' = holders \ {"child"}
  /\ UNCHANGED <<output, left, pipe, run>>

(* A command that succeeds has written all of its output; one that fails may  *)
(* have written any part of it.                                              *)
Succeed == left = Zero /\ Gone(0)
Fail == \E st \in {1, 127} : Gone(st)
BreakPipe == \E s \in Streams \ open : left[s] > 0 /\ Gone(SigPipe)

Bequeath ==
  /\ Heirs /\ child = "running" /\ holders = {"child"}
  /\ holders' = {"child", "heir"}
  /\ UNCHANGED <<output, left, child, status, pipe, run>>

HeirEnds ==
  /\ "heir" \in holders
  /\ holders' = holders \ {"heir"}
  /\ UNCHANGED <<output, left, child, status, pipe, run>>

Command == Succeed \/ BreakPipe \/ \E s \in Streams : Write(s)

-----------------------------------------------------------------------------
(* run *)

(* pipe or fork fails. *)
SpawnFails ==
  /\ pc = "spawn"
  /\ pc' = "done" /\ code' = -1
  /\ UNCHANGED <<command, pipe, open, ready, got, interrupted>>

Spawn ==
  /\ pc = "spawn"
  /\ child' = "running" /\ holders' = {"child"}
  /\ pc' = "poll" /\ open' = Streams
  /\ UNCHANGED <<output, left, status, pipe, ready, got, code, interrupted>>

(* POLLIN or POLLHUP. *)
Reported(s) == pipe[s] > 0 \/ holders = {}

PollOf(polled, reads) ==
  /\ pc = "poll" /\ polled # {}
  /\ \E s \in polled : Reported(s)
  /\ ready' = reads
  /\ pc' = "read"
  /\ UNCHANGED <<command, pipe, open, got, code, interrupted>>

First(S) == IF "out" \in S THEN {"out"} ELSE S

Poll_mutant_unasked == PollOf(open, open)
Poll_mutant_onebyone == PollOf(First(open), First(open))
Poll == PollOf(open, {s \in open : Reported(s)})

(* out is read before err; a read takes what it finds, at most a buffer, and   *)
(* an end of file closes the stream.                                         *)
Read(s) ==
  /\ pc = "read" /\ s \in First(ready)
  /\ IF pipe[s] > 0
       THEN \E n \in 1..pipe[s] :
              /\ got' = [got EXCEPT ![s] = @ + n]
              /\ pipe' = [pipe EXCEPT ![s] = @ - n]
              /\ UNCHANGED open
       ELSE /\ holders = {}
            /\ open' = open \ {s}
            /\ UNCHANGED <<got, pipe>>
  /\ ready' = ready \ {s}
  /\ pc' = IF ready' = {} THEN "poll" ELSE "read"
  /\ UNCHANGED <<command, code, interrupted>>

(* poll is not restarted after a signal handler: pr < 0 leaves the loop, and   *)
(* the read ends are closed with whatever is in the pipes.                    *)
PollInterrupted ==
  /\ Interrupts /\ pc = "poll" /\ open # {}
  /\ pc' = "wait" /\ open' = {} /\ interrupted' = TRUE
  /\ UNCHANGED <<command, pipe, ready, got, code>>

LeaveWhen(closed) ==
  /\ pc = "poll" /\ closed
  /\ pc' = "wait" /\ open' = {}
  /\ UNCHANGED <<command, pipe, ready, got, code, interrupted>>

LeaveLoop_mutant == LeaveWhen(open # Streams)
LeaveLoop == LeaveWhen(open = {})

Wait_mutant ==
  /\ pc = "wait"
  /\ code' = status /\ pc' = "done"
  /\ UNCHANGED <<command, pipe, open, ready, got, interrupted>>

Wait ==
  /\ pc = "wait" /\ child = "gone"
  /\ code' = status /\ pc' = "done"
  /\ UNCHANGED <<command, pipe, open, ready, got, interrupted>>

Run == \/ Spawn \/ Poll \/ LeaveLoop \/ Wait
       \/ \E s \in Streams : Read(s)

Next == Run \/ SpawnFails \/ PollInterrupted \/ Command \/ Fail \/ Bequeath \/ HeirEnds

Spec == Init /\ [][Next]_vars

(* The kernel schedules both ends; a command that may write writes, it never   *)
(* has to fail, and what it leaves behind does not live forever.             *)
FairSpec == Spec /\ WF_vars(Run) /\ WF_vars(Command) /\ WF_vars(HeirEnds)

-----------------------------------------------------------------------------
(* run has a result exactly when it has returned, and a command that was      *)
(* spawned has ended by then.                                                *)
TypeOK ==
  /\ output \in [Streams -> 0..MaxOutput] /\ left \in [Streams -> 0..MaxOutput]
  /\ child \in {"none", "running", "gone"}
  /\ status \in {Unset, 0, 1, 127, SigPipe}
  /\ holders \subseteq {"child", "heir"}
  /\ pipe \in [Streams -> 0..Capacity]
  /\ pc \in {"spawn", "poll", "read", "wait", "done"}
  /\ open \subseteq Streams /\ ready \subseteq Streams
  /\ got \in [Streams -> Nat]
  /\ code \in {Unset, -1, 0, 1, 127, SigPipe}
  /\ interrupted \in BOOLEAN
  /\ code # Unset <=> pc = "done"
  /\ child = "running" => pc \in {"poll", "read", "wait"}

(* converge_packages and describe trust the output of a command that exited    *)
(* 0: unless a signal cut the loop short, it is all that the command wrote.    *)
OutputComplete == code = 0 /\ ~interrupted => got = output

(* "drain stdout and stderr concurrently": a read the loop is about to make    *)
(* never waits for a process that may itself wait for the other pipe.          *)
ReadNeverBlocks == pc = "read" => \A s \in ready : Reported(s)

(* run returns, whatever the command writes where, once the command and what   *)
(* it left behind are gone.                                                  *)
RunReturns == <>(pc = "done")
=============================================================================
