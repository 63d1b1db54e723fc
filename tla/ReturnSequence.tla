--------------------------- MODULE ReturnSequence ---------------------------
(***************************************************************************)
(* Sequence(...).Then(...).Times(n), the results that a mock returns one   *)
(* after the other (src/mock_sequence.go), taken by several goroutines     *)
(* that call the mocked function.                                          *)
(*                                                                         *)
(* A value of the sequence is its position: what matters is how often each *)
(* is handed out, in which order and to whom.  The test builds the         *)
(* sequence, which may be empty, before it mocks with it; Then and Times   *)
(* take no lock.                                                           *)
(***************************************************************************)
EXTENDS Naturals, Sequences

CONSTANTS
  Callers,    \* goroutines that call the mocked function
  MaxValues,  \* bound: length of the sequence
  MaxRepeat,  \* bound: the argument of Times
  MaxServed,  \* bound: values handed out
  Nobody      \* the holder of a free lock

ASSUME CallersAssumption == Nobody \notin Callers
ASSUME SequenceBounds ==
  MaxValues \in Nat /\ MaxRepeat \in Nat \ {0} /\ MaxServed \in Nat

VARIABLES
  values,    \* sequence.values: how often each value is to be returned
  curV,      \* counts from 0, as in the code
  curT,
  readLock,
  mocked,    \* the sequence is finished and in use
  pc,
  seqV,      \* local to GetNext: the value read
  served     \* history: the values handed out, in the order they were read

vars == <<values, curV, curT, readLock, mocked, pc, seqV, served>>

Init ==
  /\ values = <<>> /\ curV = 0 /\ curT = 0
  /\ readLock = Nobody
  /\ mocked = FALSE
  /\ pc = [c \in Callers |-> "idle"]
  /\ seqV = [c \in Callers |-> 0]
  /\ served = <<>>

\* Sequence(v) and Then(v); Sequence() leaves the sequence empty.
Then ==
  /\ ~mocked /\ Len(values) < MaxValues
  /\ values' = Append(values, 1)
  /\ UNCHANGED <<curV, curT, readLock, mocked, pc, seqV, served>>

\* Times(t) repeats the last value; t < 1 is refused.
Times(t) ==
  /\ ~mocked /\ values # <<>> /\ t > 0
  /\ values' = [values EXCEPT ![Len(values)] = t]
  /\ UNCHANGED <<curV, curT, readLock, mocked, pc, seqV, served>>

Build ==
  /\ ~mocked
  /\ mocked' = TRUE
  /\ UNCHANGED <<values, curV, curT, readLock, pc, seqV, served>>

-----------------------------------------------------------------------------
(* GetNext.                                                                *)

Call(c) ==
  /\ mocked /\ pc[c] = "idle" /\ Len(served) < MaxServed
  /\ pc' = [pc EXCEPT ![c] = "locking"]
  /\ UNCHANGED <<values, curV, curT, readLock, mocked, seqV, served>>

\* Mutant: no lock.
DoesNotLock(c) ==
  /\ pc[c] = "locking"
  /\ readLock' = c
  /\ pc' = [pc EXCEPT ![c] = "locked"]
  /\ UNCHANGED <<values, curV, curT, mocked, seqV, served>>

Lock(c) ==
  /\ pc[c] = "locking"
  /\ readLock = Nobody
  /\ readLock' = c
  /\ pc' = [pc EXCEPT ![c] = "locked"]
  /\ UNCHANGED <<values, curV, curT, mocked, seqV, served>>

\* The assertion panics with the lock held, and nothing releases it.
Panic(c) ==
  /\ pc[c] = "locked" /\ values = <<>>
  /\ pc' = [pc EXCEPT ![c] = "panicked"]
  /\ UNCHANGED <<values, curV, curT, readLock, mocked, seqV, served>>

Read(c) ==
  /\ pc[c] = "locked" /\ values # <<>>
  /\ seqV' = [seqV EXCEPT ![c] = curV]
  /\ served' = Append(served, curV)
  /\ pc' = [pc EXCEPT ![c] = "read"]
  /\ UNCHANGED <<values, curV, curT, readLock, mocked>>

\* The count of the value that was read decides; the index moves on.
Advance(c) ==
  /\ pc[c] = "read"
  /\ IF curT + 1 >= values[seqV[c] + 1]
       THEN /\ curT' = 0
            /\ curV' = IF curV + 1 >= Len(values) THEN 0 ELSE curV + 1
       ELSE /\ curT' = curT + 1
            /\ UNCHANGED curV
  /\ pc' = [pc EXCEPT ![c] = "unlocking"]
  /\ UNCHANGED <<values, readLock, mocked, seqV, served>>

\* Mutant: the lock is kept.
KeepsLock(c) ==
  /\ pc[c] = "unlocking"
  /\ pc' = [pc EXCEPT ![c] = "idle"]
  /\ UNCHANGED <<values, curV, curT, readLock, mocked, seqV, served>>

Unlock(c) ==
  /\ pc[c] = "unlocking"
  /\ readLock' = Nobody
  /\ pc' = [pc EXCEPT ![c] = "idle"]
  /\ UNCHANGED <<values, curV, curT, mocked, seqV, served>>

GetNext(c) == Lock(c) \/ Panic(c) \/ Read(c) \/ Advance(c) \/ Unlock(c)

Next ==
  \/ Then \/ Build \/ \E t \in 1..MaxRepeat : Times(t)
  \/ \E c \in Callers : Call(c) \/ GetNext(c)

Spec == Init /\ [][Next]_vars

\* A goroutine that calls is scheduled, and sync.Mutex hands itself to a
\* goroutine that keeps waiting for it.
FairSpec == Spec /\ \A c \in Callers : WF_vars(GetNext(c)) /\ SF_vars(Lock(c))

-----------------------------------------------------------------------------
TypeOK ==
  /\ values \in Seq(1..MaxRepeat)
  /\ curV \in Nat /\ curT \in Nat
  /\ values # <<>> => curV < Len(values) /\ curT < MaxRepeat
  /\ readLock \in Callers \cup {Nobody}
  /\ mocked \in BOOLEAN
  /\ pc \in [Callers ->
       {"idle", "locking", "locked", "panicked", "read", "unlocking"}]
  /\ seqV \in [Callers -> 0..MaxValues]
  /\ served \in Seq(0..MaxValues)

\* What the fluent calls spell out: each value as often as its Times says, after
\* all those of the values before it.
Before[i \in 0..Len(values)] == IF i = 0 THEN 0 ELSE Before[i - 1] + values[i]
OneRound ==
  [n \in 1..Before[Len(values)] |->
     CHOOSE i \in 0..(Len(values) - 1) : n \in (Before[i] + 1)..Before[i + 1]]

\* Whoever calls, the values are handed out in the order of the sequence and
\* as often as it says, and after the last the first comes again
\* (mock_sequence_test.go:81-89, with one caller only).
ServedInOrder ==
  TypeOK /\ \A n \in 1..Len(served) :
    served[n] = OneRound[((n - 1) % Len(OneRound)) + 1]

\* A call that wants a value waits for the lock no longer than others hold it,
\* and returns.
ValuesComeRound ==
  \A c \in Callers : values # <<>> /\ pc[c] = "locking" ~> pc[c] = "idle"

\* A call of a mock with an empty sequence panics with "sequence is empty", as
\* mock_sequence_test.go:127 expects of the one call it makes.
EmptySequencePanics ==
  \A c \in Callers :
    values = <<>> /\ pc[c] = "locking" ~> pc[c] = "panicked"
=============================================================================
