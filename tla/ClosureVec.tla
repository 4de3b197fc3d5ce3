----------------------------- MODULE ClosureVec ------------------------------
(***************************************************************************)
(* vecs/src/closure_vec.rs: a stack of closures whose type is erased.  It  *)
(* is a FreestandingVec whose metadata is task_fn, the function that reads *)
(* a closure at the type of the last update_type, and runs or drops it.    *)
(*                                                                         *)
(* Closures panic at will while they run or are dropped.  The caller of a  *)
(* panicking call either catches the panic or unwinds and drops the vector *)
(* on its way; a panic while unwinding aborts the process.                 *)
(***************************************************************************)
EXTENDS Naturals, Sequences

CONSTANTS
  Types, HeaderSize, HeaderAlign, MaxLen, MaxInits,   \* as in FreestandingVec
  MaxPushes     \* bound: the closures that are pushed

VARIABLES
  ty, home, data, block, header, values, inits, drops, misuse, phase,   \* self.data
  task,       \* the closure type task_fn was compiled for
  pushed,     \* closures pushed so far; numbers them
  closures,   \* the closures in the vector
  consumed,   \* how often each closure has been run or dropped
  unwinding,  \* a panic is on its way through the owner of the vector
  pc          \* "idle", "clear", "drop", "field", "gone" or "aborted"

vecVars == <<ty, home, data, block, header, values, inits, drops, misuse, phase>>
vars == <<vecVars, task, pushed, closures, consumed, unwinding, pc>>

Vec == INSTANCE FreestandingVec

ASSUME ClosureAssumption == Vec!LegalLayouts /\ MaxPushes \in Nat
-----------------------------------------------------------------------------
(* ClosureVec::new *)
Init ==
  /\ Vec!Init /\ task = ty
  /\ pushed = 0 /\ closures = <<>> /\ consumed = [c \in 1..MaxPushes |-> 0]
  /\ unwinding = FALSE /\ pc = "idle"

(* from_raw(into_raw()) or a pointer cast. *)
Cast(T) ==
  /\ pc = "idle" /\ Vec!Cast(T)
  /\ UNCHANGED <<task, pushed, closures, consumed, unwinding, pc>>

(* Mutant: update_type keeps the metadata of the old type. *)
OldTask == task

TaskOf == ty

(* update_type: a function pointer does not panic when it is dropped. *)
UpdateType(k) ==
  /\ pc = "idle"
  /\ Vec!InitRealigns(k) \/ Vec!InitReuses(k)
  /\ task' = TaskOf
  /\ UNCHANGED <<pushed, closures, consumed, unwinding, pc>>

PushClosure ==
  /\ pc = "idle" /\ pushed < MaxPushes /\ Vec!Push
  /\ pushed' = pushed + 1 /\ closures' = Append(closures, pushed')
  /\ UNCHANGED <<task, consumed, unwinding, pc>>

Top == closures[Len(closures)]
Consumed == consumed' = [consumed EXCEPT ![Top] = @ + 1]

(* Mutant: the closure is taken out of the vector when the call returns. *)
TakeAfterCall(panics) ==
  /\ closures # <<>>
  /\ IF panics THEN UNCHANGED <<vecVars, closures>>
               ELSE Vec!Pop /\ closures' = SubSeq(closures, 1, Len(closures) - 1)
  /\ Consumed
  /\ UNCHANGED <<task, pushed>>

(* pop_and_run_: the vector has let go of the closure when task_fn reads   *)
(* it, whether the call panics or not.                                     *)
Take(panics) ==
  /\ closures # <<>> /\ Vec!Pop
  /\ closures' = SubSeq(closures, 1, Len(closures) - 1) /\ Consumed
  /\ UNCHANGED <<task, pushed>>

(* A panic leaves a call of the owner's: it is caught, or the vector is    *)
(* dropped on the way.                                                     *)
Panics == \/ pc' = "idle" /\ UNCHANGED unwinding
          \/ pc' = "drop" /\ unwinding' = TRUE

(* A call at the owner's hands takes one closure; clear takes the next one *)
(* as long as none panics.                                                 *)
TakeInCall(at, panics) ==
  /\ pc = at /\ Take(panics)
  /\ IF panics THEN Panics ELSE UNCHANGED <<pc, unwinding>>

PopAndRun(panics) == TakeInCall("idle", panics)
ClearOne(panics) == TakeInCall("clear", panics)

Goto(from, to) ==
  /\ pc = from /\ pc' = to
  /\ UNCHANGED <<vecVars, task, pushed, closures, consumed, unwinding>>

BeginClear == Goto("idle", "clear")
EndClear == closures = <<>> /\ Goto("clear", "idle")

(* The vector goes out of scope. *)
BeginDrop == Goto("idle", "drop")

(* The turns of clear in ClosureVec::drop.  A panic ends it, and unwinding *)
(* goes on with the field.                                                 *)
DropOne(panics) ==
  /\ pc = "drop" /\ Take(panics)
  /\ CASE panics /\ unwinding -> pc' = "aborted" /\ UNCHANGED unwinding
       [] panics /\ ~unwinding -> pc' = "field" /\ unwinding' = TRUE
       [] OTHER -> UNCHANGED <<pc, unwinding>>

(* Mutant: drop does not clear the vector. *)
DoNotClear == TRUE

DropDone == closures = <<>>

EndDrop == DropDone /\ Goto("drop", "field")

(* The field is dropped in turn, with whatever is left in it.  (Debug      *)
(* builds assert that nothing is, freestanding_vec.rs:260.)                *)
DropField ==
  /\ pc = "field" /\ pc' = "gone" /\ Vec!Drop
  /\ UNCHANGED <<task, pushed, closures, consumed, unwinding>>

Finished == pc \in {"gone", "aborted"} /\ UNCHANGED vars

Next == \/ \E T \in Types : Cast(T)
        \/ \E k \in 1..MaxInits : UpdateType(k)
        \/ PushClosure
        \/ \E p \in BOOLEAN : PopAndRun(p) \/ ClearOne(p) \/ DropOne(p)
        \/ BeginClear \/ EndClear \/ BeginDrop \/ EndDrop \/ DropField
        \/ Finished

Spec == Init /\ [][Next]_vars
-----------------------------------------------------------------------------
(* Every closure that is no longer in the vector has been run or dropped   *)
(* exactly once, panic or not; none that is still in it has                *)
(* (closure_vec.rs:19-24 and 69-75).                                       *)
ConsumedOnce ==
  \A c \in 1..pushed :
    consumed[c] = IF \E i \in 1..Len(closures) : closures[i] = c THEN 0 ELSE 1

(* task_fn reads every closure of the vector at the type it was written    *)
(* with, whatever type the vector is held under, and finds it at the       *)
(* address pop computes (closure_vec.rs:18-27 and 69-75).                  *)
TaskFits ==
  phase = "held" =>
    /\ Len(values) = Len(closures)
    /\ \A i \in 1..Len(values) : values[i].type = task
    /\ closures # <<>> => Vec!PopAddress = values[Len(values)].at

(* A vector that is gone has given its block back, with the layout of its  *)
(* allocation, and has run or dropped all its closures unless one of them  *)
(* panicked on the way (closure_vec.rs:89-93 and freestanding_vec.rs:60).  *)
LeaksOnlyOnPanic ==
  pc = "gone" => /\ block = Vec!NoBlock /\ ~misuse
                 /\ closures # <<>> => unwinding
==============================================================================
