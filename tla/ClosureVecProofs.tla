-------------------------- MODULE ClosureVecProofs ---------------------------
(* Proofs about ClosureVec, on top of those about the vector it owns. *)
EXTENDS ClosureVec, Integers, SequenceTheorems, TLAPS

VP == INSTANCE FreestandingVecProofs

(* Vec and VP define the same actions. *)
LEMMA Same ==
  /\ Vec!Init <=> VP!Init
  /\ \A T : Vec!Cast(T) <=> VP!Cast(T)
  /\ Vec!Push <=> VP!Push
  /\ Vec!Pop <=> VP!Pop
  /\ \A k : Vec!InitRealigns(k) <=> VP!InitRealigns(k)
  /\ \A k : Vec!InitReuses(k) <=> VP!InitReuses(k)
  /\ Vec!Drop <=> VP!Drop
  /\ Vec!IsAllocated <=> VP!IsAllocated
  /\ Vec!PopAddress = VP!PopAddress
  <1>. USE DEF Vec!Block, VP!Block, Vec!NoBlock, VP!NoBlock, Vec!NoType, VP!NoType,
               Vec!Larger, VP!Larger, Vec!RoundUp, VP!RoundUp,
               Vec!SpaceAlign, VP!SpaceAlign, Vec!SpaceSize, VP!SpaceSize,
               Vec!MinNonZeroCap, VP!MinNonZeroCap, Vec!Dangling, VP!Dangling,
               Vec!IsAllocated, VP!IsAllocated, Vec!RequiredCap, VP!RequiredCap,
               Vec!Reserved, VP!Reserved, Vec!Reserve, VP!Reserve,
               Vec!DropMetadata, VP!DropMetadata, Vec!Deallocate, VP!Deallocate,
               Vec!FreshHeader, VP!FreshHeader, Vec!PushAddress, VP!PushAddress,
               Vec!PopBase, VP!PopBase, Vec!PopAddress, VP!PopAddress,
               Vec!MustRealign, VP!MustRealign, Vec!BeginInit, VP!BeginInit,
               Vec!Allocate, VP!Allocate, Vec!ReplacedByInit, VP!ReplacedByInit
  <1>1. Vec!Init <=> VP!Init
    BY DEF Vec!Init, VP!Init
  <1>2. \A T : Vec!Cast(T) <=> VP!Cast(T)
    BY DEF Vec!Cast, VP!Cast
  <1>3. Vec!Push <=> VP!Push
    BY DEF Vec!Push, VP!Push
  <1>4. Vec!Pop <=> VP!Pop
    BY DEF Vec!Pop, VP!Pop
  <1>5. \A k : Vec!InitRealigns(k) <=> VP!InitRealigns(k)
    BY DEF Vec!InitRealigns, VP!InitRealigns
  <1>6. \A k : Vec!InitReuses(k) <=> VP!InitReuses(k)
    BY DEF Vec!InitReuses, VP!InitReuses
  <1>7. Vec!Drop <=> VP!Drop
    BY DEF Vec!Drop, VP!Drop
  <1>8. Vec!IsAllocated <=> VP!IsAllocated
    OBVIOUS
  <1>9. Vec!PopAddress = VP!PopAddress
    OBVIOUS
  <1>. QED
    BY <1>1, <1>2, <1>3, <1>4, <1>5, <1>6, <1>7, <1>8, <1>9

LEMMA Legal == VP!LegalLayouts
  BY ClosureAssumption DEF Vec!LegalLayouts, VP!LegalLayouts
-----------------------------------------------------------------------------
(* A closure is in the vector. *)
Held(c) == \E i \in 1..Len(closures) : closures[i] = c

(* The closures in the vector are distinct and as many as its values; all  *)
(* the others that were pushed have been consumed.                         *)
Stack ==
  /\ pushed \in 0..MaxPushes /\ closures \in Seq(1..pushed) /\ Len(closures) = Len(values)
  /\ \A i, j \in 1..Len(closures) : closures[i] = closures[j] => i = j
  /\ consumed \in [1..MaxPushes -> Nat]
  /\ \A c \in 1..MaxPushes : consumed[c] = IF c > pushed \/ Held(c) THEN 0 ELSE 1

(* Where the owner is, and what the vector is by then. *)
Control ==
  /\ pc \in {"idle", "clear", "drop", "field", "gone", "aborted"} /\ unwinding \in BOOLEAN
  /\ phase = IF pc = "gone" THEN "dropped" ELSE "held"
  /\ home # VP!NoType <=> pc # "gone"
  /\ pc \in {"field", "gone"} /\ closures # <<>> => unwinding

Inv ==
  /\ VP!Inv
  /\ Stack
  /\ Control
  /\ home # VP!NoType => task = home

(* What each step does to the vector. *)
LEMMA VecStep ==
  ASSUME Inv, [Next]_vars
  PROVE  VP!Inv'
  <1>0. VP!Inv /\ VP!LegalLayouts
    BY Legal DEF Inv
  <1>1. ASSUME NEW T \in Types, VP!Cast(T) PROVE VP!Inv'
    BY <1>0, <1>1, VP!CastStep
  <1>2. VP!Push => VP!Inv'
    BY <1>0, VP!PushStep
  <1>3. VP!Pop => VP!Inv'
    BY <1>0, VP!PopStep
  <1>4. ASSUME phase = "held", NEW k \in 1..MaxInits, VP!InitRealigns(k) \/ VP!InitReuses(k)
        PROVE  VP!Inv'
    BY <1>0, <1>4, VP!InitStep
  <1>5. VP!Drop => VP!Inv'
    BY <1>0, VP!DropStep
  <1>6. UNCHANGED vecVars => VP!Inv'
    BY <1>0, VP!Stutter DEF vecVars, VP!vars
  <1>7. CASE Next
    <2>1. ASSUME NEW T \in Types, Cast(T) PROVE VP!Inv'
      BY <1>1, <2>1, Same DEF Cast
    <2>2. ASSUME NEW k \in 1..MaxInits, UpdateType(k) PROVE VP!Inv'
      <3>1. phase = "held"
        BY <2>2 DEF Inv, Control, UpdateType
      <3>. QED
        BY <1>4, <2>2, <3>1, Same DEF UpdateType
    <2>3. CASE PushClosure
      BY <1>2, <2>3, Same DEF PushClosure
    <2>4. ASSUME NEW p \in BOOLEAN, PopAndRun(p) \/ ClearOne(p) \/ DropOne(p) PROVE VP!Inv'
      BY <1>3, <2>4, Same DEF PopAndRun, ClearOne, DropOne, TakeInCall, Take
    <2>5. CASE BeginClear \/ EndClear \/ BeginDrop \/ EndDrop \/ Finished
      BY <1>6, <2>5 DEF BeginClear, EndClear, BeginDrop, EndDrop, Goto, Finished, vars
    <2>6. CASE DropField
      BY <1>5, <2>6, Same DEF DropField
    <2>. QED
      BY <1>7, <2>1, <2>2, <2>3, <2>4, <2>5, <2>6 DEF Next
  <1>8. CASE UNCHANGED vars
    BY <1>6, <1>8 DEF vars
  <1>. QED
    BY <1>7, <1>8

(* The length in the header is that of the values. *)
LEMMA VecLength ==
  ASSUME VP!Inv
  PROVE  /\ home # VP!NoType => header.len = Len(values) /\ Len(values) \in Nat
         /\ home \in Types \cup {VP!NoType} /\ values \in Seq([at : Nat, type : Types])
         /\ \A T \in Types : T # VP!NoType
         /\ block # VP!NoBlock <=> home # VP!NoType
         /\ home # VP!NoType => VP!IsAllocated
         /\ ~misuse
  <1>1. VP!LegalLayouts /\ VP!TypeOK
    BY Legal DEF VP!Inv
  <1>2. VP!PopsWhatWasPushed
    BY <1>1, VP!SameAddress
  <1>3. \A T \in Types : T # VP!NoType
    BY <1>1, VP!Nones
  <1>4. home # VP!NoType => VP!IsAllocated
    BY <1>1, VP!Allocated
  <1>. QED
    BY <1>1, <1>2, <1>3, <1>4 DEF VP!Inv, VP!TypeOK, VP!PopsWhatWasPushed

(* push: one closure more, and one value more. *)
LEMMA PushStack ==
  ASSUME Inv, PushClosure, VP!Inv'
  PROVE  Stack' /\ home' = home /\ closures' # <<>>
  <1>1. /\ pushed < MaxPushes /\ pushed' = pushed + 1 /\ closures' = Append(closures, pushed + 1)
        /\ UNCHANGED consumed
        /\ ty = home /\ UNCHANGED home /\ header'.len = header.len + 1
    <2>1. VP!Push
      BY Same DEF PushClosure
    <2>2. header'.len = header.len + 1
      BY <2>1 DEF VP!Push, Inv, VP!Inv, VP!TypeOK
    <2>. QED
      BY <2>1, <2>2 DEF PushClosure, VP!Push
  <1>2. /\ pushed \in 0..MaxPushes /\ closures \in Seq(1..pushed) /\ Len(closures) \in Nat
        /\ MaxPushes \in Nat /\ Len(closures) = Len(values)
        /\ \A i \in 1..Len(closures) : closures[i] \in 1..pushed
    BY ClosureAssumption, LenProperties, ElementOfSeq DEF Inv, Stack
  <1>3. Len(values') = Len(values) + 1
    <2>1. home # VP!NoType /\ home' # VP!NoType
      BY <1>1 DEF Inv, Control, PushClosure
    <2>2. header.len = Len(values) /\ header'.len = Len(values')
      BY <2>1 DEF Inv, VP!Inv, VP!Described
    <2>. QED
      BY <1>1, <2>2
  <1>4. /\ closures' \in Seq(1..(pushed + 1)) /\ Len(closures') = Len(closures) + 1
        /\ \A i \in 1..Len(closures) : closures'[i] = closures[i]
        /\ closures'[Len(closures) + 1] = pushed + 1
    <2>. DEFINE S == 1..(pushed + 1)
    <2>1. pushed + 1 \in S /\ \A i \in 1..Len(closures) : closures[i] \in S
      BY <1>2
    <2>2. closures \in Seq(S)
      <3>1. 1..pushed \subseteq S
        BY <1>2
      <3>. HIDE DEF S
      <3>. QED
        BY <1>2, <3>1
    <2>. HIDE DEF S
    <2>3. /\ closures' \in Seq(S) /\ Len(closures') = Len(closures) + 1
          /\ \A i \in 1..Len(closures) : closures'[i] = closures[i]
          /\ closures'[Len(closures) + 1] = pushed + 1
      BY <1>1, <2>1, <2>2, AppendProperties
    <2>. QED
      BY <2>3 DEF S
  <1>5. \A c \in 1..MaxPushes : Held(c)' <=> Held(c) \/ c = pushed + 1
    <2>1. 1..Len(closures') = 1..Len(closures) \cup {Len(closures) + 1}
      BY <1>2, <1>4
    <2>. QED
      BY <1>4, <2>1 DEF Held
  <1>6. \A i, j \in 1..Len(closures') : closures'[i] = closures'[j] => i = j
    <2>1. \A i \in 1..Len(closures') : i \in 1..Len(closures) \/ i = Len(closures) + 1
      BY <1>2, <1>4
    <2>2. \A i, j \in 1..Len(closures) : closures[i] = closures[j] => i = j
      BY DEF Inv, Stack
    <2>3. \A i \in 1..Len(closures) : closures[i] # pushed + 1
      BY <1>2
    <2>. QED
      BY <1>4, <2>1, <2>2, <2>3
  <1>7. \A c \in 1..MaxPushes : consumed'[c] = IF c > pushed' \/ Held(c)' THEN 0 ELSE 1
    <2>1. \A c \in 1..MaxPushes : consumed[c] = IF c > pushed \/ Held(c) THEN 0 ELSE 1
      BY DEF Inv, Stack
    <2>2. \A c \in 1..MaxPushes : c > pushed <=> c > pushed + 1 \/ c = pushed + 1
      BY <1>2
    <2>. QED
      BY <1>1, <1>5, <2>1, <2>2
  <1>8. Stack'
    <2>1. pushed' \in 0..MaxPushes /\ Len(closures') = Len(values')
      BY <1>1, <1>2, <1>3, <1>4
    <2>2. closures' \in Seq(1..pushed') /\ consumed' \in [1..MaxPushes -> Nat]
      BY <1>1, <1>4 DEF Inv, Stack
    <2>. QED
      BY <1>6, <1>7, <2>1, <2>2 DEF Stack
  <1>9. Len(closures') # 0
    BY <1>2, <1>4
  <1>. QED
    BY <1>1, <1>8, <1>9, EmptySeq

(* pop_and_run_: the last closure is gone and consumed once. *)
LEMMA TakeStack ==
  ASSUME Inv, NEW p, Take(p), VP!Inv'
  PROVE  Stack' /\ UNCHANGED <<home, phase, task>>
  <1>1. /\ closures # <<>> /\ closures' = SubSeq(closures, 1, Len(closures) - 1)
        /\ consumed' = [consumed EXCEPT ![Top] = @ + 1]
        /\ home # VP!NoType /\ UNCHANGED <<home, phase, task, pushed>>
        /\ header'.len = header.len - 1
    <2>1. VP!Pop
      BY Same DEF Take
    <2>2. header'.len = header.len - 1
      BY <2>1 DEF VP!Pop, Inv, VP!Inv, VP!TypeOK
    <2>3. home # VP!NoType
      BY <2>1 DEF VP!Pop, Inv, VP!Inv
    <2>. QED
      BY <2>1, <2>2, <2>3 DEF Take, Consumed, VP!Pop
  <1>2. /\ pushed \in 0..MaxPushes /\ closures \in Seq(1..pushed) /\ Len(closures) \in Nat \ {0}
        /\ MaxPushes \in Nat /\ Len(closures) = Len(values)
        /\ \A i \in 1..Len(closures) : closures[i] \in 1..pushed
        /\ \A i, j \in 1..Len(closures) : closures[i] = closures[j] => i = j
        /\ consumed \in [1..MaxPushes -> Nat]
        /\ \A c \in 1..MaxPushes : consumed[c] = IF c > pushed \/ Held(c) THEN 0 ELSE 1
    <2>1. closures \in Seq(1..pushed)
      BY DEF Inv, Stack
    <2>2. Len(closures) \in Nat \ {0} /\ \A i \in 1..Len(closures) : closures[i] \in 1..pushed
      BY <1>1, <2>1, EmptySeq, LenProperties, ElementOfSeq
    <2>. QED
      BY <2>1, <2>2, ClosureAssumption DEF Inv, Stack
  <1>3. Len(values') = Len(values) - 1
    <2>1. header.len = Len(values) /\ header'.len = Len(values')
      BY <1>1 DEF Inv, VP!Inv, VP!Described
    <2>. QED
      BY <1>1, <2>1
  <1>4. /\ closures' \in Seq(1..pushed) /\ Len(closures') = Len(closures) - 1
        /\ \A i \in 1..Len(closures') : closures'[i] = closures[i]
    <2>. DEFINE S == 1..pushed
    <2>1. closures \in Seq(S)
      BY <1>2
    <2>. HIDE DEF S
    <2>2. /\ closures' \in Seq(S) /\ Len(closures') = Len(closures) - 1
          /\ \A i \in 1..Len(closures') : closures'[i] = closures[i]
      BY <1>1, <2>1, Legal, VP!WithoutLast
    <2>. QED
      BY <2>2 DEF S
  <1>5. 1..Len(closures) = 1..Len(closures') \cup {Len(closures)} /\ Len(closures) \notin 1..Len(closures')
    BY <1>2, <1>4
  <1>6. Top \in 1..MaxPushes /\ Top <= pushed /\ Held(Top)
    BY <1>2 DEF Top, Held
  <1>7. \A c \in 1..MaxPushes : Held(c)' <=> Held(c) /\ c # Top
    <2>. DEFINE n == Len(closures)
                D == 1..Len(closures')
    <2>1. /\ 1..n = D \cup {n} /\ n \notin D /\ \A i \in D : closures'[i] = closures[i]
          /\ \A i, j \in 1..n : closures[i] = closures[j] => i = j
      BY <1>2, <1>4, <1>5
    <2>. HIDE DEF n, D
    <2>2. \A c : (\E i \in D : closures'[i] = c) <=> (\E i \in 1..n : closures[i] = c) /\ c # closures[n]
      BY <2>1
    <2>. QED
      BY <2>2 DEF Held, Top, n, D
  <1>8. \A c \in 1..MaxPushes : consumed'[c] = IF c > pushed' \/ Held(c)' THEN 0 ELSE 1
    <2>1. consumed[Top] = 0 /\ consumed'[Top] = 1 /\ ~(Top > pushed)
      <3>1. ~(Top > pushed)
        BY <1>2, <1>6
      <3>2. consumed[Top] = 0
        BY <1>2, <1>6
      <3>. QED
        BY <1>1, <1>2, <1>6, <3>1, <3>2
    <2>2. \A c \in 1..MaxPushes : c # Top => consumed'[c] = consumed[c]
      BY <1>1, <1>2
    <2>. QED
      BY <1>1, <1>2, <1>7, <2>1, <2>2
  <1>9. Stack'
    <2>1. consumed' \in [1..MaxPushes -> Nat]
      BY <1>1, <1>2, <1>6
    <2>2. \A i, j \in 1..Len(closures') : closures'[i] = closures'[j] => i = j
      BY <1>2, <1>4, <1>5
    <2>3. Len(closures') = Len(values') /\ pushed' \in 0..MaxPushes /\ closures' \in Seq(1..pushed')
      BY <1>1, <1>2, <1>3, <1>4
    <2>. QED
      BY <1>8, <2>1, <2>2, <2>3 DEF Stack
  <1>. QED
    BY <1>1, <1>9
-----------------------------------------------------------------------------
LEMMA InitInv == Init => Inv
  <1>. SUFFICES ASSUME Init PROVE Inv
    OBVIOUS
  <1>1. /\ VP!Init /\ task = ty /\ pushed = 0 /\ closures = <<>>
        /\ consumed = [c \in 1..MaxPushes |-> 0] /\ unwinding = FALSE /\ pc = "idle"
    BY Same DEF Init
  <1>2. VP!Inv
    BY <1>1, Legal, VP!InitInv
  <1>3. home = ty /\ ty \in Types /\ values = <<>> /\ phase = "held" /\ home # VP!NoType
    BY <1>1, <1>2, VecLength DEF VP!Init
  <1>4. Stack
    <2>1. MaxPushes \in Nat /\ closures \in Seq(1..pushed) /\ Len(closures) = 0
      BY <1>1, ClosureAssumption, EmptySeq
    <2>2. \A c \in 1..MaxPushes : c > pushed
      BY <1>1, <2>1
    <2>. QED
      BY <1>1, <1>3, <2>1, <2>2 DEF Stack
  <1>5. Control
    BY <1>1, <1>3 DEF Control
  <1>. QED
    BY <1>1, <1>2, <1>3, <1>4, <1>5 DEF Inv

(* A step that leaves vector and closures alone. *)
LEMMA Quiet ==
  ASSUME Inv, UNCHANGED <<home, phase, values, task, pushed, closures, consumed>>
  PROVE  /\ Stack'
         /\ home' # VP!NoType => task' = home'
         /\ phase' = IF pc = "gone" THEN "dropped" ELSE "held"
         /\ home' # VP!NoType <=> pc # "gone"
  <1>1. Stack' <=> Stack
    BY DEF Stack, Held
  <1>. QED
    BY <1>1 DEF Inv, Control

(* A closure is taken at one of the places of the owner. *)
LEMMA TakeStep ==
  ASSUME Inv, NEW p \in BOOLEAN, PopAndRun(p) \/ ClearOne(p) \/ DropOne(p), VP!Inv'
  PROVE  Inv'
  <1>1. Take(p) /\ pc \in {"idle", "clear", "drop"}
    BY DEF PopAndRun, ClearOne, DropOne, TakeInCall
  <1>2. Stack' /\ UNCHANGED <<home, phase, task>>
    BY <1>1, TakeStack
  <1>3. /\ pc' \in {"idle", "clear", "drop", "field", "aborted"} /\ unwinding' \in BOOLEAN
        /\ pc' = "field" => unwinding'
    BY <1>1 DEF PopAndRun, ClearOne, DropOne, TakeInCall, Panics, Inv, Control
  <1>4. Control'
    BY <1>1, <1>2, <1>3 DEF Inv, Control
  <1>. QED
    BY <1>2, <1>4 DEF Inv

LEMMA InvStep == Inv /\ [Next]_vars => Inv'
  <1>. SUFFICES ASSUME Inv, [Next]_vars PROVE Inv'
    OBVIOUS
  <1>0. VP!Inv'
    BY VecStep
  <1>1. ASSUME NEW T \in Types, Cast(T) PROVE Inv'
    <2>1. /\ UNCHANGED <<home, phase, values, task, pushed, closures, consumed, unwinding, pc>>
          /\ pc = "idle"
      BY <1>1 DEF Cast, Vec!Cast
    <2>. QED
      BY <1>0, <2>1, Quiet DEF Inv, Control
  <1>2. ASSUME NEW k \in 1..MaxInits, UpdateType(k) PROVE Inv'
    <2>1. /\ pc = "idle" /\ task' = ty /\ home' = ty
          /\ UNCHANGED <<phase, values, pushed, closures, consumed, unwinding, pc>>
      BY <1>2 DEF UpdateType, TaskOf, Vec!InitRealigns, Vec!InitReuses, Vec!BeginInit, Vec!Allocate
    <2>2. ty \in Types /\ ty # VP!NoType
      BY VecLength DEF Inv, VP!Inv, VP!TypeOK
    <2>3. Stack' <=> Stack
      BY <2>1 DEF Stack, Held
    <2>. QED
      BY <1>0, <2>1, <2>2, <2>3 DEF Inv, Control
  <1>3. CASE PushClosure
    <2>1. pc = "idle" /\ UNCHANGED <<phase, task, unwinding, pc>>
      BY <1>3 DEF PushClosure, Vec!Push
    <2>. QED
      BY <1>0, <1>3, <2>1, PushStack DEF Inv, Control
  <1>4. ASSUME NEW p \in BOOLEAN, PopAndRun(p) \/ ClearOne(p) \/ DropOne(p) PROVE Inv'
    BY <1>0, <1>4, TakeStep
  <1>5. CASE BeginClear \/ EndClear \/ BeginDrop \/ EndDrop
    <2>1. /\ UNCHANGED <<home, phase, values, task, pushed, closures, consumed, unwinding>>
          /\ pc # "gone" /\ pc' \in {"idle", "clear", "drop", "field"}
          /\ pc' = "field" => closures = <<>>
      BY <1>5 DEF BeginClear, EndClear, BeginDrop, EndDrop, DropDone, Goto, vecVars
    <2>. QED
      BY <1>0, <2>1, Quiet DEF Inv, Control
  <1>6. CASE DropField
    <2>1. /\ pc = "field" /\ pc' = "gone" /\ phase' = "dropped"
          /\ UNCHANGED <<values, task, pushed, closures, consumed, unwinding>>
          /\ Vec!IsAllocated => home' = Vec!NoType
      BY <1>6 DEF DropField, Vec!Drop
    <2>2. home' = VP!NoType
      BY <2>1, Same, VecLength DEF Inv, Control, Vec!NoType, VP!NoType
    <2>3. Stack' <=> Stack
      BY <2>1 DEF Stack, Held
    <2>. QED
      BY <1>0, <2>1, <2>2, <2>3 DEF Inv, Control
  <1>7. CASE Finished \/ UNCHANGED vars
    <2>1. UNCHANGED <<home, phase, values, task, pushed, closures, consumed, unwinding, pc>>
      BY <1>7 DEF Finished, vars, vecVars
    <2>. QED
      BY <1>0, <2>1, Quiet DEF Inv, Control
  <1>. QED
    BY <1>1, <1>2, <1>3, <1>4, <1>5, <1>6, <1>7 DEF Next

LEMMA Invariance == Spec => []Inv
  BY InitInv, InvStep, PTL DEF Spec
-----------------------------------------------------------------------------
(* A closure that has left the vector has been run or dropped exactly      *)
(* once, and none that is in it has, whichever of them panic               *)
(* (closure_vec.rs:19-24 and 69-75).                                       *)
THEOREM ClosuresConsumedOnce == Spec => []ConsumedOnce
  <1>1. Inv => ConsumedOnce
    <2>. SUFFICES ASSUME Inv, NEW c \in 1..pushed
                  PROVE  consumed[c] = IF \E i \in 1..Len(closures) : closures[i] = c THEN 0 ELSE 1
      BY DEF ConsumedOnce
    <2>1. pushed \in 0..MaxPushes /\ MaxPushes \in Nat
      BY ClosureAssumption DEF Inv, Stack
    <2>2. c \in 1..MaxPushes /\ ~(c > pushed)
      BY <2>1
    <2>. QED
      BY <2>2 DEF Inv, Stack, Held
  <1>. QED
    BY <1>1, Invariance, PTL

(* task_fn is the function of the type of every closure in the vector, and *)
(* finds the last one where push wrote it (closure_vec.rs:18-27, 69-75).   *)
THEOREM TaskReadsItsType == Spec => []TaskFits
  <1>1. Inv => TaskFits
    <2>. SUFFICES ASSUME Inv, phase = "held"
                  PROVE  /\ Len(values) = Len(closures)
                         /\ \A i \in 1..Len(values) : values[i].type = task
                         /\ closures # <<>> => Vec!PopAddress = values[Len(values)].at
      BY DEF TaskFits
    <2>1. home # VP!NoType /\ task = home /\ VP!Inv
      BY DEF Inv, Control
    <2>2. Len(values) = Len(closures)
      BY DEF Inv, Stack
    <2>3. \A i \in 1..Len(values) : values[i].type = task
      BY <2>1, Legal, VP!ValueAt
    <2>4. closures # <<>> => values # <<>>
      BY <2>1, <2>2, VecLength, EmptySeq DEF Inv, Stack
    <2>5. VP!PopsWhatWasPushed
      BY <2>1, Legal, VP!SameAddress
    <2>. QED
      BY <2>1, <2>2, <2>3, <2>4, <2>5, Same DEF VP!PopsWhatWasPushed
  <1>. QED
    BY <1>1, Invariance, PTL

(* The block of a vector that is gone went back with its layout, and only  *)
(* a panic leaves closures behind (closure_vec.rs:89-93,                   *)
(* freestanding_vec.rs:60).                                                *)
THEOREM NothingLeaks == Spec => []LeaksOnlyOnPanic
  <1>1. Inv => LeaksOnlyOnPanic
    BY VecLength DEF Inv, Control, LeaksOnlyOnPanic, Vec!NoBlock, VP!NoBlock
  <1>. QED
    BY <1>1, Invariance, PTL

(* ClosureVec calls the vector it owns only as the Safety section of       *)
(* from_raw allows (freestanding_vec.rs:96-102): it pushes at the type of  *)
(* the last update_type, calls init on what is empty, pops from what is    *)
(* not and drops once, whatever panics (closure_vec.rs:35-93).             *)
THEOREM UsesVecLegally == Spec => Vec!Spec
  <1>1. Init => Vec!Init
    BY DEF Init
  <1>2. ASSUME Inv, [Next]_vars
        PROVE  [Vec!Next]_(Vec!vars)
    <2>0. pc # "gone" => phase = "held"
      BY <1>2 DEF Inv, Control
    <2>1. ASSUME NEW T \in Types, Cast(T) PROVE Vec!Next
      BY <2>0, <2>1 DEF Cast, Vec!Next
    <2>2. ASSUME NEW k \in 1..MaxInits, UpdateType(k) PROVE Vec!Next
      BY <2>0, <2>2 DEF UpdateType, Vec!Next
    <2>3. CASE PushClosure
      BY <2>0, <2>3 DEF PushClosure, Vec!Next
    <2>4. ASSUME NEW p \in BOOLEAN, PopAndRun(p) \/ ClearOne(p) \/ DropOne(p) PROVE Vec!Next
      <3>1. pc # "gone" /\ Vec!Pop
        BY <2>4 DEF PopAndRun, ClearOne, DropOne, TakeInCall, Take
      <3>. QED
        BY <2>0, <3>1 DEF Vec!Next
    <2>5. CASE DropField
      BY <2>0, <2>5 DEF DropField, Vec!Next
    <2>6. CASE BeginClear \/ EndClear \/ BeginDrop \/ EndDrop \/ Finished \/ UNCHANGED vars
      <3>1. UNCHANGED vecVars
        BY <2>6 DEF BeginClear, EndClear, BeginDrop, EndDrop, Goto, Finished, vars
      <3>. QED
        BY <3>1 DEF vecVars, Vec!vars
    <2>. QED
      BY <1>2, <2>1, <2>2, <2>3, <2>4, <2>5, <2>6 DEF Next
  <1>. QED
    BY <1>1, <1>2, Invariance, PTL DEF Spec, Vec!Spec
==============================================================================
