----------------------------- MODULE SlotProofs ------------------------------
(* Proofs about Slot, for any number of senders, calls and reservations. *)
EXTENDS Slot, TLAPS, FiniteSetTheorems

Inv == TypeOK /\ SlotInvariant

(* The committing sender's wake (slot.rs:240-242) moves itself out of the  *)
(* call and the receiver, if it sleeps, back to its polling loop.          *)
LEMMA WakeReceiverEffect ==
  ASSUME TypeOK, NEW s \in Senders, WakeReceiver(s)
  PROVE  /\ pc' \in [Threads -> Locations] /\ pc'[s] = "idle"
         /\ pc[Receiver] = "asleep" => pc'[Receiver] = "poll"
         /\ pc[Receiver] # "asleep" => pc'[Receiver] = pc[Receiver]
         /\ \A t \in Senders : t # s => pc'[t] = pc[t]
  <1>. USE SlotAssumption DEF Threads, TypeOK, Locations
  <1>. DEFINE left == [pc EXCEPT ![s] = "idle"]
  <1>1. left \in [Threads -> Locations]
    OBVIOUS
  <1>2. CASE pc[Receiver] = "asleep"
    <2>1. SleepingReceiver = {Receiver}
      BY <1>2 DEF SleepingReceiver
    <2>2. pc' = [left EXCEPT ![Receiver] = "poll"]
      BY <2>1 DEF WakeReceiver, WakeOne
    <2>. QED
      BY <1>1, <1>2, <2>2
  <1>3. CASE pc[Receiver] # "asleep"
    <2>1. SleepingReceiver = {}
      BY <1>3 DEF SleepingReceiver
    <2>2. pc' = left
      BY <2>1 DEF WakeReceiver, WakeOne
    <2>. QED
      BY <1>1, <1>3, <2>2
  <1>. QED
    BY <1>2, <1>3

(* The receiver's wake (slot.rs:352-357) moves at most one sleeping sender, *)
(* and one if there is one.                                                *)
LEMMA WakeSenderEffect ==
  ASSUME TypeOK, WakeSender
  PROVE  /\ pc' \in [Threads -> Locations] /\ pc'[Receiver] = "idle"
         /\ \A s \in Senders : pc'[s] = pc[s] \/ (pc[s] = "asleep" /\ pc'[s] = "torch")
         /\ SleepingSenders # {} => \E s \in Senders : pc'[s] = "torch"
  <1>. USE SlotAssumption DEF Threads, TypeOK, Locations
  <1>. DEFINE left == [pc EXCEPT ![Receiver] = "idle"]
  <1>1. left \in [Threads -> Locations]
    OBVIOUS
  <1>2. CASE SleepingSenders = {}
    <2>1. pc' = left
      BY <1>2 DEF WakeSender, WakeOne
    <2>. QED
      BY <1>1, <1>2, <2>1
  <1>3. CASE SleepingSenders # {}
    <2>1. PICK w \in SleepingSenders : pc' = [left EXCEPT ![w] = "torch"]
      BY <1>3 DEF WakeSender, WakeOne
    <2>2. w \in Senders /\ pc[w] = "asleep"
      BY <2>1 DEF SleepingSenders
    <2>. QED
      BY <1>1, <2>1, <2>2
  <1>. QED
    BY <1>2, <1>3

(* The words the senders store are words (slot.rs:187-192, 138-139, 172). *)
LEMMA SendWordClosed ==
  ASSUME NEW w \in SendWord
  PROVE  /\ AddReservation(w) \in SendWord /\ AddReservation(w).flags = w.flags
         /\ AddReservation(w).res > 0
         /\ WithSleeping(w) \in SendWord /\ WithSleeping(w).res = w.res
         /\ WithSleeping(w).flags = w.flags \cup {"SLEEPING"}
         /\ WithTorch(w) = WithSleeping(w)
         /\ FutexWord(w) \in SendWord /\ FutexWord(w).flags = w.flags
  <1>1. /\ AddReservation(w) \in SendWord /\ AddReservation(w).flags = w.flags
        /\ AddReservation(w).res > 0
    BY SlotAssumption DEF AddReservation, SendWord
  <1>2. /\ WithSleeping(w) \in SendWord /\ WithSleeping(w).res = w.res
        /\ WithSleeping(w).flags = w.flags \cup {"SLEEPING"}
    BY DEF WithSleeping, SendWord, SendFlags
  <1>3. WithTorch(w) = WithSleeping(w)
    BY DEF WithTorch
  <1>4. w.res \div HalfRange \in Nat
    BY SlotAssumption DEF SendWord
  <1>5. FutexWord(w) \in SendWord /\ FutexWord(w).flags = w.flags
    BY <1>4 DEF FutexWord, SendWord
  <1>. QED
    BY <1>1, <1>2, <1>3, <1>5

(* A message named by a handle that is inside a call is one of Msgs. *)
LEMMA MsgType ==
  ASSUME TypeOK, Contents, NEW s \in Senders, pc[s] \in SendLocations
  PROVE  Msg(s) \in Msgs
  BY DEF TypeOK, Contents, Msgs, Msg

LEMMA InitInv == Init => Inv
  <1>. SUFFICES ASSUME Init PROVE Inv
    OBVIOUS
  <1>0. PICK first \in Senders :
          pc = [t \in Threads |-> IF t \in {first, Receiver} THEN "idle" ELSE "unborn"]
    BY DEF Init
  <1>1. /\ pc \in [Threads -> Locations] /\ pc[first] = "idle" /\ pc[Receiver] = "idle"
        /\ \A s \in Senders : s # first => pc[s] = "unborn"
    BY <1>0, SlotAssumption DEF Threads, Locations
  <1>2. TypeOK
    <2>1. EmptySend \in SendWord
      BY DEF EmptySend, SendWord
    <2>2. /\ blocking \in [Threads -> BOOLEAN] /\ spin \in [Threads -> 0..Spins]
          /\ expected \in [Senders -> SendWord] /\ calls \in [Senders -> 0..MaxSends]
      BY <2>1, SlotAssumption DEF Init
    <2>. QED
      BY <1>1, <2>1, <2>2 DEF Init, TypeOK
  <1>3. Ownership
    BY <1>1 DEF Init, Ownership, Writers, Reading, SlotFree, EmptySend
  <1>4. Contents
    BY <1>1 DEF Init, Contents, SendLocations
  <1>5. Visibility
    BY <1>1 DEF Init, Visibility, Writers, Reading, SlotFree
  <1>6. Wakeable
    BY <1>1 DEF Init, Wakeable, SlotFree, EmptySend, SleepingSenders
  <1>7. HandleCount
    <2>1. Live = {first} /\ Aborting = {}
      BY <1>1 DEF Live, Aborting
    <2>2. Cardinality(Live) = 1 /\ Cardinality(Aborting) = 0
      BY <2>1, FS_EmptySet, FS_Singleton
    <2>. QED
      BY <1>1, <2>2 DEF Init, HandleCount
  <1>. QED
    BY <1>2, <1>3, <1>4, <1>5, <1>6, <1>7 DEF Inv, SlotInvariant

(* Leaving a call keeps the types of what it resets. *)
LEMMA LeaveType ==
  ASSUME TypeOK, NEW t \in Threads, Leave(t)
  PROVE  /\ blocking' \in [Threads -> BOOLEAN] /\ spin' \in [Threads -> 0..Spins]
         /\ expected' = expected /\ calls' = calls
  BY SlotAssumption DEF Leave, Goto, TypeOK, Locations

(* Every step keeps the types of the words (slot.rs:36-42) and the locals. *)
LEMMA TypeStep ==
  ASSUME Inv, [Next]_vars
  PROVE  TypeOK'
  <1>. USE DEF Inv, SlotInvariant, words, cell, OnlyMoves
  <1>. USE SlotAssumption DEF Threads
  <1>1. ASSUME NEW s \in Senders, NEW b \in BOOLEAN, CallSend(s, b) PROVE TypeOK'
    BY <1>1 DEF CallSend, TypeOK, Locations, vars, locals, views,
        fates, Goto, Leave
  <1>2. ASSUME NEW s \in Senders, Reserve(s) PROVE TypeOK'
    <2>1. send' \in SendWord
      BY <1>2, SendWordClosed DEF Reserve, TypeOK
    <2>2. Msg(s) \in Msgs
      BY <1>2, MsgType DEF Reserve, SendLocations
    <2>3. CASE Refuse(s)
      BY <1>2, <2>1, <2>2, <2>3, LeaveType
         DEF Reserve, Refuse, Leave, Goto, TypeOK, Locations, locals, views, fates
    <2>4. CASE ~Refuse(s)
      BY <1>2, <2>1, <2>4 DEF Reserve, AcquireFence, Goto, TypeOK, Locations, locals, fates
    <2>. QED
      BY <2>3, <2>4
  <1>3. ASSUME NEW s \in Senders, WriteSlot(s) PROVE TypeOK'
    BY <1>3, MsgType DEF WriteSlot, TypeOK, Locations, vars, locals,
        views, fates, Goto, Leave, AccessSlot,
        SendLocations
  <1>4. ASSUME NEW s \in Senders, Commit(s) PROVE TypeOK'
    <2>1. recv' \in SUBSET RecvFlags /\ recvView' \in BOOLEAN
      BY <1>4 DEF Commit, RecvFlags, TypeOK
    <2>. QED
      BY <1>4, <2>1, LeaveType DEF Commit, Goto, TypeOK, Locations, fates
  <1>5. ASSUME NEW s \in Senders, WakeReceiver(s) PROVE TypeOK'
    <2>1. pc' \in [Threads -> Locations]
      BY <1>5, WakeReceiverEffect
    <2>. QED
      BY <1>5, <2>1 DEF WakeReceiver, TypeOK, locals, views, fates
  <1>6. ASSUME NEW s \in Senders, SpinSend(s) PROVE TypeOK'
    <2>1. send' \in SendWord /\ FutexWord(send') \in SendWord
      BY <1>6, SendWordClosed DEF SpinSend, TypeOK
    <2>2. Msg(s) \in Msgs
      BY <1>6, MsgType DEF SpinSend, SendLocations
    <2>3. CASE Refuse(s)
      BY <1>6, <2>1, <2>2, <2>3, LeaveType
         DEF SpinSend, Refuse, Goto, TypeOK, Locations, views
    <2>4. spin[s] = 0 => send'.flags # {}
      BY <1>6, SendWordClosed DEF SpinSend, TypeOK
    <2>5. CASE ~Refuse(s)
      BY <1>6, <2>1, <2>4, <2>5
         DEF SpinSend, PollSlot, Goto, TypeOK, Locations, views, fates
    <2>. QED
      BY <2>3, <2>5
  <1>7. ASSUME NEW s \in Senders, SleepSend(s) PROVE TypeOK'
    BY <1>7 DEF SleepSend, TypeOK, Locations, vars, locals, views,
        fates, Goto, Leave, EmptySend, SendWord
  <1>8. ASSUME NEW s \in Senders, PassTorch(s) PROVE TypeOK'
    BY <1>8, SendWordClosed DEF PassTorch, TypeOK, Locations, vars, locals,
        views, fates, Goto, Leave
  <1>9. ASSUME NEW s \in Senders, NEW t \in Senders, CloneSender(s, t) PROVE TypeOK'
    BY <1>9 DEF CloneSender, TypeOK, Locations, vars, locals, views,
        fates, Goto, Leave
  <1>10. ASSUME NEW s \in Senders, DropSender(s) PROVE TypeOK'
    <2>1. s \in Live /\ IsFiniteSet(Live) /\ IsFiniteSet(Aborting)
      BY <1>10, FS_Subset DEF DropSender, Live, Aborting
    <2>2. Cardinality(Live) > 0 /\ Cardinality(Live) \in Nat /\ Cardinality(Aborting) \in Nat
      BY <2>1, FS_EmptySet, FS_CardinalityType
    <2>3. numSenders' \in Nat
      BY <1>10, <2>2 DEF DropSender, HandleCount
    <2>. QED
      BY <1>10, <2>3 DEF DropSender, Goto, TypeOK, Locations, locals, views, fates
  <1>11. ASSUME NEW s \in Senders, HangUp(s) PROVE TypeOK'
    BY <1>11 DEF HangUp, TypeOK, Locations, vars, locals, views,
        fates, Goto, Leave, RecvFlags
  <1>12. ASSUME NEW s \in Senders, HangUpWake(s) PROVE TypeOK'
    BY <1>12 DEF HangUpWake, TypeOK, Locations, vars, locals, views,
        fates, Goto, Leave, WakeAll, SleepingReceiver
  <1>13. ASSUME NEW b \in BOOLEAN, CallRecv(b) PROVE TypeOK'
    BY <1>13 DEF CallRecv, TypeOK, Locations, vars, locals, views,
        fates, Goto, Leave
  <1>14. ASSUME Poll PROVE TypeOK'
    <2>1. seen' \in SUBSET Threads
      BY <1>14 DEF Poll, TypeOK
    <2>2. pc' \in [Threads -> Locations] /\ told' \in BOOLEAN
      BY <1>14 DEF Poll, Goto, TypeOK, Locations
    <2>3. CASE Leave(Receiver)
      <3>1. /\ blocking' \in [Threads -> BOOLEAN] /\ spin' \in [Threads -> 0..Spins]
            /\ expected' = expected /\ calls' = calls
        BY <2>3, LeaveType
      <3>. QED
        BY <1>14, <2>1, <2>2, <3>1 DEF Poll, TypeOK
    <2>4. CASE ~Leave(Receiver)
      <3>1. /\ blocking' = blocking /\ expected' = expected /\ calls' = calls
        BY <1>14, <2>4 DEF Poll, locals
      <3>2. spin' \in [Threads -> 0..Spins]
        BY <1>14, <2>4 DEF Poll, TypeOK, locals
      <3>. QED
        BY <1>14, <2>1, <2>2, <3>1, <3>2 DEF Poll, TypeOK
    <2>. QED
      BY <2>3, <2>4
  <1>15. ASSUME MarkSleeping PROVE TypeOK'
    BY <1>15 DEF MarkSleeping, TypeOK, Locations, vars, locals, views,
        fates, Goto, Leave, RecvFlags
  <1>16. ASSUME SleepRecv PROVE TypeOK'
    BY <1>16 DEF SleepRecv, TypeOK, Locations, vars, locals, views,
        fates, Goto, Leave
  <1>17. ASSUME phase = "open", Take PROVE TypeOK'
    BY <1>17 DEF Take, TypeOK, Locations, vars, locals, views, fates,
        Goto, Leave, Consume, RecvFlags
  <1>18. ASSUME ReadSlot PROVE TypeOK'
    BY <1>18 DEF ReadSlot, TypeOK, Locations, vars, locals, views,
        fates, Goto, Leave, AccessSlot
  <1>19. ASSUME FreeSlot PROVE TypeOK'
    <2>1. /\ send' \in SendWord /\ sendView' \in BOOLEAN
          /\ received' \in SUBSET Msgs /\ value' \in Msgs \cup {Uninit}
      BY <1>19 DEF FreeSlot, FreeView, EmptySend, SendWord, TypeOK, Contents
    <2>. QED
      BY <1>19, <2>1, LeaveType DEF FreeSlot, Goto, TypeOK, Locations
  <1>20. ASSUME WakeSender PROVE TypeOK'
    <2>1. pc' \in [Threads -> Locations]
      BY <1>20, WakeSenderEffect
    <2>. QED
      BY <1>20, <2>1 DEF WakeSender, TypeOK, locals, views, fates
  <1>21. ASSUME DropReceiver PROVE TypeOK'
    BY <1>21 DEF DropReceiver, TypeOK, Locations, vars, locals, views,
        fates, Goto, Leave, SendWord, SendFlags
  <1>22. ASSUME WakeAllSenders PROVE TypeOK'
    BY <1>22 DEF WakeAllSenders, TypeOK, Locations, vars, locals, views,
        fates, Goto, Leave, WakeAll, SleepingSenders
  <1>23. ASSUME NEW t \in Threads, Interrupt(t) PROVE TypeOK'
    BY <1>23 DEF Interrupt, TypeOK, Locations, vars, locals, views,
        fates, Goto, Leave
  <1>24. ASSUME phase = "open", Teardown PROVE TypeOK'
    <2>1. "COMMIT" \in recv => slot \in Msgs
      BY <1>24 DEF Teardown, TypeOK, Contents
    <2>. QED
      BY <1>24, <2>1 DEF Teardown, TypeOK, locals, views
  <1>25. ASSUME NEW s \in Senders, phase = "open", Abort(s) PROVE TypeOK'
    BY <1>25 DEF Abort, TypeOK, Locations, vars, locals, views, fates,
        Goto, Leave
  <1>26. CASE UNCHANGED vars
    BY <1>26 DEF vars, locals, views, fates, TypeOK, Locations, vars
  <1>. QED
    BY <1>1, <1>2, <1>3, <1>4, <1>5, <1>6, <1>7, <1>8, <1>9, <1>10, <1>11,
        <1>12, <1>13, <1>14, <1>15, <1>16, <1>17, <1>18, <1>19, <1>20, <1>21,
        <1>22, <1>23, <1>24, <1>25, <1>26
       DEF Next, SenderStep, ReceiverStep, UserStep, Finished

(* Every step keeps the right to touch the slot exclusive (slot.rs:187-243, *)
(* 320-350, 363-374).                                                      *)
LEMMA OwnershipStep ==
  ASSUME Inv, [Next]_vars
  PROVE  Ownership'
  <1>. USE DEF Inv, SlotInvariant, words, cell, OnlyMoves
  <1>1. ASSUME NEW s \in Senders, NEW b \in BOOLEAN, CallSend(s, b) PROVE Ownership'
    BY <1>1, SlotAssumption DEF CallSend, TypeOK, Threads, Ownership, Writers,
        Reading, SlotFree, Goto, Leave
  <1>2. ASSUME NEW s \in Senders, Reserve(s) PROVE Ownership'
    <2>1. /\ send' = AddReservation(send) /\ send.res \in Nat
          /\ send'.res > 0 /\ send'.flags = send.flags /\ recv' = recv
      BY <1>2, SendWordClosed DEF Reserve, TypeOK, SendWord
    <2>2. pc'[Receiver] = pc[Receiver] /\ \A t \in Senders \ {s} : pc'[t] = pc[t]
      BY <1>2, SlotAssumption DEF Reserve, Refuse, Goto, TypeOK, Threads
    <2>3. Reading' = Reading /\ ~SlotFree'
      BY <2>1, <2>2 DEF Reading, SlotFree
    <2>4. CASE pc'[s] = "write"
      <3>1. send.res = 0 /\ "RECEIVER_DEAD" \notin send.flags
        BY <1>2, <2>4, SlotAssumption DEF Reserve, Refuse, Goto, TypeOK, Threads
      <3>2. Writers' = {s} /\ Writers = {} /\ "COMMIT" \notin recv /\ ~Reading
        BY <2>2, <2>4, <3>1 DEF Ownership, SlotFree, Writers
      <3>. QED
        BY <2>1, <2>2, <2>3, <3>2 DEF Ownership
    <2>5. CASE pc'[s] # "write"
      <3>1. Writers' = Writers
        BY <1>2, <2>2, <2>5, SlotAssumption DEF Reserve, Refuse, Goto, Writers, TypeOK, Threads
      <3>2. \/ send.res > 0 \/ "RECEIVER_DEAD" \in send.flags
        BY <1>2, <2>1, <2>5, SlotAssumption
           DEF Reserve, Refuse, Goto, TypeOK, Threads, TooManyReservations
      <3>. QED
        BY <2>1, <2>2, <2>3, <3>1, <3>2 DEF Ownership
    <2>. QED
      BY <2>4, <2>5
  <1>3. ASSUME NEW s \in Senders, WriteSlot(s) PROVE Ownership'
    BY <1>3, SlotAssumption DEF WriteSlot, TypeOK, Threads, Ownership,
        Writers, Reading, SlotFree, Goto, Leave
  <1>4. ASSUME NEW s \in Senders, Commit(s) PROVE Ownership'
    BY <1>4, SlotAssumption DEF Commit, TypeOK, Threads, Ownership, Writers,
        Reading, SlotFree, Goto, Leave
  <1>5. ASSUME NEW s \in Senders, WakeReceiver(s) PROVE Ownership'
    <2>1. Writers' = Writers /\ UNCHANGED <<send, recv>>
      BY <1>5, WakeReceiverEffect DEF WakeReceiver, Writers
    <2>2. /\ pc[Receiver] = "asleep" => pc'[Receiver] = "poll"
          /\ pc[Receiver] # "asleep" => pc'[Receiver] = pc[Receiver]
      BY <1>5, WakeReceiverEffect
    <2>. QED
      BY <2>1, <2>2 DEF Ownership, Reading, SlotFree
  <1>6. ASSUME NEW s \in Senders, SpinSend(s) PROVE Ownership'
    BY <1>6, SlotAssumption, SendWordClosed DEF SpinSend, TypeOK, Threads,
        Ownership, Writers, Reading, SlotFree, Goto, Leave, PollSlot, Refuse
  <1>7. ASSUME NEW s \in Senders, SleepSend(s) PROVE Ownership'
    BY <1>7, SlotAssumption DEF SleepSend, TypeOK, Threads, Ownership,
        Writers, Reading, SlotFree, Goto, Leave
  <1>8. ASSUME NEW s \in Senders, PassTorch(s) PROVE Ownership'
    BY <1>8, SlotAssumption, SendWordClosed DEF PassTorch, TypeOK, Threads,
        Ownership, Writers, Reading, SlotFree, Goto, Leave
  <1>9. ASSUME NEW s \in Senders, NEW t \in Senders, CloneSender(s, t) PROVE Ownership'
    BY <1>9, SlotAssumption DEF CloneSender, TypeOK, Threads, Ownership,
        Writers, Reading, SlotFree, Goto, Leave
  <1>10. ASSUME NEW s \in Senders, DropSender(s) PROVE Ownership'
    BY <1>10, SlotAssumption DEF DropSender, TypeOK, Threads, Ownership,
        Writers, Reading, SlotFree, Goto, Leave
  <1>11. ASSUME NEW s \in Senders, HangUp(s) PROVE Ownership'
    BY <1>11, SlotAssumption DEF HangUp, TypeOK, Threads, Ownership, Writers,
        Reading, SlotFree, Goto, Leave, HandleCount
  <1>12. ASSUME NEW s \in Senders, HangUpWake(s) PROVE Ownership'
    BY <1>12, SlotAssumption DEF HangUpWake, TypeOK, Threads, Ownership,
        Writers, Reading, SlotFree, Goto, Leave, WakeAll, SleepingReceiver
  <1>13. ASSUME NEW b \in BOOLEAN, CallRecv(b) PROVE Ownership'
    BY <1>13, SlotAssumption DEF CallRecv, TypeOK, Threads, Ownership,
        Writers, Reading, SlotFree, Goto, Leave
  <1>14. ASSUME Poll PROVE Ownership'
    BY <1>14, SlotAssumption DEF Poll, TypeOK, Threads, Ownership, Writers,
        Reading, SlotFree, Goto, Leave
  <1>15. ASSUME MarkSleeping PROVE Ownership'
    BY <1>15, SlotAssumption DEF MarkSleeping, TypeOK, Threads, Ownership,
        Writers, Reading, SlotFree, Goto, Leave
  <1>16. ASSUME SleepRecv PROVE Ownership'
    BY <1>16, SlotAssumption DEF SleepRecv, TypeOK, Threads, Ownership,
        Writers, Reading, SlotFree, Goto, Leave
  <1>17. ASSUME phase = "open", Take PROVE Ownership'
    BY <1>17, SlotAssumption DEF Take, TypeOK, Threads, Ownership, Writers,
        Reading, SlotFree, Goto, Leave, Consume
  <1>18. ASSUME ReadSlot PROVE Ownership'
    BY <1>18, SlotAssumption DEF ReadSlot, TypeOK, Threads, Ownership,
        Writers, Reading, SlotFree, Goto, Leave
  <1>19. ASSUME FreeSlot PROVE Ownership'
    BY <1>19, SlotAssumption DEF FreeSlot, TypeOK, Threads, Ownership,
        Writers, Reading, SlotFree, Goto, Leave, EmptySend
  <1>20. ASSUME WakeSender PROVE Ownership'
    BY <1>20, SlotAssumption, WakeSenderEffect DEF WakeSender, TypeOK,
        Threads, Ownership, Writers, Reading, SlotFree, Goto, Leave
  <1>21. ASSUME DropReceiver PROVE Ownership'
    BY <1>21, SlotAssumption DEF DropReceiver, TypeOK, Threads, Ownership,
        Writers, Reading, SlotFree, Goto, Leave
  <1>22. ASSUME WakeAllSenders PROVE Ownership'
    BY <1>22, SlotAssumption DEF WakeAllSenders, TypeOK, Threads, Ownership,
        Writers, Reading, SlotFree, Goto, Leave, WakeAll, SleepingSenders
  <1>23. ASSUME NEW t \in Threads, Interrupt(t) PROVE Ownership'
    BY <1>23, SlotAssumption DEF Interrupt, TypeOK, Threads, Ownership,
        Writers, Reading, SlotFree, Goto, Leave
  <1>24. ASSUME phase = "open", Teardown PROVE Ownership'
    BY <1>24, SlotAssumption DEF Teardown, TypeOK, Threads, Ownership,
        Writers, Reading, SlotFree, Goto, Leave
  <1>25. ASSUME NEW s \in Senders, phase = "open", Abort(s) PROVE Ownership'
    BY <1>25, SlotAssumption DEF Abort, TypeOK, Threads, Ownership, Writers,
        Reading, SlotFree, Goto, Leave
  <1>26. CASE UNCHANGED vars
    BY <1>26 DEF vars, locals, views, fates, TypeOK, Threads,
        Ownership, Writers, Reading, SlotFree
  <1>. QED
    BY <1>1, <1>2, <1>3, <1>4, <1>5, <1>6, <1>7, <1>8, <1>9, <1>10, <1>11,
        <1>12, <1>13, <1>14, <1>15, <1>16, <1>17, <1>18, <1>19, <1>20, <1>21,
        <1>22, <1>23, <1>24, <1>25, <1>26
       DEF Next, SenderStep, ReceiverStep, UserStep, Finished

(* Every step keeps a value in the slot from the write to the read         *)
(* (slot.rs:225-235, 333-336, 98-116).                                     *)
LEMMA ContentsStep ==
  ASSUME Inv, [Next]_vars
  PROVE  Contents'
  <1>. USE DEF Inv, SlotInvariant, words, cell, OnlyMoves
  <1>1. ASSUME NEW s \in Senders, NEW b \in BOOLEAN, CallSend(s, b) PROVE Contents'
    BY <1>1, SlotAssumption DEF CallSend, TypeOK, Threads, Contents,
        SendLocations, Msg, Goto, Leave, locals
  <1>2. ASSUME NEW s \in Senders, Reserve(s) PROVE Contents'
    BY <1>2, SlotAssumption DEF Reserve, TypeOK, Threads, Contents,
        SendLocations, Msg, Goto, Leave, locals, Refuse
  <1>3. ASSUME NEW s \in Senders, WriteSlot(s) PROVE Contents'
    BY <1>3, SlotAssumption, MsgType DEF WriteSlot, TypeOK, Threads, Contents,
        SendLocations, Msg, Goto, Leave, locals, AccessSlot, Msgs,
        Ownership, Writers
  <1>4. ASSUME NEW s \in Senders, Commit(s) PROVE Contents'
    BY <1>4, SlotAssumption DEF Commit, TypeOK, Threads, Contents,
        SendLocations, Msg, Goto, Leave, locals
  <1>5. ASSUME NEW s \in Senders, WakeReceiver(s) PROVE Contents'
    BY <1>5, SlotAssumption, WakeReceiverEffect DEF WakeReceiver, TypeOK,
        Threads, Contents, SendLocations, Msg, Goto, Leave, locals
  <1>6. ASSUME NEW s \in Senders, SpinSend(s) PROVE Contents'
    BY <1>6, SlotAssumption DEF SpinSend, TypeOK, Threads, Contents,
        SendLocations, Msg, Goto, Leave, locals, PollSlot, Refuse
  <1>7. ASSUME NEW s \in Senders, SleepSend(s) PROVE Contents'
    BY <1>7, SlotAssumption DEF SleepSend, TypeOK, Threads, Contents,
        SendLocations, Msg, Goto, Leave, locals
  <1>8. ASSUME NEW s \in Senders, PassTorch(s) PROVE Contents'
    BY <1>8, SlotAssumption DEF PassTorch, TypeOK, Threads, Contents,
        SendLocations, Msg, Goto, Leave, locals
  <1>9. ASSUME NEW s \in Senders, NEW t \in Senders, CloneSender(s, t) PROVE Contents'
    BY <1>9, SlotAssumption DEF CloneSender, TypeOK, Threads, Contents,
        SendLocations, Msg, Goto, Leave, locals
  <1>10. ASSUME NEW s \in Senders, DropSender(s) PROVE Contents'
    BY <1>10, SlotAssumption DEF DropSender, TypeOK, Threads, Contents,
        SendLocations, Msg, Goto, Leave, locals
  <1>11. ASSUME NEW s \in Senders, HangUp(s) PROVE Contents'
    BY <1>11, SlotAssumption DEF HangUp, TypeOK, Threads, Contents,
        SendLocations, Msg, Goto, Leave, locals
  <1>12. ASSUME NEW s \in Senders, HangUpWake(s) PROVE Contents'
    BY <1>12, SlotAssumption DEF HangUpWake, TypeOK, Threads, Contents,
        SendLocations, Msg, Goto, Leave, locals, WakeAll, SleepingReceiver
  <1>13. ASSUME NEW b \in BOOLEAN, CallRecv(b) PROVE Contents'
    BY <1>13, SlotAssumption DEF CallRecv, TypeOK, Threads, Contents,
        SendLocations, Msg, Goto, Leave, locals
  <1>14. ASSUME Poll PROVE Contents'
    BY <1>14, SlotAssumption DEF Poll, TypeOK, Threads, Contents,
        SendLocations, Msg, Goto, Leave, locals
  <1>15. ASSUME MarkSleeping PROVE Contents'
    BY <1>15, SlotAssumption DEF MarkSleeping, TypeOK, Threads, Contents,
        SendLocations, Msg, Goto, Leave, locals
  <1>16. ASSUME SleepRecv PROVE Contents'
    BY <1>16, SlotAssumption DEF SleepRecv, TypeOK, Threads, Contents,
        SendLocations, Msg, Goto, Leave, locals
  <1>17. ASSUME phase = "open", Take PROVE Contents'
    BY <1>17, SlotAssumption DEF Take, TypeOK, Threads, Contents,
        SendLocations, Msg, Goto, Leave, locals, Consume, Ownership,
        Reading
  <1>18. ASSUME ReadSlot PROVE Contents'
    BY <1>18, SlotAssumption DEF ReadSlot, TypeOK, Threads, Contents,
        SendLocations, Msg, Goto, Leave, locals, AccessSlot, Ownership,
        Writers, Reading
  <1>19. ASSUME FreeSlot PROVE Contents'
    BY <1>19, SlotAssumption DEF FreeSlot, TypeOK, Threads, Contents,
        SendLocations, Msg, Goto, Leave, locals
  <1>20. ASSUME WakeSender PROVE Contents'
    BY <1>20, SlotAssumption, WakeSenderEffect DEF WakeSender, TypeOK,
        Threads, Contents, SendLocations, Msg, Goto, Leave, locals
  <1>21. ASSUME DropReceiver PROVE Contents'
    BY <1>21, SlotAssumption DEF DropReceiver, TypeOK, Threads, Contents,
        SendLocations, Msg, Goto, Leave, locals
  <1>22. ASSUME WakeAllSenders PROVE Contents'
    BY <1>22, SlotAssumption DEF WakeAllSenders, TypeOK, Threads, Contents,
        SendLocations, Msg, Goto, Leave, locals, WakeAll, SleepingSenders
  <1>23. ASSUME NEW t \in Threads, Interrupt(t) PROVE Contents'
    BY <1>23, SlotAssumption DEF Interrupt, TypeOK, Threads, Contents,
        SendLocations, Msg, Goto, Leave, locals
  <1>24. ASSUME phase = "open", Teardown PROVE Contents'
    BY <1>24, SlotAssumption DEF Teardown, TypeOK, Threads, Contents,
        SendLocations, Msg, Goto, Leave, locals
  <1>25. ASSUME NEW s \in Senders, phase = "open", Abort(s) PROVE Contents'
    BY <1>25, SlotAssumption DEF Abort, TypeOK, Threads, Contents,
        SendLocations, Msg, Goto, Leave, locals
  <1>26. CASE UNCHANGED vars
    BY <1>26 DEF vars, locals, views, fates, TypeOK, Threads,
        Contents, SendLocations, Msg
  <1>. QED
    BY <1>1, <1>2, <1>3, <1>4, <1>5, <1>6, <1>7, <1>8, <1>9, <1>10, <1>11,
        <1>12, <1>13, <1>14, <1>15, <1>16, <1>17, <1>18, <1>19, <1>20, <1>21,
        <1>22, <1>23, <1>24, <1>25, <1>26
       DEF Next, SenderStep, ReceiverStep, UserStep, Finished

(* Every step hands the view of the latest access on with the right to    *)
(* touch the slot (slot.rs:228-237, 321, 337-349).                         *)
LEMMA VisibilityStep ==
  ASSUME Inv, [Next]_vars
  PROVE  Visibility'
  <1>. USE DEF Inv, SlotInvariant, words, cell, OnlyMoves
  <1>1. ASSUME NEW s \in Senders, NEW b \in BOOLEAN, CallSend(s, b) PROVE Visibility'
    BY <1>1, SlotAssumption DEF CallSend, TypeOK, Threads, Visibility,
        Writers, Reading, SlotFree, Goto, Leave, locals, views
  <1>2. ASSUME NEW s \in Senders, Reserve(s) PROVE Visibility'
    BY <1>2, SlotAssumption, SendWordClosed DEF Reserve, TypeOK, Threads,
        Visibility, Writers, Reading, SlotFree, Goto, Leave, locals,
        views, Refuse, Ownership, AcquireFence
  <1>3. ASSUME NEW s \in Senders, WriteSlot(s) PROVE Visibility'
    BY <1>3, SlotAssumption DEF WriteSlot, TypeOK, Threads, Visibility,
        Writers, Reading, SlotFree, Goto, Leave, locals, views,
        AccessSlot, Ownership
  <1>4. ASSUME NEW s \in Senders, Commit(s) PROVE Visibility'
    BY <1>4, SlotAssumption DEF Commit, TypeOK, Threads, Visibility,
        Writers, Reading, SlotFree, Goto, Leave, locals, views,
        Ownership
  <1>5. ASSUME NEW s \in Senders, WakeReceiver(s) PROVE Visibility'
    BY <1>5, SlotAssumption, WakeReceiverEffect DEF WakeReceiver, TypeOK,
        Threads, Visibility, Writers, Reading, SlotFree, Goto, Leave,
        locals, views
  <1>6. ASSUME NEW s \in Senders, SpinSend(s) PROVE Visibility'
    BY <1>6, SlotAssumption, SendWordClosed DEF SpinSend, TypeOK, Threads,
        Visibility, Writers, Reading, SlotFree, Goto, Leave, locals,
        views, PollSlot, Refuse
  <1>7. ASSUME NEW s \in Senders, SleepSend(s) PROVE Visibility'
    BY <1>7, SlotAssumption DEF SleepSend, TypeOK, Threads, Visibility,
        Writers, Reading, SlotFree, Goto, Leave, locals, views
  <1>8. ASSUME NEW s \in Senders, PassTorch(s) PROVE Visibility'
    BY <1>8, SlotAssumption, SendWordClosed DEF PassTorch, TypeOK, Threads,
        Visibility, Writers, Reading, SlotFree, Goto, Leave, locals,
        views
  <1>9. ASSUME NEW s \in Senders, NEW t \in Senders, CloneSender(s, t) PROVE Visibility'
    BY <1>9, SlotAssumption DEF CloneSender, TypeOK, Threads, Visibility,
        Writers, Reading, SlotFree, Goto, Leave, locals, views
  <1>10. ASSUME NEW s \in Senders, DropSender(s) PROVE Visibility'
    BY <1>10, SlotAssumption DEF DropSender, TypeOK, Threads, Visibility,
        Writers, Reading, SlotFree, Goto, Leave, locals, views
  <1>11. ASSUME NEW s \in Senders, HangUp(s) PROVE Visibility'
    BY <1>11, SlotAssumption DEF HangUp, TypeOK, Threads, Visibility,
        Writers, Reading, SlotFree, Goto, Leave, locals, views
  <1>12. ASSUME NEW s \in Senders, HangUpWake(s) PROVE Visibility'
    BY <1>12, SlotAssumption DEF HangUpWake, TypeOK, Threads, Visibility,
        Writers, Reading, SlotFree, Goto, Leave, locals, views,
        WakeAll, SleepingReceiver
  <1>13. ASSUME NEW b \in BOOLEAN, CallRecv(b) PROVE Visibility'
    BY <1>13, SlotAssumption DEF CallRecv, TypeOK, Threads, Visibility,
        Writers, Reading, SlotFree, Goto, Leave, locals, views
  <1>14. ASSUME Poll PROVE Visibility'
    BY <1>14, SlotAssumption DEF Poll, TypeOK, Threads, Visibility,
        Writers, Reading, SlotFree, Goto, Leave, locals, views
  <1>15. ASSUME MarkSleeping PROVE Visibility'
    BY <1>15, SlotAssumption DEF MarkSleeping, TypeOK, Threads, Visibility,
        Writers, Reading, SlotFree, Goto, Leave, locals, views
  <1>16. ASSUME SleepRecv PROVE Visibility'
    BY <1>16, SlotAssumption DEF SleepRecv, TypeOK, Threads, Visibility,
        Writers, Reading, SlotFree, Goto, Leave, locals, views
  <1>17. ASSUME phase = "open", Take PROVE Visibility'
    BY <1>17, SlotAssumption DEF Take, TypeOK, Threads, Visibility,
        Writers, Reading, SlotFree, Goto, Leave, locals, views,
        Consume, Ownership
  <1>18. ASSUME ReadSlot PROVE Visibility'
    BY <1>18, SlotAssumption DEF ReadSlot, TypeOK, Threads, Visibility,
        Writers, Reading, SlotFree, Goto, Leave, locals, views,
        AccessSlot, Ownership
  <1>19. ASSUME FreeSlot PROVE Visibility'
    BY <1>19, SlotAssumption DEF FreeSlot, TypeOK, Threads, Visibility,
        Writers, Reading, SlotFree, Goto, Leave, locals, views,
        FreeView, EmptySend, Ownership
  <1>20. ASSUME WakeSender PROVE Visibility'
    BY <1>20, SlotAssumption, WakeSenderEffect DEF WakeSender, TypeOK,
        Threads, Visibility, Writers, Reading, SlotFree, Goto, Leave,
        locals, views
  <1>21. ASSUME DropReceiver PROVE Visibility'
    BY <1>21, SlotAssumption DEF DropReceiver, TypeOK, Threads, Visibility,
        Writers, Reading, SlotFree, Goto, Leave, locals, views
  <1>22. ASSUME WakeAllSenders PROVE Visibility'
    BY <1>22, SlotAssumption DEF WakeAllSenders, TypeOK, Threads, Visibility,
        Writers, Reading, SlotFree, Goto, Leave, locals, views,
        WakeAll, SleepingSenders
  <1>23. ASSUME NEW t \in Threads, Interrupt(t) PROVE Visibility'
    BY <1>23, SlotAssumption DEF Interrupt, TypeOK, Threads, Visibility,
        Writers, Reading, SlotFree, Goto, Leave, locals, views
  <1>24. ASSUME phase = "open", Teardown PROVE Visibility'
    BY <1>24, SlotAssumption DEF Teardown, TypeOK, Threads, Visibility,
        Writers, Reading, SlotFree, Goto, Leave, locals, views
  <1>25. ASSUME NEW s \in Senders, phase = "open", Abort(s) PROVE Visibility'
    BY <1>25, SlotAssumption DEF Abort, TypeOK, Threads, Visibility,
        Writers, Reading, SlotFree, Goto, Leave, locals, views
  <1>26. CASE UNCHANGED vars
    BY <1>26 DEF vars, locals, views, fates, TypeOK, Threads,
        Visibility, Writers, Reading, SlotFree
  <1>. QED
    BY <1>1, <1>2, <1>3, <1>4, <1>5, <1>6, <1>7, <1>8, <1>9, <1>10, <1>11,
        <1>12, <1>13, <1>14, <1>15, <1>16, <1>17, <1>18, <1>19, <1>20, <1>21,
        <1>22, <1>23, <1>24, <1>25, <1>26
       DEF Next, SenderStep, ReceiverStep, UserStep, Finished

(* Every step keeps the sleepers reachable (slot.rs:129-172, 300-306, 348). *)
LEMMA WakeableStep ==
  ASSUME Inv, [Next]_vars
  PROVE  Wakeable'
  <1>. USE DEF Inv, SlotInvariant, words, cell, OnlyMoves
  <1>1. ASSUME NEW s \in Senders, NEW b \in BOOLEAN, CallSend(s, b) PROVE Wakeable'
    BY <1>1, SlotAssumption DEF CallSend, TypeOK, Threads, Wakeable, SlotFree,
        SleepingSenders, Goto, Leave, locals
  <1>2. ASSUME NEW s \in Senders, Reserve(s) PROVE Wakeable'
    BY <1>2, SlotAssumption, SendWordClosed DEF Reserve, TypeOK, Threads,
        Wakeable, SlotFree, SleepingSenders, Goto, Leave, locals, Refuse
  <1>3. ASSUME NEW s \in Senders, WriteSlot(s) PROVE Wakeable'
    BY <1>3, SlotAssumption DEF WriteSlot, TypeOK, Threads, Wakeable,
        SlotFree, SleepingSenders, Goto, Leave, locals
  <1>4. ASSUME NEW s \in Senders, Commit(s) PROVE Wakeable'
    BY <1>4, SlotAssumption DEF Commit, TypeOK, Threads, Wakeable, SlotFree,
        SleepingSenders, Goto, Leave, locals
  <1>5. ASSUME NEW s \in Senders, WakeReceiver(s) PROVE Wakeable'
    <2>1. /\ pc'[Receiver] # "asleep" /\ UNCHANGED <<send, recv, expected>>
          /\ \A t \in Senders : t # s => pc'[t] = pc[t]
          /\ pc[s] = "wake" /\ pc'[s] = "idle"
          /\ pc[Receiver] = "wake" => pc'[Receiver] = "wake"
      BY <1>5, WakeReceiverEffect DEF WakeReceiver, locals
    <2>. QED
      BY <2>1 DEF Wakeable, SlotFree, SleepingSenders
  <1>6. ASSUME NEW s \in Senders, SpinSend(s) PROVE Wakeable'
    BY <1>6, SlotAssumption, SendWordClosed DEF SpinSend, TypeOK, Threads,
        Wakeable, SlotFree, SleepingSenders, Goto, Leave, locals, PollSlot,
        Refuse
  <1>7. ASSUME NEW s \in Senders, SleepSend(s) PROVE Wakeable'
    BY <1>7, SlotAssumption, SendWordClosed DEF SleepSend, Blocks, TypeOK, Threads,
        Wakeable, SlotFree, SleepingSenders, Goto, Leave, locals
  <1>8. ASSUME NEW s \in Senders, PassTorch(s) PROVE Wakeable'
    BY <1>8, SlotAssumption, SendWordClosed DEF PassTorch, TypeOK, Threads,
        Wakeable, SlotFree, SleepingSenders, Goto, Leave, locals
  <1>9. ASSUME NEW s \in Senders, NEW t \in Senders, CloneSender(s, t) PROVE Wakeable'
    BY <1>9, SlotAssumption DEF CloneSender, TypeOK, Threads, Wakeable,
        SlotFree, SleepingSenders, Goto, Leave, locals
  <1>10. ASSUME NEW s \in Senders, DropSender(s) PROVE Wakeable'
    BY <1>10, SlotAssumption DEF DropSender, TypeOK, Threads, Wakeable,
        SlotFree, SleepingSenders, Goto, Leave, locals
  <1>11. ASSUME NEW s \in Senders, HangUp(s) PROVE Wakeable'
    BY <1>11, SlotAssumption DEF HangUp, TypeOK, Threads, Wakeable, SlotFree,
        SleepingSenders, Goto, Leave, locals
  <1>12. ASSUME NEW s \in Senders, HangUpWake(s) PROVE Wakeable'
    BY <1>12, SlotAssumption DEF HangUpWake, TypeOK, Threads, Wakeable,
        SlotFree, SleepingSenders, Goto, Leave, locals, WakeAll,
        SleepingReceiver
  <1>13. ASSUME NEW b \in BOOLEAN, CallRecv(b) PROVE Wakeable'
    BY <1>13, SlotAssumption DEF CallRecv, TypeOK, Threads, Wakeable,
        SlotFree, SleepingSenders, Goto, Leave, locals
  <1>14. ASSUME Poll PROVE Wakeable'
    BY <1>14, SlotAssumption DEF Poll, TypeOK, Threads, Wakeable, SlotFree,
        SleepingSenders, Goto, Leave, locals
  <1>15. ASSUME MarkSleeping PROVE Wakeable'
    BY <1>15, SlotAssumption DEF MarkSleeping, TypeOK, Threads, Wakeable,
        SlotFree, SleepingSenders, Goto, Leave, locals
  <1>16. ASSUME SleepRecv PROVE Wakeable'
    BY <1>16, SlotAssumption DEF SleepRecv, Blocks, TypeOK, Threads, Wakeable,
        SlotFree, SleepingSenders, Goto, Leave, locals
  <1>17. ASSUME phase = "open", Take PROVE Wakeable'
    BY <1>17, SlotAssumption DEF Take, TypeOK, Threads, Wakeable, SlotFree,
        SleepingSenders, Goto, Leave, locals, Consume
  <1>18. ASSUME ReadSlot PROVE Wakeable'
    BY <1>18, SlotAssumption DEF ReadSlot, TypeOK, Threads, Wakeable,
        SlotFree, SleepingSenders, Goto, Leave, locals
  <1>19. ASSUME FreeSlot PROVE Wakeable'
    <2>1. send'.flags = {} /\ UNCHANGED expected
      BY <1>19 DEF FreeSlot, EmptySend, Leave, locals
    <2>2. pc'[Receiver] = IF "SLEEPING" \in send.flags THEN "wake" ELSE "idle"
      BY <1>19 DEF FreeSlot, Goto, Leave, TypeOK, Threads
    <2>3. \A s \in Senders : pc'[s] = pc[s]
      BY <1>19, SlotAssumption DEF FreeSlot, Goto, Leave, TypeOK, Threads
    <2>4. "RECEIVER_DEAD" \notin send.flags /\ pc[Receiver] = "free"
      BY <1>19 DEF FreeSlot, Ownership
    <2>. QED
      BY <2>1, <2>2, <2>3, <2>4 DEF Wakeable, SlotFree, SleepingSenders
  <1>20. ASSUME WakeSender PROVE Wakeable'
    BY <1>20, SlotAssumption, WakeSenderEffect DEF WakeSender, TypeOK,
        Threads, Wakeable, SlotFree, SleepingSenders, Goto, Leave, locals
  <1>21. ASSUME DropReceiver PROVE Wakeable'
    BY <1>21, SlotAssumption DEF DropReceiver, TypeOK, Threads, Wakeable,
        SlotFree, SleepingSenders, Goto, Leave, locals
  <1>22. ASSUME WakeAllSenders PROVE Wakeable'
    BY <1>22, SlotAssumption DEF WakeAllSenders, TypeOK, Threads, Wakeable,
        SlotFree, SleepingSenders, Goto, Leave, locals, WakeAll, Ownership
  <1>23. ASSUME NEW t \in Threads, Interrupt(t) PROVE Wakeable'
    BY <1>23, SlotAssumption DEF Interrupt, TypeOK, Threads, Wakeable,
        SlotFree, SleepingSenders, Goto, Leave, locals
  <1>24. ASSUME phase = "open", Teardown PROVE Wakeable'
    BY <1>24, SlotAssumption DEF Teardown, TypeOK, Threads, Wakeable,
        SlotFree, SleepingSenders, Goto, Leave, locals
  <1>25. ASSUME NEW s \in Senders, phase = "open", Abort(s) PROVE Wakeable'
    BY <1>25, SlotAssumption DEF Abort, TypeOK, Threads, Wakeable, SlotFree,
        SleepingSenders, Goto, Leave, locals
  <1>26. CASE UNCHANGED vars
    BY <1>26 DEF vars, locals, views, fates, TypeOK, Threads,
        Wakeable, SlotFree, SleepingSenders
  <1>. QED
    BY <1>1, <1>2, <1>3, <1>4, <1>5, <1>6, <1>7, <1>8, <1>9, <1>10, <1>11,
        <1>12, <1>13, <1>14, <1>15, <1>16, <1>17, <1>18, <1>19, <1>20, <1>21,
        <1>22, <1>23, <1>24, <1>25, <1>26
       DEF Next, SenderStep, ReceiverStep, UserStep, Finished

(* A step that keeps num_senders and the hang-up, and lets every handle    *)
(* stay where it is or move inside its calls, keeps the handles counted.   *)
Working == Locations \ {"unborn", "dead", "hangup", "hangupWake", "abortClone"}

LEMMA HandlesKept ==
  ASSUME HandleCount, numSenders' = numSenders,
         "SENDER_DEAD" \in recv' <=> "SENDER_DEAD" \in recv,
         \A s \in Senders : pc'[s] = pc[s] \/ (pc[s] \in Working /\ pc'[s] \in Working)
  PROVE  HandleCount'
  <1>1. Live' = Live /\ Aborting' = Aborting
    BY DEF Live, Aborting, Working
  <1>. QED
    BY <1>1 DEF HandleCount, Working

(* Every step keeps num_senders equal to the handles it counts, so that    *)
(* only the last of them hangs up (slot.rs:247-283).                       *)
LEMMA HandleCountStep ==
  ASSUME Inv, [Next]_vars
  PROVE  HandleCount'
  <1>. USE DEF Inv, SlotInvariant, words, cell, OnlyMoves
  <1>1. ASSUME NEW s \in Senders, NEW b \in BOOLEAN, CallSend(s, b) PROVE HandleCount'
    BY <1>1, HandlesKept, SlotAssumption DEF CallSend, TypeOK, Threads,
        Working, Locations, Goto, Leave
  <1>2. ASSUME NEW s \in Senders, Reserve(s) PROVE HandleCount'
    BY <1>2, HandlesKept, SlotAssumption DEF Reserve, TypeOK, Threads,
        Working, Locations, Goto, Leave, Refuse
  <1>3. ASSUME NEW s \in Senders, WriteSlot(s) PROVE HandleCount'
    BY <1>3, HandlesKept, SlotAssumption DEF WriteSlot, TypeOK, Threads,
        Working, Locations, Goto, Leave
  <1>4. ASSUME NEW s \in Senders, Commit(s) PROVE HandleCount'
    <2>1. \A t \in Senders : pc'[t] = pc[t] \/ (pc[t] \in Working /\ pc'[t] \in Working)
      BY <1>4 DEF Commit, Goto, Leave, Working, Locations, TypeOK, Threads
    <2>2. "SENDER_DEAD" \notin recv
      BY <1>4 DEF Commit, HandleCount
    <2>. QED
      BY <1>4, <2>1, <2>2, HandlesKept DEF Commit
  <1>5. ASSUME NEW s \in Senders, WakeReceiver(s) PROVE HandleCount'
    BY <1>5, HandlesKept, SlotAssumption, WakeReceiverEffect DEF WakeReceiver,
        TypeOK, Threads, Working, Locations, Goto, Leave
  <1>6. ASSUME NEW s \in Senders, SpinSend(s) PROVE HandleCount'
    BY <1>6, HandlesKept, SlotAssumption DEF SpinSend, TypeOK, Threads,
        Working, Locations, Goto, Leave, PollSlot, Refuse
  <1>7. ASSUME NEW s \in Senders, SleepSend(s) PROVE HandleCount'
    BY <1>7, HandlesKept, SlotAssumption DEF SleepSend, TypeOK, Threads,
        Working, Locations, Goto, Leave
  <1>8. ASSUME NEW s \in Senders, PassTorch(s) PROVE HandleCount'
    BY <1>8, HandlesKept, SlotAssumption DEF PassTorch, TypeOK, Threads,
        Working, Locations, Goto, Leave
  <1>9. ASSUME NEW s \in Senders, NEW t \in Senders, CloneSender(s, t) PROVE HandleCount'
    <2>0. IsFiniteSet(Live) /\ IsFiniteSet(Aborting)
      BY SlotAssumption, FS_Subset DEF Live, Aborting
    <2>1. "SENDER_DEAD" \notin recv /\ \A u \in Senders : pc[u] \notin {"hangup", "hangupWake"}
      BY <1>9 DEF CloneSender, HandleCount
    <2>2. CASE numSenders > HandleLimit
      <3>1. Live' = Live /\ Aborting' = Aborting \cup {s} /\ s \notin Aborting
        BY <1>9, <2>2 DEF CloneSender, Goto, Live, Aborting, TypeOK, Threads
      <3>2. Cardinality(Aborting') = Cardinality(Aborting) + 1
        BY <2>0, <3>1, FS_AddElement
      <3>3. numSenders' = Cardinality(Live') + Cardinality(Aborting')
        BY <1>9, <2>0, <3>1, <3>2, FS_CardinalityType DEF CloneSender, HandleCount
      <3>. QED
        BY <1>9, <2>1, <2>2, <3>3 DEF CloneSender, Goto, HandleCount, TypeOK, Threads
    <2>3. CASE ~(numSenders > HandleLimit)
      <3>1. Live' = Live \cup {t} /\ Aborting' = Aborting /\ t \notin Live
        BY <1>9, <2>3 DEF CloneSender, Goto, Live, Aborting, TypeOK, Threads
      <3>2. Cardinality(Live') = Cardinality(Live) + 1
        BY <2>0, <3>1, FS_AddElement
      <3>3. numSenders' = Cardinality(Live') + Cardinality(Aborting')
        BY <1>9, <2>0, <3>1, <3>2, FS_CardinalityType DEF CloneSender, HandleCount
      <3>. QED
        BY <1>9, <2>1, <2>3, <3>3 DEF CloneSender, Goto, HandleCount, TypeOK, Threads
    <2>. QED
      BY <2>2, <2>3
  <1>10. ASSUME NEW s \in Senders, DropSender(s) PROVE HandleCount'
    <2>0. IsFiniteSet(Live) /\ IsFiniteSet(Aborting)
      BY SlotAssumption, FS_Subset DEF Live, Aborting
    <2>1. "SENDER_DEAD" \notin recv /\ \A u \in Senders : pc[u] \notin {"hangup", "hangupWake"}
      BY <1>10 DEF DropSender, HandleCount
    <2>2. Live' = Live \ {s} /\ Aborting' = Aborting /\ s \in Live
      BY <1>10 DEF DropSender, Goto, Live, Aborting, TypeOK, Threads
    <2>3. Cardinality(Live') = Cardinality(Live) - 1
      BY <2>0, <2>2, FS_RemoveElement
    <2>4. Cardinality(Live) \in Nat /\ Cardinality(Aborting) \in Nat
      BY <2>0, FS_CardinalityType
    <2>5. numSenders' = Cardinality(Live') + Cardinality(Aborting')
      BY <1>10, <2>2, <2>3, <2>4 DEF DropSender, HandleCount
    <2>6. CASE numSenders > 1
      <3>1. PICK u \in Senders \ {s} : pc[u] \notin {"unborn", "dead"}
        <4>1. SUFFICES ASSUME \A u \in Senders \ {s} : pc[u] \in {"unborn", "dead"} PROVE FALSE
          OBVIOUS
        <4>2. Live = {s} /\ Aborting = {}
          BY <1>10, <2>2, <4>1 DEF DropSender, Live, Aborting
        <4>3. Cardinality(Live) = 1 /\ Cardinality(Aborting) = 0
          BY <4>2, FS_EmptySet, FS_Singleton
        <4>4. numSenders = Cardinality(Live) + Cardinality(Aborting)
          BY DEF HandleCount
        <4>. QED
          BY <2>6, <4>3, <4>4
      <3>2. /\ recv' = recv /\ pc'[u] = pc[u]
            /\ \A t \in Senders : pc'[t] \notin {"hangup", "hangupWake"}
        BY <1>10, <2>1, <2>6, <3>1 DEF DropSender, OthersLeft, Goto, TypeOK, Threads
      <3>. QED
        BY <2>1, <2>5, <3>1, <3>2 DEF HandleCount
    <2>7. CASE ~(numSenders > 1)
      <3>1. Cardinality(Live') = 0
        <4>1. Cardinality(Live') \in Nat
          BY <2>0, <2>2, FS_RemoveElement, FS_CardinalityType
        <4>. QED
          BY <2>3, <2>4, <2>7, <4>1 DEF HandleCount
      <3>2. Live' = {}
        <4>1. IsFiniteSet(Live')
          BY <2>0, <2>2, FS_RemoveElement
        <4>. QED
          BY <3>1, <4>1, FS_EmptySet
      <3>3. \A u \in Senders \ {s} : pc[u] \in {"unborn", "dead"}
        BY <2>1, <2>2, <3>2 DEF Live
      <3>. QED
        BY <1>10, <2>1, <2>5, <2>7, <3>3
           DEF DropSender, OthersLeft, Goto, HandleCount, TypeOK, Threads
    <2>. QED
      BY <2>6, <2>7
  <1>11. ASSUME NEW s \in Senders, HangUp(s) PROVE HandleCount'
    <2>1. \A u \in Senders \ {s} : pc[u] \in {"unborn", "dead"}
      BY <1>11 DEF HangUp, HandleCount
    <2>2. Live' = Live /\ Aborting' = Aborting
      BY <1>11 DEF HangUp, Goto, Live, Aborting, TypeOK, Threads
    <2>. QED
      BY <1>11, <2>1, <2>2 DEF HangUp, Goto, HandleCount, TypeOK, Threads
  <1>12. ASSUME NEW s \in Senders, HangUpWake(s) PROVE HandleCount'
    <2>1. /\ pc[s] = "hangupWake" /\ pc'[s] = "dead"
          /\ \A u \in Senders : u # s => pc'[u] = pc[u]
      BY <1>12, SlotAssumption DEF HangUpWake, WakeAll, SleepingReceiver, TypeOK, Threads
    <2>2. Live' = Live /\ Aborting' = Aborting
      BY <2>1 DEF Live, Aborting
    <2>. QED
      BY <1>12, <2>1, <2>2 DEF HangUpWake, HandleCount
  <1>13. ASSUME NEW b \in BOOLEAN, CallRecv(b) PROVE HandleCount'
    BY <1>13, HandlesKept, SlotAssumption DEF CallRecv, TypeOK, Threads,
        Working, Locations, Goto, Leave
  <1>14. ASSUME Poll PROVE HandleCount'
    BY <1>14, HandlesKept, SlotAssumption DEF Poll, TypeOK, Threads, Working,
        Locations, Goto, Leave
  <1>15. ASSUME MarkSleeping PROVE HandleCount'
    BY <1>15, HandlesKept, SlotAssumption DEF MarkSleeping, TypeOK, Threads,
        Working, Locations, Goto, Leave
  <1>16. ASSUME SleepRecv PROVE HandleCount'
    BY <1>16, HandlesKept, SlotAssumption DEF SleepRecv, TypeOK, Threads,
        Working, Locations, Goto, Leave
  <1>17. ASSUME phase = "open", Take PROVE HandleCount'
    BY <1>17, HandlesKept, SlotAssumption DEF Take, TypeOK, Threads, Working,
        Locations, Goto, Leave, Consume
  <1>18. ASSUME ReadSlot PROVE HandleCount'
    BY <1>18, HandlesKept, SlotAssumption DEF ReadSlot, TypeOK, Threads,
        Working, Locations, Goto, Leave
  <1>19. ASSUME FreeSlot PROVE HandleCount'
    BY <1>19, HandlesKept, SlotAssumption DEF FreeSlot, TypeOK, Threads,
        Working, Locations, Goto, Leave
  <1>20. ASSUME WakeSender PROVE HandleCount'
    BY <1>20, HandlesKept, SlotAssumption, WakeSenderEffect DEF WakeSender,
        TypeOK, Threads, Working, Locations, Goto, Leave
  <1>21. ASSUME DropReceiver PROVE HandleCount'
    BY <1>21, HandlesKept, SlotAssumption DEF DropReceiver, TypeOK, Threads,
        Working, Locations, Goto, Leave
  <1>22. ASSUME WakeAllSenders PROVE HandleCount'
    BY <1>22, HandlesKept, SlotAssumption DEF WakeAllSenders, TypeOK, Threads,
        Working, Locations, Goto, Leave, WakeAll, SleepingSenders
  <1>23. ASSUME NEW t \in Threads, Interrupt(t) PROVE HandleCount'
    BY <1>23, HandlesKept, SlotAssumption DEF Interrupt, TypeOK, Threads,
        Working, Locations, Goto, Leave
  <1>24. ASSUME phase = "open", Teardown PROVE HandleCount'
    BY <1>24, HandlesKept, SlotAssumption DEF Teardown, TypeOK, Threads,
        Working, Locations, Goto, Leave
  <1>25. ASSUME NEW s \in Senders, phase = "open", Abort(s) PROVE HandleCount'
    BY <1>25, HandlesKept, SlotAssumption DEF Abort, TypeOK, Threads, Working,
        Locations, Goto, Leave
  <1>26. CASE UNCHANGED vars
    BY <1>26 DEF vars, HandleCount, Live, Aborting
  <1>. QED
    BY <1>1, <1>2, <1>3, <1>4, <1>5, <1>6, <1>7, <1>8, <1>9, <1>10, <1>11,
        <1>12, <1>13, <1>14, <1>15, <1>16, <1>17, <1>18, <1>19, <1>20, <1>21,
        <1>22, <1>23, <1>24, <1>25, <1>26
       DEF Next, SenderStep, ReceiverStep, UserStep, Finished

(* Every step keeps both hang-ups (slot.rs:236-237, 331, 349): only a live  *)
(* sender overwrites the recv word and only a live receiver the send word. *)
LEMMA HangUpStep ==
  ASSUME Inv, [Next]_vars
  PROVE  HangUpsKept
  <1>. USE DEF Inv, SlotInvariant, words, cell, OnlyMoves
  <1>1. ASSUME NEW s \in Senders, NEW b \in BOOLEAN, CallSend(s, b) PROVE HangUpsKept
    BY <1>1 DEF CallSend, HangUpsKept
  <1>2. ASSUME NEW s \in Senders, Reserve(s) PROVE HangUpsKept
    BY <1>2, SendWordClosed DEF Reserve, HangUpsKept, TypeOK
  <1>3. ASSUME NEW s \in Senders, WriteSlot(s) PROVE HangUpsKept
    BY <1>3 DEF WriteSlot, HangUpsKept
  <1>4. ASSUME NEW s \in Senders, Commit(s) PROVE HangUpsKept
    BY <1>4 DEF Commit, HangUpsKept, HandleCount
  <1>5. ASSUME NEW s \in Senders, WakeReceiver(s) PROVE HangUpsKept
    BY <1>5 DEF WakeReceiver, HangUpsKept
  <1>6. ASSUME NEW s \in Senders, SpinSend(s) PROVE HangUpsKept
    BY <1>6, SendWordClosed DEF SpinSend, HangUpsKept, TypeOK
  <1>7. ASSUME NEW s \in Senders, SleepSend(s) PROVE HangUpsKept
    BY <1>7 DEF SleepSend, HangUpsKept
  <1>8. ASSUME NEW s \in Senders, PassTorch(s) PROVE HangUpsKept
    BY <1>8, SendWordClosed DEF PassTorch, HangUpsKept, TypeOK
  <1>9. ASSUME NEW s \in Senders, NEW t \in Senders, CloneSender(s, t) PROVE HangUpsKept
    BY <1>9 DEF CloneSender, HangUpsKept
  <1>10. ASSUME NEW s \in Senders, DropSender(s) PROVE HangUpsKept
    BY <1>10 DEF DropSender, HangUpsKept
  <1>11. ASSUME NEW s \in Senders, HangUp(s) PROVE HangUpsKept
    BY <1>11 DEF HangUp, HangUpsKept
  <1>12. ASSUME NEW s \in Senders, HangUpWake(s) PROVE HangUpsKept
    BY <1>12 DEF HangUpWake, HangUpsKept
  <1>13. ASSUME NEW b \in BOOLEAN, CallRecv(b) PROVE HangUpsKept
    BY <1>13 DEF CallRecv, HangUpsKept
  <1>14. ASSUME Poll PROVE HangUpsKept
    BY <1>14 DEF Poll, HangUpsKept
  <1>15. ASSUME MarkSleeping PROVE HangUpsKept
    BY <1>15 DEF MarkSleeping, HangUpsKept
  <1>16. ASSUME SleepRecv PROVE HangUpsKept
    BY <1>16 DEF SleepRecv, HangUpsKept
  <1>17. ASSUME phase = "open", Take PROVE HangUpsKept
    BY <1>17 DEF Take, HangUpsKept, Consume
  <1>18. ASSUME ReadSlot PROVE HangUpsKept
    BY <1>18 DEF ReadSlot, HangUpsKept
  <1>19. ASSUME FreeSlot PROVE HangUpsKept
    BY <1>19 DEF FreeSlot, HangUpsKept, Ownership
  <1>20. ASSUME WakeSender PROVE HangUpsKept
    BY <1>20 DEF WakeSender, HangUpsKept
  <1>21. ASSUME DropReceiver PROVE HangUpsKept
    BY <1>21 DEF DropReceiver, HangUpsKept
  <1>22. ASSUME WakeAllSenders PROVE HangUpsKept
    BY <1>22 DEF WakeAllSenders, HangUpsKept
  <1>23. ASSUME NEW t \in Threads, Interrupt(t) PROVE HangUpsKept
    BY <1>23 DEF Interrupt, HangUpsKept
  <1>24. ASSUME phase = "open", Teardown PROVE HangUpsKept
    BY <1>24 DEF Teardown, HangUpsKept
  <1>25. ASSUME NEW s \in Senders, phase = "open", Abort(s) PROVE HangUpsKept
    BY <1>25 DEF Abort, HangUpsKept
  <1>26. CASE UNCHANGED vars
    BY <1>26 DEF vars, locals, views, fates, HangUpsKept
  <1>. QED
    BY <1>1, <1>2, <1>3, <1>4, <1>5, <1>6, <1>7, <1>8, <1>9, <1>10, <1>11,
        <1>12, <1>13, <1>14, <1>15, <1>16, <1>17, <1>18, <1>19, <1>20, <1>21,
        <1>22, <1>23, <1>24, <1>25, <1>26
       DEF Next, SenderStep, ReceiverStep, UserStep, Finished

-----------------------------------------------------------------------------
LEMMA InvStep == Inv /\ [Next]_vars => Inv'
  BY TypeStep, OwnershipStep, ContentsStep, HandleCountStep, VisibilityStep, WakeableStep
     DEF Inv, SlotInvariant

(* Inv is an inductive invariant of the channel. *)
THEOREM Invariance == Spec => []Inv
  BY InitInv, InvStep, PTL DEF Spec

(* The words and the locals keep their types; in particular num_senders    *)
(* never goes below zero and no message is read from uninitialised memory. *)
THEOREM TypeCorrect == Spec => []TypeOK
  <1>1. Inv => TypeOK
    BY DEF Inv
  <1>. QED
    BY <1>1, Invariance, PTL

(* The slot always belongs to one sender, to the COMMIT bit or to the      *)
(* receiver, with the view that makes its accesses ordered, and every      *)
(* handle is counted (slot.rs:187-243, 247-283, 320-360).                  *)
THEOREM SlotInvariantHolds == Spec => []SlotInvariant
  <1>1. Inv => SlotInvariant
    BY DEF Inv
  <1>. QED
    BY <1>1, Invariance, PTL

(* No execution of try_send and try_recv races on the UnsafeCell           *)
(* (slot.rs:225-237, 321-350), whatever the number of senders.             *)
THEOREM NoDataRace == Spec => []RaceFree
  <1>1. Inv => RaceFree
    BY DEF Inv, SlotInvariant, Visibility, RaceFree
  <1>. QED
    BY <1>1, Invariance, PTL

(* While both sides live, no sleeper of send or recv is forgotten          *)
(* (slot.rs:129-172, 299-306).                                             *)
THEOREM SleepersRemembered == Spec => []NoSleeperForgotten
  <1>1. Inv => NoSleeperForgotten
    <2>. SUFFICES ASSUME Inv PROVE NoSleeperForgotten
      OBVIOUS
    <2>1. send.res \in Nat
      BY DEF Inv, TypeOK, SendWord
    <2>2. SlotFree /\ "SLEEPING" \in send.flags => \E s \in Senders : pc[s] = "reserve"
      BY DEF Inv, SlotInvariant, Wakeable
    <2>. QED
      BY <2>1, <2>2 DEF Inv, SlotInvariant, Wakeable, NoSleeperForgotten, SlotFree
  <1>. QED
    BY <1>1, Invariance, PTL

(* RECEIVER_DEAD and SENDER_DEAD, once set, stay set (slot.rs:236, 276,    *)
(* 331, 349, 373).                                                         *)
THEOREM HangUpsStay == Spec => HangUpsAreFinal
  BY HangUpStep, Invariance, PTL DEF Spec, HangUpsAreFinal
==============================================================================
