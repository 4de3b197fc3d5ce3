---------------------------- MODULE SlotBagProofs ----------------------------
(* What becomes of a message in Slot, for any number of senders and calls: *)
(* it is always in exactly one place, and the channel is a bag of capacity *)
(* one.                                                                    *)
EXTENDS SlotProofs

Hand == {"reserve", "write", "spin", "sleep", "asleep", "torch", "abortSend"}

(* A message is somewhere iff it has been handed to the channel, and at no *)
(* second place: the places of ExactlyOnce, without counting them.         *)
Placed(m) ==
  /\ m[2] <= calls[m[1]] <=>
       InHand(m) \/ slot = m \/ value = m \/ m \in received \/ m \in returned \/ m \in dropped
  /\ InHand(m) => slot # m /\ value # m /\ m \notin received \cup returned \cup dropped
  /\ slot = m => value # m /\ m \notin received \cup returned \cup dropped
  /\ value = m => m \notin received \cup returned \cup dropped
  /\ m \in received => m \notin returned \cup dropped
  /\ m \in returned => m \notin dropped

Placement == \A m \in Msgs : Placed(m)

LEMMA InitPlacement == Init => Placement
  <1>. SUFFICES ASSUME Init, NEW m \in Msgs PROVE Placed(m)
    BY DEF Placement
  <1>1. m[1] \in Senders /\ m[2] \in 1..MaxSends /\ m \in Senders \X Nat
    BY DEF Msgs
  <1>2. calls[m[1]] = 0 /\ m # Uninit
    BY <1>1, SlotAssumption DEF Init
  <1>3. pc[m[1]] \in {"idle", "unborn"}
    BY <1>1 DEF Init, Threads
  <1>. QED
    BY <1>1, <1>2, <1>3 DEF Init, Placed, InHand

(* A step that touches no message and takes none out of a sender's hand    *)
(* leaves every message where it is.                                       *)
LEMMA PlacesKept ==
  ASSUME Placement, UNCHANGED <<calls, slot, value, received, returned, dropped>>,
         \A s \in Senders : pc'[s] \in Hand <=> pc[s] \in Hand
  PROVE  Placement'
  <1>. SUFFICES ASSUME NEW m \in Msgs PROVE Placed(m)'
    BY DEF Placement
  <1>1. InHand(m)' <=> InHand(m)
    BY DEF InHand, Msg, Msgs, Hand
  <1>. QED
    BY <1>1 DEF Placement, Placed

(* The only message a sender can have in hand is that of its current call. *)
LEMMA HandedBy ==
  ASSUME NEW m \in Msgs, NEW s \in Senders
  PROVE  /\ m = Msg(s) <=> m[1] = s /\ m[2] = calls[s]
         /\ m[1] \in Senders /\ m[2] \in Nat
  BY SlotAssumption DEF Msgs, Msg

(* Handing a message back (slot.rs:216-221, 149) moves it from the hand.   *)
LEMMA RefusePlaces ==
  ASSUME Inv, Placement, NEW s \in Senders, pc[s] \in Hand \ {"abortSend"}, Refuse(s),
         UNCHANGED <<slot, value>>
  PROVE  Placement'
  <1>. SUFFICES ASSUME NEW m \in Msgs PROVE Placed(m)'
    BY DEF Placement
  <1>. USE HandedBy, SlotAssumption
  <1>1. /\ UNCHANGED <<calls, slot, value, received, dropped>>
        /\ returned' = returned \cup {Msg(s)}
        /\ pc'[s] = "idle" /\ \A t \in Senders : t # s => pc'[t] = pc[t]
    BY DEF Refuse, Leave, Goto, Inv, TypeOK, Threads
  <1>2. CASE m = Msg(s)
    <2>1. InHand(m) /\ ~InHand(m)' /\ m \in returned'
      BY <1>1, <1>2 DEF InHand, Hand, Msg
    <2>. QED
      BY <1>1, <2>1 DEF Placement, Placed
  <1>3. CASE m # Msg(s)
    <2>1. InHand(m)' <=> InHand(m)
      BY <1>1, <1>3 DEF InHand, Msg
    <2>. QED
      BY <1>1, <1>3, <2>1 DEF Placement, Placed
  <1>. QED
    BY <1>2, <1>3

(* While a sender is about to write, and while nobody has written, the     *)
(* slot owns no value.                                                     *)
LEMMA SlotEmpty ==
  ASSUME Inv
  PROVE  /\ \A s \in Senders : pc[s] = "write" => slot = Uninit /\ value = Uninit
         /\ SlotFree => Writers = {} /\ "COMMIT" \notin recv /\ ~Reading
         /\ pc[Receiver] = "read" => value = Uninit
  <1>1. ASSUME NEW s \in Senders, pc[s] = "write" PROVE slot = Uninit /\ value = Uninit
    <2>1. s \in Writers
      BY <1>1 DEF Writers
    <2>2. "COMMIT" \notin recv /\ pc[Receiver] \notin {"read", "free"}
      BY <2>1 DEF Inv, SlotInvariant, Ownership, Reading
    <2>3. \A t \in Senders : pc[t] # "commit"
      BY <1>1, <2>1 DEF Inv, SlotInvariant, Ownership, Writers
    <2>. QED
      BY <2>2, <2>3 DEF Inv, SlotInvariant, Contents
  <1>. QED
    BY <1>1 DEF Inv, SlotInvariant, Ownership, Contents

(* Every step leaves each message in one place: a reservation, a write, a  *)
(* read and the drop of the Arc move it (slot.rs:187-243, 320-359, 98-116).  *)
LEMMA PlacementStep ==
  ASSUME Inv, Placement, [Next]_vars
  PROVE  Placement'
  <1>. USE DEF Inv, SlotInvariant, words, cell, OnlyMoves, Goto, Hand, Threads
  <1>1. ASSUME NEW s \in Senders, NEW b \in BOOLEAN, CallSend(s, b) PROVE Placement'
    <2>. SUFFICES ASSUME NEW m \in Msgs PROVE Placed(m)'
      BY DEF Placement
    <2>1. /\ calls' = [calls EXCEPT ![s] = @ + 1] /\ pc[s] = "idle" /\ pc'[s] = "reserve"
          /\ \A t \in Senders : t # s => pc'[t] = pc[t]
          /\ UNCHANGED <<slot, value, received, returned, dropped>>
      BY <1>1 DEF CallSend, TypeOK, fates
    <2>2. m[1] \in Senders /\ m[2] \in Nat /\ calls \in [Senders -> Nat]
      BY HandedBy, SlotAssumption DEF TypeOK
    <2>3. CASE m[1] # s
      <3>1. InHand(m)' <=> InHand(m)
        BY <2>1, <2>2, <2>3 DEF InHand, Msg
      <3>. QED
        BY <2>1, <2>2, <2>3, <3>1 DEF Placement, Placed
    <2>4. CASE m[1] = s
      <3>1. ~InHand(m)
        BY <2>1, <2>4 DEF InHand
      <3>2. InHand(m)' <=> m[2] = calls[s] + 1
        BY <2>1, <2>2, <2>4, HandedBy DEF InHand, Msg, Msgs
      <3>. QED
        BY <2>1, <2>2, <2>4, <3>1, <3>2 DEF Placement, Placed
    <2>. QED
      BY <2>3, <2>4
  <1>2. ASSUME NEW s \in Senders, Reserve(s) PROVE Placement'
    <2>1. CASE Refuse(s)
      BY <1>2, <2>1, RefusePlaces DEF Reserve
    <2>2. CASE ~Refuse(s)
      <3>1. pc'[s] \in Hand /\ pc[s] \in Hand /\ \A t \in Senders : t # s => pc'[t] = pc[t]
        BY <1>2, <2>2 DEF Reserve, TypeOK
      <3>2. UNCHANGED <<calls, slot, value, received, returned, dropped>>
        BY <1>2, <2>2 DEF Reserve, locals, fates
      <3>. QED
        BY <3>1, <3>2, PlacesKept
    <2>. QED
      BY <2>1, <2>2
  <1>3. ASSUME NEW s \in Senders, WriteSlot(s) PROVE Placement'
    <2>. SUFFICES ASSUME NEW m \in Msgs PROVE Placed(m)'
      BY DEF Placement
    <2>1. /\ pc[s] = "write" /\ pc'[s] = "commit" /\ slot = Uninit /\ slot' = Msg(s)
          /\ \A t \in Senders : t # s => pc'[t] = pc[t]
          /\ UNCHANGED <<calls, value, received, returned, dropped>>
      BY <1>3, SlotEmpty DEF WriteSlot, TypeOK, locals, fates
    <2>2. m # Uninit
      BY SlotAssumption DEF Msgs
    <2>3. CASE m = Msg(s)
      <3>1. InHand(m) /\ ~InHand(m)'
        BY <2>1, <2>3 DEF InHand, Msg
      <3>. QED
        BY <2>1, <2>2, <2>3, <3>1 DEF Placement, Placed
    <2>4. CASE m # Msg(s)
      <3>1. InHand(m)' <=> InHand(m)
        BY <2>1, <2>4, HandedBy DEF InHand, Msg
      <3>. QED
        BY <2>1, <2>2, <2>4, <3>1 DEF Placement, Placed
    <2>. QED
      BY <2>3, <2>4
  <1>4. ASSUME NEW s \in Senders, Commit(s) PROVE Placement'
    BY <1>4, PlacesKept DEF Commit, Leave, TypeOK, fates
  <1>5. ASSUME NEW s \in Senders, WakeReceiver(s) PROVE Placement'
    <2>1. \A t \in Senders : pc'[t] \in Hand <=> pc[t] \in Hand
      BY <1>5, WakeReceiverEffect DEF WakeReceiver
    <2>. QED
      BY <1>5, <2>1, PlacesKept DEF WakeReceiver, locals, fates
  <1>6. ASSUME NEW s \in Senders, SpinSend(s) PROVE Placement'
    <2>1. CASE Refuse(s)
      BY <1>6, <2>1, RefusePlaces DEF SpinSend
    <2>2. CASE ~Refuse(s)
      <3>1. pc'[s] \in Hand /\ pc[s] \in Hand /\ \A t \in Senders : t # s => pc'[t] = pc[t]
        BY <1>6, <2>2 DEF SpinSend, PollSlot, TypeOK
      <3>2. UNCHANGED <<calls, slot, value, received, returned, dropped>>
        BY <1>6, <2>2 DEF SpinSend, PollSlot, fates
      <3>. QED
        BY <3>1, <3>2, PlacesKept
    <2>. QED
      BY <2>1, <2>2
  <1>7. ASSUME NEW s \in Senders, SleepSend(s) PROVE Placement'
    BY <1>7, PlacesKept DEF SleepSend, TypeOK, fates
  <1>8. ASSUME NEW s \in Senders, PassTorch(s) PROVE Placement'
    BY <1>8, PlacesKept DEF PassTorch, TypeOK, locals, fates
  <1>9. ASSUME NEW s \in Senders, NEW t \in Senders, CloneSender(s, t) PROVE Placement'
    BY <1>9, PlacesKept DEF CloneSender, TypeOK, locals, fates
  <1>10. ASSUME NEW s \in Senders, DropSender(s) PROVE Placement'
    BY <1>10, PlacesKept DEF DropSender, TypeOK, locals, fates
  <1>11. ASSUME NEW s \in Senders, HangUp(s) PROVE Placement'
    BY <1>11, PlacesKept DEF HangUp, TypeOK, locals, fates
  <1>12. ASSUME NEW s \in Senders, HangUpWake(s) PROVE Placement'
    BY <1>12, PlacesKept, SlotAssumption
       DEF HangUpWake, WakeAll, SleepingReceiver, TypeOK, locals, fates
  <1>13. ASSUME NEW b \in BOOLEAN, CallRecv(b) PROVE Placement'
    BY <1>13, PlacesKept, SlotAssumption DEF CallRecv, TypeOK, fates
  <1>14. ASSUME Poll PROVE Placement'
    <2>1. \A s \in Senders : pc'[s] = pc[s]
      BY <1>14, SlotAssumption DEF Poll, TypeOK
    <2>2. UNCHANGED <<calls, slot, value, received, returned, dropped>>
      BY <1>14 DEF Poll, Leave, locals
    <2>. QED
      BY <2>1, <2>2, PlacesKept
  <1>15. ASSUME MarkSleeping PROVE Placement'
    BY <1>15, PlacesKept, SlotAssumption DEF MarkSleeping, TypeOK, locals, fates
  <1>16. ASSUME SleepRecv PROVE Placement'
    BY <1>16, PlacesKept, SlotAssumption DEF SleepRecv, TypeOK, locals, fates
  <1>17. ASSUME Take PROVE Placement'
    BY <1>17, PlacesKept, SlotAssumption DEF Take, TypeOK, locals, fates
  <1>18. ASSUME ReadSlot PROVE Placement'
    <2>. SUFFICES ASSUME NEW m \in Msgs PROVE Placed(m)'
      BY DEF Placement
    <2>1. /\ value = Uninit /\ value' = slot /\ slot' = Uninit
          /\ UNCHANGED <<calls, received, returned, dropped>>
          /\ \A s \in Senders : pc'[s] = pc[s]
      BY <1>18, SlotEmpty, SlotAssumption DEF ReadSlot, TypeOK, locals, fates
    <2>2. m # Uninit /\ (InHand(m)' <=> InHand(m))
      BY <2>1, HandedBy, SlotAssumption DEF InHand, Msg, Msgs
    <2>. QED
      BY <2>1, <2>2 DEF Placement, Placed
  <1>19. ASSUME FreeSlot PROVE Placement'
    <2>. SUFFICES ASSUME NEW m \in Msgs PROVE Placed(m)'
      BY DEF Placement
    <2>1. /\ received' = received \cup {value} /\ value' = Uninit
          /\ UNCHANGED <<calls, slot, returned, dropped>>
          /\ \A s \in Senders : pc'[s] = pc[s]
      BY <1>19, SlotAssumption DEF FreeSlot, Leave, TypeOK
    <2>2. m # Uninit /\ (InHand(m)' <=> InHand(m))
      BY <2>1, HandedBy, SlotAssumption DEF InHand, Msg, Msgs
    <2>. QED
      BY <2>1, <2>2 DEF Placement, Placed
  <1>20. ASSUME WakeSender PROVE Placement'
    <2>1. \A s \in Senders : pc'[s] \in Hand <=> pc[s] \in Hand
      BY <1>20, WakeSenderEffect
    <2>. QED
      BY <1>20, <2>1, PlacesKept DEF WakeSender, locals, fates
  <1>21. ASSUME DropReceiver PROVE Placement'
    BY <1>21, PlacesKept, SlotAssumption DEF DropReceiver, TypeOK, locals, fates
  <1>22. ASSUME WakeAllSenders PROVE Placement'
    BY <1>22, PlacesKept, SlotAssumption
       DEF WakeAllSenders, WakeAll, SleepingSenders, TypeOK, locals, fates
  <1>23. ASSUME NEW t \in Threads, Interrupt(t) PROVE Placement'
    BY <1>23, PlacesKept, SlotAssumption DEF Interrupt, TypeOK, locals, fates
  <1>24. ASSUME phase = "open", Teardown PROVE Placement'
    <2>. SUFFICES ASSUME NEW m \in Msgs PROVE Placed(m)'
      BY DEF Placement
    <2>1. /\ UNCHANGED <<pc, calls, value, received, returned>> /\ slot' = Uninit
          /\ dropped' = IF "COMMIT" \in recv THEN dropped \cup {slot} ELSE dropped
      BY <1>24 DEF Teardown, locals
    <2>2. slot # Uninit => "COMMIT" \in recv
      BY <1>24 DEF Teardown, Contents
    <2>3. m # Uninit /\ (InHand(m)' <=> InHand(m))
      BY <2>1, SlotAssumption DEF InHand, Msg, Msgs
    <2>. QED
      BY <2>1, <2>2, <2>3 DEF Placement, Placed
  <1>25. ASSUME NEW s \in Senders, Abort(s) PROVE Placement'
    BY <1>25, PlacesKept DEF Abort, locals, fates
  <1>26. CASE UNCHANGED vars
    BY <1>26, PlacesKept DEF vars, locals, fates
  <1>. QED
    BY <1>1, <1>2, <1>3, <1>4, <1>5, <1>6, <1>7, <1>8, <1>9, <1>10, <1>11,
        <1>12, <1>13, <1>14, <1>15, <1>16, <1>17, <1>18, <1>19, <1>20, <1>21,
        <1>22, <1>23, <1>24, <1>25, <1>26
       DEF Next, SenderStep, ReceiverStep, UserStep, Finished

(* Counting six places, of which at most one is taken. *)
LEMMA CountPlaces ==
  ASSUME NEW places, DOMAIN places = 1..6,
         \A i, j \in 1..6 : places[i] /\ places[j] => i = j
  PROVE  LET taken == {i \in DOMAIN places : places[i]}
         IN  /\ (\E i \in 1..6 : places[i]) => Cardinality(taken) = 1
             /\ ~(\E i \in 1..6 : places[i]) => Cardinality(taken) = 0
  <1>. DEFINE taken == {i \in DOMAIN places : places[i]}
  <1>1. ASSUME NEW i \in 1..6, places[i] PROVE Cardinality(taken) = 1
    <2>1. taken = {i}
      BY <1>1
    <2>. QED
      BY <2>1, FS_Singleton
  <1>2. ASSUME \A i \in 1..6 : ~places[i] PROVE Cardinality(taken) = 0
    <2>1. taken = {}
      BY <1>2
    <2>. QED
      BY <2>1, FS_EmptySet
  <1>. QED
    BY <1>1, <1>2

LEMMA PlacementCounts == Inv /\ Placement => ExactlyOnce
  <1>. SUFFICES ASSUME Inv, Placement PROVE ExactlyOnce
    OBVIOUS
  <1>1. Uninit \notin received \cup dropped
    BY SlotAssumption DEF Inv, TypeOK, Msgs
  <1>2. ASSUME NEW m \in Msgs
        PROVE  LET places == <<InHand(m), slot = m, value = m, m \in received,
                               m \in returned, m \in dropped>>
               IN  Cardinality({i \in DOMAIN places : places[i]})
                     = IF m[2] <= calls[m[1]] THEN 1 ELSE 0
    <2>. DEFINE places == <<InHand(m), slot = m, value = m, m \in received,
                            m \in returned, m \in dropped>>
    <2>1. DOMAIN places = 1..6
      OBVIOUS
    <2>2. /\ places[1] <=> InHand(m)
          /\ places[2] <=> slot = m
          /\ places[3] <=> value = m
          /\ places[4] <=> m \in received
          /\ places[5] <=> m \in returned
          /\ places[6] <=> m \in dropped
      OBVIOUS
    <2>. HIDE DEF places
    <2>3. Placed(m)
      BY DEF Placement
    <2>4. \A i, j \in 1..6 : places[i] /\ places[j] => i = j
      BY <2>2, <2>3 DEF Placed
    <2>5. (\E i \in 1..6 : places[i]) <=> m[2] <= calls[m[1]]
      BY <2>2, <2>3 DEF Placed
    <2>6. Cardinality({i \in DOMAIN places : places[i]}) = IF m[2] <= calls[m[1]] THEN 1 ELSE 0
      BY <2>1, <2>4, <2>5, CountPlaces
    <2>. QED
      BY <2>6, Zenon DEF places
  <1>. QED
    BY <1>1, <1>2, Zenon DEF ExactlyOnce

LEMMA PlacementInvariance == Spec => [](Inv /\ Placement)
  <1>1. Inv /\ Placement /\ [Next]_vars => Placement'
    BY PlacementStep
  <1>. QED
    BY <1>1, InitPlacement, Invariance, PTL DEF Spec

(* Every message handed to send or try_send is in exactly one place at any *)
(* time: it is received, handed back or dropped once, and never twice      *)
(* (slot.rs:187-243, 320-359, 98-116).                                     *)
THEOREM MessagesExactlyOnce == Spec => []ExactlyOnce
  BY PlacementInvariance, PlacementCounts, PTL
-----------------------------------------------------------------------------
(* The counting word (slot.rs:187-197): whoever finds more than ABORT      *)
(* reservations is on its way to abort the process, so that each thread    *)
(* adds at most one more.                                                  *)
Overrun == {s \in Senders : pc[s] = "abortSend"}
CountBound == X86 => send.res <= AbortAt + 1 + Cardinality(Overrun)

LEMMA CountBoundStep ==
  ASSUME Inv, CountBound, [Next]_vars
  PROVE  CountBound'
  <1>. SUFFICES ASSUME X86 PROVE send'.res <= AbortAt + 1 + Cardinality(Overrun')
    BY DEF CountBound
  <1>. USE DEF Inv, Goto, words, OnlyMoves
  <1>1. IsFiniteSet(Overrun) /\ Cardinality(Overrun) \in Nat
    BY SlotAssumption, FS_Subset, FS_CardinalityType DEF Overrun
  <1>2. send.res \in Nat /\ send.res <= AbortAt + 1 + Cardinality(Overrun) /\ AbortAt \in Nat
    BY SlotAssumption DEF CountBound, TypeOK, SendWord
  <1>3. ASSUME Overrun' = Overrun, send'.res = send.res \/ send'.res = 0
        PROVE  send'.res <= AbortAt + 1 + Cardinality(Overrun')
    BY <1>1, <1>2, <1>3
  <1>4. ASSUME NEW s \in Senders, Reserve(s)
        PROVE  send'.res <= AbortAt + 1 + Cardinality(Overrun')
    <2>1. send'.res = send.res + 1
      BY <1>4 DEF Reserve, AddReservation, TypeOK, SendWord
    <2>2. CASE TooManyReservations(send)
      <3>1. Overrun' = Overrun \cup {s} /\ s \notin Overrun
        BY <1>4, <2>2 DEF Reserve, Overrun, TypeOK, Threads
      <3>2. Cardinality(Overrun') = Cardinality(Overrun) + 1
        BY <1>1, <3>1, FS_AddElement
      <3>. QED
        BY <1>1, <1>2, <2>1, <3>2
    <2>3. CASE ~TooManyReservations(send)
      <3>1. send.res <= AbortAt
        BY <1>2, <2>3 DEF TooManyReservations
      <3>2. Overrun' = Overrun
        BY <1>4, <2>3 DEF Reserve, Refuse, Overrun, TypeOK, Threads
      <3>. QED
        BY <1>1, <1>2, <2>1, <3>1, <3>2
    <2>. QED
      BY <2>2, <2>3
  <1>. DEFINE Quiet == /\ send'.res = send.res \/ send'.res = 0
                      /\ \A s \in Senders : pc'[s] = "abortSend" <=> pc[s] = "abortSend"
  <1>5. Quiet => send'.res <= AbortAt + 1 + Cardinality(Overrun')
    <2>. SUFFICES ASSUME Quiet PROVE Overrun' = Overrun
      BY <1>3
    <2>. QED
      BY DEF Overrun
  <1>6. ASSUME NEW s \in Senders, NEW b \in BOOLEAN, CallSend(s, b) PROVE Quiet
    BY <1>6, SlotAssumption DEF CallSend, TypeOK, Threads
  <1>7. ASSUME NEW s \in Senders, WriteSlot(s) PROVE Quiet
    BY <1>7, SlotAssumption DEF WriteSlot, TypeOK, Threads
  <1>8. ASSUME NEW s \in Senders, Commit(s) PROVE Quiet
    BY <1>8, SlotAssumption DEF Commit, TypeOK, Threads
  <1>9. ASSUME NEW s \in Senders, WakeReceiver(s) PROVE Quiet
    BY <1>9, WakeReceiverEffect, SlotAssumption DEF WakeReceiver
  <1>10. ASSUME NEW s \in Senders, SpinSend(s) PROVE Quiet
    BY <1>10, SendWordClosed, SlotAssumption DEF SpinSend, PollSlot, Refuse, TypeOK, Threads
  <1>11. ASSUME NEW s \in Senders, SleepSend(s) PROVE Quiet
    BY <1>11, SlotAssumption DEF SleepSend, TypeOK, Threads
  <1>12. ASSUME NEW s \in Senders, PassTorch(s) PROVE Quiet
    BY <1>12, SendWordClosed, SlotAssumption DEF PassTorch, TypeOK, Threads
  <1>13. ASSUME NEW s \in Senders, NEW t \in Senders, CloneSender(s, t) PROVE Quiet
    BY <1>13, SlotAssumption DEF CloneSender, TypeOK, Threads
  <1>14. ASSUME NEW s \in Senders, DropSender(s) PROVE Quiet
    BY <1>14, SlotAssumption DEF DropSender, TypeOK, Threads
  <1>15. ASSUME NEW s \in Senders, HangUp(s) PROVE Quiet
    BY <1>15, SlotAssumption DEF HangUp, TypeOK, Threads
  <1>16. ASSUME NEW s \in Senders, HangUpWake(s) PROVE Quiet
    BY <1>16, SlotAssumption DEF HangUpWake, WakeAll, SleepingReceiver, TypeOK, Threads
  <1>17. ASSUME NEW b \in BOOLEAN, CallRecv(b) PROVE Quiet
    BY <1>17, SlotAssumption DEF CallRecv, TypeOK, Threads
  <1>18. ASSUME Poll PROVE Quiet
    BY <1>18, SlotAssumption DEF Poll, TypeOK, Threads
  <1>19. ASSUME MarkSleeping PROVE Quiet
    BY <1>19, SlotAssumption DEF MarkSleeping, TypeOK, Threads
  <1>20. ASSUME SleepRecv PROVE Quiet
    BY <1>20, SlotAssumption DEF SleepRecv, TypeOK, Threads
  <1>21. ASSUME Take PROVE Quiet
    BY <1>21, SlotAssumption DEF Take, TypeOK, Threads
  <1>22. ASSUME ReadSlot PROVE Quiet
    BY <1>22, SlotAssumption DEF ReadSlot, TypeOK, Threads
  <1>23. ASSUME FreeSlot PROVE Quiet
    BY <1>23, SlotAssumption DEF FreeSlot, EmptySend, TypeOK, Threads
  <1>24. ASSUME WakeSender PROVE Quiet
    BY <1>24, WakeSenderEffect, SlotAssumption DEF WakeSender
  <1>25. ASSUME DropReceiver PROVE Quiet
    BY <1>25, SlotAssumption DEF DropReceiver, TypeOK, Threads
  <1>26. ASSUME WakeAllSenders PROVE Quiet
    BY <1>26, SlotAssumption DEF WakeAllSenders, WakeAll, SleepingSenders, TypeOK, Threads
  <1>27. ASSUME NEW t \in Threads, Interrupt(t) PROVE Quiet
    BY <1>27, SlotAssumption DEF Interrupt, TypeOK, Threads
  <1>28. ASSUME Teardown PROVE Quiet
    BY <1>28, SlotAssumption DEF Teardown, TypeOK, Threads
  <1>29. ASSUME NEW s \in Senders, Abort(s) PROVE Quiet
    BY <1>29, SlotAssumption DEF Abort, TypeOK, Threads
  <1>30. ASSUME UNCHANGED vars PROVE Quiet
    BY <1>30 DEF vars
  <1>. HIDE DEF Quiet
  <1>. QED
    BY <1>4, <1>5, <1>6, <1>7, <1>8, <1>9, <1>10, <1>11, <1>12, <1>13,
       <1>14, <1>15, <1>16, <1>17, <1>18, <1>19, <1>20, <1>21, <1>22, <1>23,
       <1>24, <1>25, <1>26, <1>27, <1>28, <1>29, <1>30
       DEF Next, SenderStep, ReceiverStep, UserStep, Finished

(* The reservation count stays below the status bits above it, as long as  *)
(* fewer than 2^61 threads reserve at the same time (slot.rs:187-215).     *)
THEOREM ReservationsBounded ==
  ASSUME Cardinality(Senders) + 1 < AbortAt
  PROVE  Spec => []ReservationsStayBelowFlags
  <1>1. Init => CountBound
    <2>. SUFFICES ASSUME Init PROVE CountBound
      OBVIOUS
    <2>1. Cardinality(Overrun) \in Nat
      BY SlotAssumption, FS_Subset, FS_CardinalityType DEF Overrun
    <2>. QED
      BY <2>1, SlotAssumption DEF Init, CountBound, EmptySend
  <1>2. Inv /\ CountBound /\ [Next]_vars => CountBound'
    BY CountBoundStep
  <1>3. Inv /\ CountBound => ReservationsStayBelowFlags
    <2>. SUFFICES ASSUME Inv, CountBound, X86 PROVE send.res < 2 * AbortAt
      BY DEF ReservationsStayBelowFlags
    <2>1. Overrun \subseteq Senders
      BY DEF Overrun
    <2>2. /\ Cardinality(Overrun) \in Nat /\ Cardinality(Senders) \in Nat
          /\ Cardinality(Overrun) <= Cardinality(Senders)
      BY <2>1, SlotAssumption, FS_Subset, FS_CardinalityType
    <2>. QED
      BY <2>2, SlotAssumption DEF CountBound, Inv, TypeOK, SendWord
  <1>. QED
    BY <1>1, <1>2, <1>3, Invariance, PTL DEF Spec
-----------------------------------------------------------------------------
(* The instance of Bag counts with the same Cardinality. *)
LEMMA ChannelCardinality ==
  ASSUME NEW S
  PROVE  Channel!Cardinality(S) = Cardinality(S)
  BY Zenon DEF Channel!Cardinality, Cardinality

(* What the bag holds, by who owns the slot: a sender holds its message, a *)
(* committed slot its content, and the receiver moves out one message.     *)
LEMMA Places ==
  ASSUME Inv, phase = "open"
  PROVE  /\ \A s \in Writers : Held = {Msg(s)} /\ Leaving = {}
         /\ "COMMIT" \in recv => Held = {slot} /\ Leaving = {}
         /\ Reading => Held = {}
         /\ Writers = {} /\ "COMMIT" \notin recv => Held = {}
         /\ ~Reading => Leaving = {}
  <1>. USE DEF Inv, SlotInvariant, Held, Leaving
  <1>1. ~Reading => Leaving = {}
    BY DEF Reading
  <1>2. Held = {Msg(s) : s \in Writers} \cup IF "COMMIT" \in recv THEN {slot} ELSE {}
    BY DEF Writers
  <1>3. ASSUME NEW s \in Writers PROVE Held = {Msg(s)} /\ ~Reading
    <2>1. Writers = {s} /\ "COMMIT" \notin recv /\ ~Reading
      BY DEF Ownership
    <2>. QED
      BY <1>2, <2>1
  <1>4. "COMMIT" \in recv => Writers = {} /\ ~Reading
    BY DEF Ownership
  <1>5. Reading => Writers = {} /\ "COMMIT" \notin recv
    BY DEF Ownership
  <1>. HIDE DEF Held, Leaving
  <1>. QED
    BY <1>1, <1>2, <1>3, <1>4, <1>5

(* The occupancy of the bag is the reservation of the word, until the      *)
(* receiver hangs up.                                                      *)
LEMMA OccupiedBySlot ==
  ASSUME Inv, phase = "open"
  PROVE  /\ SlotFree => Channel!Occupied = 0
         /\ send.res > 0 /\ "RECEIVER_DEAD" \notin send.flags => Channel!Occupied = 1
  <1>1. SlotFree => Held \cup Leaving = {}
    BY Places DEF Inv, SlotInvariant, Ownership
  <1>2. ASSUME send.res > 0, "RECEIVER_DEAD" \notin send.flags
        PROVE  \E m : Held \cup Leaving = {m}
    <2>1. Writers # {} \/ "COMMIT" \in recv \/ Reading
      BY <1>2 DEF Inv, SlotInvariant, Ownership
    <2>2. CASE Reading
      <3>1. Held = {} /\ \E m : Leaving = {m}
        BY <2>2, Places DEF Leaving, Reading
      <3>. QED
        BY <3>1
    <2>3. CASE ~Reading
      BY <2>1, <2>3, Places
    <2>. QED
      BY <2>2, <2>3
  <1>. QED
    BY <1>1, <1>2, ChannelCardinality, FS_EmptySet, FS_Singleton DEF Channel!Occupied

(* A message in the hand of a sender that has not reserved the slot is not *)
(* in the bag yet.                                                         *)
LEMMA FreshInHand ==
  ASSUME Inv, Placement, phase = "open", NEW s \in Senders,
         pc[s] \in Hand \ {"write", "abortSend"}
  PROVE  {Msg(s)} \in SUBSET Msgs /\ {Msg(s)} \subseteq Channel!Fresh
  <1>1. Msg(s) \in Msgs
    BY MsgType DEF Inv, SlotInvariant, Hand, SendLocations
  <1>2. InHand(Msg(s))
    BY DEF InHand, Msg, Hand
  <1>3. /\ slot # Msg(s) /\ value # Msg(s)
        /\ Msg(s) \notin received \cup returned \cup dropped
    BY <1>1, <1>2 DEF Placement, Placed
  <1>4. Msg(s) \notin Held
    <2>1. ASSUME NEW w \in Writers PROVE Msg(w) # Msg(s)
      BY DEF Writers, Hand, Msg
    <2>2. CASE Writers # {}
      BY <2>1, <2>2, Places
    <2>3. CASE Writers = {} /\ "COMMIT" \in recv
      BY <1>3, <2>3, Places
    <2>4. CASE Writers = {} /\ "COMMIT" \notin recv
      BY <2>4, Places
    <2>. QED
      BY <2>2, <2>3, <2>4
  <1>5. Msg(s) \notin Leaving
    BY <1>3 DEF Leaving
  <1>. QED
    BY <1>1, <1>3, <1>4, <1>5 DEF Channel!Fresh

(* A step that moves no writer, no claim and no hang-up is a stutter of    *)
(* the bag.                                                                *)
LEMMA BagKept ==
  ASSUME Writers' = Writers, pc'[Receiver] \in {"read", "free"} <=> Reading,
         Reading => pc'[Receiver] = pc[Receiver],
         UNCHANGED <<slot, value, received, returned, dropped, told>>,
         \A s \in Writers : calls'[s] = calls[s],
         phase # "freed", phase' # "freed",
         "COMMIT" \in recv' <=> "COMMIT" \in recv,
         "SENDER_DEAD" \in recv' <=> "SENDER_DEAD" \in recv,
         "RECEIVER_DEAD" \in send'.flags <=> "RECEIVER_DEAD" \in send.flags
  PROVE  UNCHANGED Channel!vars
  <1>1. {Msg(s) : s \in Writers}' = {Msg(s) : s \in Writers}
    BY DEF Msg
  <1>2. Held' = Held
    BY <1>1 DEF Held, Writers
  <1>3. Leaving' = Leaving
    BY DEF Leaving, Reading
  <1>. QED
    BY <1>2, <1>3 DEF Channel!vars, Channel!gone

LEMMA BagInit == Init => Channel!Init
  <1>. SUFFICES ASSUME Init PROVE Channel!Init
    OBVIOUS
  <1>1. \A t \in Threads : pc[t] \in {"idle", "unborn"}
    BY DEF Init
  <1>2. Held = {} /\ Leaving = {}
    BY <1>1 DEF Init, Held, Leaving, Threads
  <1>. QED
    BY <1>2 DEF Init, Channel!Init, EmptySend

(* Every step of the channel is a step of the bag or none at all: xadd     *)
(* accepts or refuses, fetch_and(SENDER_DEAD) claims, the swap that frees  *)
(* the slot delivers, and the drop of the Arc discards.                    *)
LEMMA BagStep ==
  ASSUME Inv, Placement, [Next]_vars
  PROVE  [Channel!Next]_(Channel!vars)
  <1>. USE DEF Inv, SlotInvariant, words, cell, OnlyMoves, Goto, Threads, Channel!gone
  <1>. DEFINE Step == Channel!Next \/ UNCHANGED Channel!vars
  <1>0. \A S \in SUBSET Msgs :
          Channel!Accept(S) \/ Channel!Refuse(S) \/ Channel!Claim(S)
          \/ Channel!Deliver(S) \/ Channel!Discard(S) => Step
    BY DEF Channel!Next
  <1>1. ASSUME NEW s \in Senders, NEW b \in BOOLEAN, phase = "open", CallSend(s, b) PROVE Step
    <2>1. s \notin Writers /\ Writers' = Writers /\ \A t \in Writers : calls'[t] = calls[t]
      BY <1>1 DEF CallSend, Writers, TypeOK
    <2>. QED
      BY <1>1, <2>1, BagKept, SlotAssumption DEF CallSend, Reading, TypeOK, fates
  <1>2. ASSUME NEW s \in Senders, phase = "open", Reserve(s) PROVE Step
    <2>1. /\ pc[s] = "reserve" /\ pc'[Receiver] = pc[Receiver]
          /\ \A t \in Senders : t # s => pc'[t] = pc[t]
          /\ UNCHANGED <<recv, slot, value, phase, calls, received, dropped, told>>
          /\ send'.flags = send.flags
      BY <1>2, SendWordClosed, SlotAssumption DEF Reserve, Refuse, Leave, TypeOK, locals, fates
    <2>2. "SENDER_DEAD" \notin recv
      BY <2>1 DEF HandleCount
    <2>3. {Msg(s)} \in SUBSET Msgs /\ {Msg(s)} \subseteq Channel!Fresh
      BY <1>2, <2>1, FreshInHand DEF Hand
    <2>4. Leaving' = Leaving
      BY <2>1 DEF Leaving
    <2>5. ASSUME pc'[s] \notin {"write", "commit"} PROVE Held' = Held
      <3>1. Writers' = Writers
        BY <2>1, <2>5 DEF Writers
      <3>. QED
        BY <2>1, <3>1 DEF Held, Writers, Msg
    <2>6. CASE Refuse(s)
      <3>1. Held' = Held
        BY <2>5, <2>6, <2>1 DEF Refuse, TypeOK
      <3>2. "RECEIVER_DEAD" \in send.flags \/ send.res > 0
        BY <1>2, <2>6, <2>1 DEF Reserve, Refuse, TypeOK
      <3>3. "RECEIVER_DEAD" \in send.flags \/ Channel!Occupied = 1
        BY <1>2, <3>2, OccupiedBySlot
      <3>4. Channel!Refuse({Msg(s)})
        BY <2>1, <2>2, <2>3, <2>4, <2>6, <3>1, <3>3 DEF Refuse, Channel!Refuse
      <3>. QED
        BY <1>0, <2>3, <3>4
    <2>7. CASE pc'[s] = "write"
      <3>1. SlotFree /\ returned' = returned
        BY <1>2, <2>1, <2>7 DEF Reserve, Refuse, TypeOK, SlotFree, fates
      <3>2. Channel!Occupied = 0 /\ Channel!Cardinality({Msg(s)}) = 1
        BY <1>2, <3>1, OccupiedBySlot, ChannelCardinality, FS_Singleton
      <3>3. Held' = Held \cup {Msg(s)}
        <4>1. Writers' = Writers \cup {s}
          BY <2>1, <2>7 DEF Writers
        <4>. QED
          BY <2>1, <4>1 DEF Held, Writers, Msg
      <3>4. Channel!Accept({Msg(s)})
        BY <2>1, <2>2, <2>3, <2>4, <3>1, <3>2, <3>3 DEF SlotFree, Channel!Accept
      <3>. QED
        BY <1>0, <2>3, <3>4
    <2>8. CASE ~Refuse(s) /\ pc'[s] # "write"
      <3>1. pc'[s] \in {"abortSend", "spin"} /\ returned' = returned
        BY <1>2, <2>1, <2>8 DEF Reserve, TypeOK, fates
      <3>. QED
        BY <2>1, <2>4, <2>5, <3>1 DEF Channel!vars
    <2>. QED
      BY <2>6, <2>7, <2>8
  <1>3. ASSUME NEW s \in Senders, phase = "open", WriteSlot(s) PROVE Step
    <2>1. Writers' = Writers /\ s \in Writers
      BY <1>3 DEF WriteSlot, Writers, TypeOK
    <2>2. "COMMIT" \notin recv /\ ~Reading /\ pc'[Receiver] = pc[Receiver]
      BY <1>3, <2>1, SlotAssumption DEF Ownership, WriteSlot, TypeOK
    <2>3. Held' = Held
      BY <1>3, <2>1, <2>2 DEF Held, Writers, WriteSlot, Msg, locals
    <2>4. Leaving' = Leaving
      BY <2>2 DEF Leaving, Reading
    <2>. QED
      BY <1>3, <2>3, <2>4 DEF WriteSlot, Channel!vars, fates
  <1>4. ASSUME NEW s \in Senders, phase = "open", Commit(s) PROVE Step
    <2>1. s \in Writers /\ slot = Msg(s) /\ "SENDER_DEAD" \notin recv
      BY <1>4 DEF Commit, Writers, Contents, HandleCount
    <2>2. Held = {Msg(s)} /\ Leaving = {} /\ ~Reading
      BY <1>4, <2>1, Places DEF Ownership
    <2>3. /\ Writers' = {} /\ recv' = {"COMMIT"} /\ slot' = slot /\ phase' = phase
          /\ pc'[Receiver] = pc[Receiver]
      BY <1>4, <2>1, SlotAssumption DEF Commit, Writers, Ownership, TypeOK
    <2>4. Held' = {slot} /\ Leaving' = {}
      BY <1>4, <2>2, <2>3 DEF Held, Writers, Leaving, Reading
    <2>. QED
      BY <1>4, <2>1, <2>2, <2>3, <2>4 DEF Commit, Channel!vars, fates
  <1>5. ASSUME NEW s \in Senders, phase = "open", WakeReceiver(s) PROVE Step
    <2>1. Writers' = Writers
      BY <1>5, WakeReceiverEffect DEF WakeReceiver, Writers
    <2>. QED
      BY <1>5, <2>1, BagKept, WakeReceiverEffect DEF WakeReceiver, Reading, locals, fates
  <1>6. ASSUME NEW s \in Senders, phase = "open", SpinSend(s) PROVE Step
    <2>1. /\ pc[s] = "spin" /\ pc'[Receiver] = pc[Receiver]
          /\ \A t \in Senders : t # s => pc'[t] = pc[t]
          /\ UNCHANGED <<recv, slot, value, phase, calls, received, dropped, told>>
          /\ pc'[s] \in {"spin", "reserve", "idle", "sleep"}
      BY <1>6, SlotAssumption DEF SpinSend, PollSlot, Refuse, Leave, TypeOK, fates
    <2>2. /\ "RECEIVER_DEAD" \in send'.flags <=> "RECEIVER_DEAD" \in send.flags
      BY <1>6, SendWordClosed DEF SpinSend, TypeOK
    <2>3. Held' = Held /\ Leaving' = Leaving
      <3>1. Writers' = Writers
        BY <2>1 DEF Writers
      <3>. QED
        BY <2>1, <3>1 DEF Held, Writers, Leaving, Msg
    <2>4. CASE returned' = returned
      BY <2>1, <2>2, <2>3, <2>4 DEF Channel!vars
    <2>5. CASE Refuse(s) /\ "RECEIVER_DEAD" \in send.flags
      <3>1. {Msg(s)} \in SUBSET Msgs /\ {Msg(s)} \subseteq Channel!Fresh
        BY <1>6, <2>1, FreshInHand DEF Hand
      <3>2. "SENDER_DEAD" \notin recv
        BY <2>1 DEF HandleCount
      <3>3. Channel!Refuse({Msg(s)})
        BY <2>1, <2>2, <2>3, <2>5, <3>1, <3>2 DEF Refuse, Channel!Refuse
      <3>. QED
        BY <1>0, <3>1, <3>3
    <2>. QED
      BY <1>6, <2>2, <2>4, <2>5 DEF SpinSend, PollSlot, fates
  <1>7. ASSUME NEW s \in Senders, phase = "open", SleepSend(s) PROVE Step
    BY <1>7, BagKept, SlotAssumption DEF SleepSend, Writers, Reading, TypeOK, fates
  <1>8. ASSUME NEW s \in Senders, phase = "open", PassTorch(s) PROVE Step
    <2>1. "RECEIVER_DEAD" \in send'.flags <=> "RECEIVER_DEAD" \in send.flags
      BY <1>8, SendWordClosed DEF PassTorch, TypeOK
    <2>. QED
      BY <1>8, <2>1, BagKept, SlotAssumption
         DEF PassTorch, Writers, Reading, TypeOK, locals, fates
  <1>9. ASSUME NEW s \in Senders, NEW t \in Senders, phase = "open", CloneSender(s, t) PROVE Step
    BY <1>9, BagKept, SlotAssumption DEF CloneSender, Writers, Reading, TypeOK, locals, fates
  <1>10. ASSUME NEW s \in Senders, phase = "open", DropSender(s) PROVE Step
    BY <1>10, BagKept, SlotAssumption DEF DropSender, Writers, Reading, TypeOK, locals, fates
  <1>11. ASSUME NEW s \in Senders, phase = "open", HangUp(s) PROVE Step
    <2>1. Writers' = Writers /\ pc'[Receiver] = pc[Receiver]
      BY <1>11, SlotAssumption DEF HangUp, Writers, TypeOK
    <2>2. Held' = Held /\ Leaving' = Leaving
      BY <1>11, <2>1 DEF HangUp, Held, Writers, Leaving, Msg, locals
    <2>3. Channel!SendersLeave
      BY <1>11, <2>2 DEF HangUp, Channel!SendersLeave, fates
    <2>. QED
      BY <2>3 DEF Channel!Next
  <1>12. ASSUME NEW s \in Senders, phase = "open", HangUpWake(s) PROVE Step
    <2>1. Writers' = Writers
      BY <1>12, SlotAssumption DEF HangUpWake, WakeAll, SleepingReceiver, Writers, TypeOK
    <2>. QED
      BY <1>12, <2>1, BagKept, SlotAssumption
         DEF HangUpWake, WakeAll, SleepingReceiver, Reading, TypeOK, locals, fates
  <1>13. ASSUME NEW b \in BOOLEAN, phase = "open", CallRecv(b) PROVE Step
    BY <1>13, BagKept, SlotAssumption DEF CallRecv, Writers, Reading, TypeOK, fates
  <1>14. ASSUME phase = "open", Poll PROVE Step
    <2>1. /\ Writers' = Writers /\ pc[Receiver] = "poll"
          /\ pc'[Receiver] \notin {"read", "free"}
          /\ UNCHANGED <<words, cell, phase, calls, received, returned, dropped>>
      BY <1>14, SlotAssumption DEF Poll, Leave, Writers, TypeOK, locals
    <2>2. CASE told' = told
      BY <1>14, <2>1, <2>2, BagKept DEF Reading
    <2>3. CASE told' /\ "COMMIT" \notin recv /\ "SENDER_DEAD" \in recv
      <3>1. Writers = {}
        BY <2>3 DEF HandleCount, Writers
      <3>2. Held = {} /\ Held' = {} /\ Leaving' = Leaving
        BY <1>14, <2>1, <2>3, <3>1, Places DEF Held, Writers, Leaving
      <3>3. "RECEIVER_DEAD" \notin send.flags
        BY <2>1 DEF Ownership
      <3>4. Channel!Tell
        BY <2>1, <2>3, <3>2, <3>3 DEF Channel!Tell
      <3>. QED
        BY <3>4 DEF Channel!Next
    <2>. QED
      BY <1>14, <2>2, <2>3 DEF Poll
  <1>15. ASSUME phase = "open", MarkSleeping PROVE Step
    BY <1>15, BagKept, SlotAssumption DEF MarkSleeping, Writers, Reading, TypeOK, locals, fates
  <1>16. ASSUME phase = "open", SleepRecv PROVE Step
    BY <1>16, BagKept, SlotAssumption DEF SleepRecv, Writers, Reading, TypeOK, locals, fates
  <1>17. ASSUME phase = "open", Take PROVE Step
    <2>1. "COMMIT" \in recv /\ Writers = {} /\ "RECEIVER_DEAD" \notin send.flags
      BY <1>17 DEF Take, Ownership
    <2>2. /\ Writers' = Writers /\ pc'[Receiver] = "read" /\ "COMMIT" \notin recv'
          /\ "SENDER_DEAD" \in recv' <=> "SENDER_DEAD" \in recv
          /\ UNCHANGED <<send, slot, phase, fates>>
      BY <1>17, SlotAssumption DEF Take, Consume, Writers, TypeOK
    <2>3. Held = {slot} /\ Held' = {} /\ Leaving = {} /\ Leaving' = {slot}
      BY <1>17, <2>1, <2>2, Places DEF Held, Writers, Leaving
    <2>4. {slot} \in SUBSET Msgs
      BY <1>17, <2>1 DEF Contents, TypeOK
    <2>5. Channel!Claim({slot})
      BY <2>1, <2>2, <2>3 DEF Channel!Claim, fates
    <2>. QED
      BY <1>0, <2>4, <2>5
  <1>18. ASSUME phase = "open", ReadSlot PROVE Step
    <2>1. Reading /\ Writers = {} /\ "COMMIT" \notin recv
      BY <1>18 DEF ReadSlot, Reading, Ownership
    <2>2. Writers' = Writers /\ pc'[Receiver] = "free" /\ UNCHANGED <<words, fates, phase>>
      BY <1>18, SlotAssumption DEF ReadSlot, Writers, TypeOK
    <2>3. Held = {} /\ Held' = {} /\ Leaving' = Leaving
      BY <1>18, <2>1, <2>2, Places DEF ReadSlot, Held, Writers, Leaving
    <2>. QED
      BY <2>2, <2>3 DEF Channel!vars, fates
  <1>19. ASSUME phase = "open", FreeSlot PROVE Step
    <2>1. Reading /\ Writers = {} /\ "COMMIT" \notin recv /\ "RECEIVER_DEAD" \notin send.flags
      BY <1>19 DEF FreeSlot, Reading, Ownership
    <2>2. /\ Writers' = Writers /\ pc'[Receiver] \in {"wake", "idle"} /\ send' = EmptySend
          /\ received' = received \cup {value}
          /\ UNCHANGED <<recv, phase, returned, dropped, told>>
      BY <1>19, SlotAssumption DEF FreeSlot, Writers, TypeOK
    <2>3. Held = {} /\ Held' = {} /\ Leaving = {value} /\ Leaving' = {}
      BY <1>19, <2>1, <2>2, Places DEF FreeSlot, Held, Writers, Leaving
    <2>4. {value} \in SUBSET Msgs
      BY <1>19 DEF FreeSlot, Contents, TypeOK
    <2>5. Channel!Deliver({value})
      BY <2>1, <2>2, <2>3 DEF Channel!Deliver, EmptySend
    <2>. QED
      BY <1>0, <2>4, <2>5
  <1>20. ASSUME phase = "open", WakeSender PROVE Step
    <2>1. Writers' = Writers
      BY <1>20, WakeSenderEffect DEF Writers
    <2>. QED
      BY <1>20, <2>1, BagKept, WakeSenderEffect DEF WakeSender, Reading, locals, fates
  <1>21. ASSUME phase = "open", DropReceiver PROVE Step
    <2>1. Writers' = Writers /\ pc[Receiver] = "idle" /\ pc'[Receiver] \in {"wakeAll", "dead"}
      BY <1>21, SlotAssumption DEF DropReceiver, Writers, TypeOK
    <2>2. Held' = Held /\ Leaving = {} /\ Leaving' = {}
      BY <1>21, <2>1 DEF DropReceiver, Held, Writers, Leaving, Msg, locals
    <2>3. Channel!ReceiversLeave
      BY <1>21, <2>2 DEF DropReceiver, Channel!ReceiversLeave, fates
    <2>. QED
      BY <2>3 DEF Channel!Next
  <1>22. ASSUME phase = "open", WakeAllSenders PROVE Step
    <2>1. Writers' = Writers
      BY <1>22, SlotAssumption DEF WakeAllSenders, WakeAll, SleepingSenders, Writers, TypeOK
    <2>. QED
      BY <1>22, <2>1, BagKept, SlotAssumption
         DEF WakeAllSenders, WakeAll, SleepingSenders, Reading, TypeOK, locals, fates
  <1>23. ASSUME NEW t \in Threads, phase = "open", Interrupt(t) PROVE Step
    BY <1>23, BagKept, SlotAssumption DEF Interrupt, Writers, Reading, TypeOK, locals, fates
  <1>24. ASSUME phase = "open", Teardown PROVE Step
    <2>1. \A s \in Senders : pc[s] \in {"unborn", "dead"}
      BY <1>24 DEF Teardown
    <2>2. "SENDER_DEAD" \in recv /\ "RECEIVER_DEAD" \in send.flags /\ Writers = {} /\ ~Reading
      BY <1>24, <2>1 DEF Teardown, HandleCount, Ownership, Writers, Reading
    <2>3. Writers' = {} /\ phase' = "freed" /\ Leaving' = Leaving /\ Leaving = {}
      BY <1>24, <2>2 DEF Teardown, Writers, Leaving, Reading
    <2>4. Held' = {} /\ Held = IF "COMMIT" \in recv THEN {slot} ELSE {}
      BY <1>24, <2>2, <2>3, Places DEF Held, Writers
    <2>5. "COMMIT" \in recv => slot \in Msgs
      BY <1>24 DEF Contents, TypeOK
    <2>6. Channel!Discard(Held)
      BY <1>24, <2>2, <2>3, <2>4 DEF Teardown, Channel!Discard
    <2>. QED
      BY <1>0, <2>4, <2>5, <2>6
  <1>25. ASSUME NEW s \in Senders, phase = "open", Abort(s) PROVE Step
    BY <1>25, BagKept DEF Abort, Writers, Reading, locals, fates
  <1>26. ASSUME UNCHANGED vars PROVE Step
    <2>1. Held' = Held /\ Leaving' = Leaving
      BY <1>26 DEF vars, locals, Held, Leaving, Msg
    <2>. QED
      BY <1>26, <2>1 DEF vars, fates, Channel!vars
  <1>. HIDE DEF Step, Inv
  <1>27. Step
    BY <1>1, <1>2, <1>3, <1>4, <1>5, <1>6, <1>7, <1>8, <1>9, <1>10, <1>11,
        <1>12, <1>13, <1>14, <1>15, <1>16, <1>17, <1>18, <1>19, <1>20, <1>21,
        <1>22, <1>23, <1>24, <1>25, <1>26
       DEF Next, SenderStep, ReceiverStep, UserStep, Finished
  <1>. QED
    BY <1>27 DEF Step

(* The slot channel is a bag of capacity one: a sender is refused only     *)
(* while the slot is taken or its receiver gone, a message is claimed and  *)
(* delivered once, and Disconnected is only reported of an empty bag       *)
(* without senders (slot.rs:187-243, 286-360, 363-374, 98-116).            *)
THEOREM SlotImplementsBag == Spec => ImplementsBag
  <1>1. Inv /\ Placement /\ [Next]_vars => [Channel!Next]_(Channel!vars)
    BY BagStep
  <1>. QED
    BY <1>1, BagInit, PlacementInvariance, PTL DEF Spec, ImplementsBag, Channel!Spec
==============================================================================
