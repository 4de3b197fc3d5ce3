----------------------------- MODULE MpmcProofs ------------------------------
(* Proofs about Mpmc, for any number of slots, threads, handles and items. *)
EXTENDS Mpmc, SlotMaskProofs

Inv == TypeOK /\ MpmcInvariant

LEMMA CountRangePositive == CountRange \in Nat \ {0} /\ CountRange = 2 * HandleLimit + 2
  BY MpmcAssumption DEF CountRange

LEMMA ThreadsFinite ==
  /\ IsFiniteSet(Threads) /\ IsFiniteSet(Senders) /\ IsFiniteSet(Receivers)
  /\ Senders \subseteq Threads /\ Receivers \subseteq Threads
  BY MpmcAssumption, FS_Union DEF Threads

(* Waking one thread, or all of a side, moves sleeping threads of that     *)
(* side to the torch and the waker to where it goes on (mpmc.rs:320-322,   *)
(* 366-368, 479-481 and 516-518).                                          *)
LEMMA WakeOneEffect ==
  ASSUME TypeOK, NEW S \in {Senders, Receivers}, NEW t \in Threads \ S, NEW loc \in Locations,
         pc[t] = "wake", pc' \in WakeOne(S, [pc EXCEPT ![t] = loc])
  PROVE  /\ pc' \in [Threads -> Locations] /\ pc'[t] = loc
         /\ \A u \in Threads \ {t} :
              pc'[u] = pc[u] \/ (u \in S /\ pc[u] = "asleep" /\ pc'[u] = "torch")
         /\ Asleep(S) # {} => \E u \in S : pc'[u] = "torch"
  <1>. DEFINE left == [pc EXCEPT ![t] = loc]
  <1>1. left \in [Threads -> Locations] /\ "torch" \in Locations /\ S \subseteq Threads
    BY ThreadsFinite DEF TypeOK, Locations, CallLocations
  <1>2. CASE Asleep(S) = {}
    BY <1>1, <1>2 DEF WakeOne
  <1>3. CASE Asleep(S) # {}
    <2>1. PICK w \in Asleep(S) : pc' = [left EXCEPT ![w] = "torch"]
      BY <1>3 DEF WakeOne
    <2>2. w \in S /\ pc[w] = "asleep" /\ w # t
      BY <2>1 DEF Asleep
    <2>. QED
      BY <1>1, <2>1, <2>2
  <1>. QED
    BY <1>2, <1>3

LEMMA WakeAllEffect ==
  ASSUME TypeOK, NEW S \in {Senders, Receivers}, NEW t \in Threads \ S, NEW loc \in Locations,
         pc' = WakeAll(S, [pc EXCEPT ![t] = loc])
  PROVE  /\ pc' \in [Threads -> Locations] /\ pc'[t] = loc
         /\ \A u \in Threads \ {t} :
              pc'[u] = pc[u] \/ (u \in S /\ pc[u] = "asleep" /\ pc'[u] = "torch")
  <1>1. "torch" \in Locations
    BY DEF Locations, CallLocations
  <1>2. \A u \in Threads : pc'[u] = IF u \in Asleep(S) THEN "torch" ELSE [pc EXCEPT ![t] = loc][u]
    BY DEF WakeAll
  <1>. QED
    BY <1>1, <1>2 DEF WakeAll, Asleep, TypeOK

LEMMA InitType == Init => TypeOK
  <1>. SUFFICES ASSUME Init PROVE TypeOK
    OBVIOUS
  <1>. USE MpmcAssumption, SlotCount
  <1>1. PICK s \in Senders, r \in Receivers :
          pc = [t \in Threads |-> IF t \in {s, r} THEN "idle" ELSE "unborn"]
    BY DEF Init
  <1>2. /\ pc \in [Threads -> Locations]
        /\ \A t \in Threads : pc[t] \in {"idle", "unborn"}
    BY <1>1 DEF Locations
  <1>3. /\ \A t \in Senders : pc[t] \notin RecvLocations
        /\ \A t \in Receivers : pc[t] \notin SendLocations
    BY <1>2, ThreadsFinite DEF RecvLocations, SendLocations
  <1>4. /\ blocking \in [Threads -> BOOLEAN] /\ spin \in [Threads -> 0..Spins]
        /\ bias \in [Threads -> Slots] /\ handle \in [Threads -> Threads]
        /\ retry \in [Threads -> SUBSET Slots] /\ batch \in [Threads -> SUBSET Msgs]
        /\ mine \in [Threads -> SUBSET Slots] /\ work \in [Threads -> SUBSET Slots]
    BY DEF Init, Slots
  <1>5. send \in Word /\ recv \in Word
    BY DEF Init, Word
  <1>6. numSenders \in 0..(CountRange - 1) /\ numReceivers \in 0..(CountRange - 1)
    BY CountRangePositive DEF Init
  <1>. QED
    BY <1>2, <1>3, <1>4, <1>5, <1>6 DEF Init, TypeOK

LEMMA BiasInRange == \A n \in Nat : BiasOf(n) \in Slots
  <1>. SUFFICES ASSUME NEW n \in Nat PROVE BiasOf(n) \in Slots
    OBVIOUS
  <1>1. n * Stride \in Nat
    BY MpmcAssumption
  <1>2. \A x \in Nat : x % CountRange \in Nat
    <2>. HIDE DEF CountRange
    <2>. QED
      BY CountRangePositive, Remainder
  <1>3. \A x \in Nat : x % N \in Slots
    BY SlotCount, Remainder DEF Slots
  <1>. DEFINE y == n * Stride
              z == y % CountRange
  <1>4. z \in Nat
    <2>. HIDE DEF y, CountRange
    <2>. QED
      BY <1>1, <1>2 DEF y
  <1>5. z % N \in Slots
    <2>. HIDE DEF z
    <2>. QED
      BY <1>3, <1>4
  <1>. QED
    BY <1>5, Zenon DEF BiasOf

LEMMA CountsInRange ==
  \A n \in 0..(CountRange - 1) : /\ OneMore(n) \in 0..(CountRange - 1)
                                 /\ OneLess(n) \in 0..(CountRange - 1)
  BY CountRangePositive, Remainder DEF OneMore, OneLess

(* The words the threads store are words. *)
LEMMA WordClosed ==
  ASSUME NEW w \in Word
  PROVE  /\ \A f \in Status : /\ With(w, f) \in Word /\ With(w, f).slots = w.slots
                              /\ With(w, f).flags = w.flags \cup {f}
         /\ WithTorch(w) = With(w, "SLEEPING")
         /\ AfterClaim(w) \in Word /\ AfterClaim(w).slots = {} /\ AfterClaim(w).flags = w.flags
         /\ \A S : AfterFree(w, S) \in Word
  BY DEF With, WithTorch, AfterClaim, AfterFree, Word

(* The word that a polling loop goes on with. *)
LEMMA PolledWord ==
  ASSUME NEW w \in Word, NEW n, NEW v, v = IF n = 0 THEN With(w, "SLEEPING") ELSE w
  PROVE  /\ v \in Word /\ v.slots = w.slots /\ (Dead(v) <=> Dead(w))
         /\ Sleeping(w) => Sleeping(v)
         /\ n = 0 => v.flags # {}
  <1>1. CASE n = 0
    BY <1>1, WordClosed DEF Status, Dead, Sleeping
  <1>2. CASE n # 0
    BY <1>2
  <1>. QED
    BY <1>1, <1>2

(* Leaving a call keeps the types of what it resets. *)
LEMMA LeaveType ==
  ASSUME TypeOK, NEW t \in Threads, Leave(t)
  PROVE  /\ blocking' \in [Threads -> BOOLEAN] /\ spin' \in [Threads -> 0..Spins]
         /\ batch' \in [Threads -> SUBSET Msgs] /\ mine' \in [Threads -> SUBSET Slots]
         /\ retry' \in [Threads -> SUBSET Slots]
         /\ bias' = bias /\ work' = work
         /\ batch'[t] = {} /\ mine'[t] = {} /\ retry'[t] = {}
         /\ \A u \in Threads \ {t} :
              batch'[u] = batch[u] /\ mine'[u] = mine[u] /\ retry'[u] = retry[u]
  BY MpmcAssumption DEF Leave, TypeOK

-----------------------------------------------------------------------------
(* Every thread stays at the locations of its side. *)
PcType == /\ pc \in [Threads -> Locations]
          /\ \A s \in Senders : pc[s] \notin RecvLocations
          /\ \A r \in Receivers : pc[r] \notin SendLocations

LEMMA Sides ==
  ASSUME NEW t \in Threads
  PROVE  (t \in Senders /\ t \notin Receivers) \/ (t \in Receivers /\ t \notin Senders)
  BY MpmcAssumption DEF Threads

(* The locations of both sides. *)
Common == CallLocations \cup {"unborn", "idle", "hangup", "hangupWake", "dead", "abortClone"}

LEMMA Move ==
  ASSUME PcType, NEW t \in Threads, NEW loc, Goto(t, loc),
         \/ loc \in Common
         \/ t \in Senders /\ loc \in SendLocations
         \/ t \in Receivers /\ loc \in RecvLocations
  PROVE  PcType' /\ pc'[t] = loc /\ \A u \in Threads \ {t} : pc'[u] = pc[u]
  <1>1. /\ loc \in Locations
        /\ t \in Senders => loc \notin RecvLocations
        /\ t \in Receivers => loc \notin SendLocations
    BY Sides DEF Common, Locations, SendLocations, RecvLocations, CallLocations
  <1>. QED
    BY <1>1, ThreadsFinite DEF PcType, Goto

(* Leaving a call with an error. *)
LEMMA ErrType ==
  ASSUME TypeOK, NEW t \in Threads, Refuse(t) \/ TellGone(t)
  PROVE  /\ PcType' /\ pc'[t] = "idle" /\ \A u \in Threads \ {t} : pc'[u] = pc[u]
         /\ unsent' \in SUBSET Msgs /\ received' \in SUBSET Msgs /\ returned' \in SUBSET Msgs
         /\ dropped' \in SUBSET Msgs /\ told' \in BOOLEAN
         /\ blocking' \in [Threads -> BOOLEAN] /\ spin' \in [Threads -> 0..Spins]
         /\ batch' \in [Threads -> SUBSET Msgs] /\ mine' \in [Threads -> SUBSET Slots]
         /\ retry' \in [Threads -> SUBSET Slots] /\ bias' = bias /\ work' = work
  <1>1. PcType /\ Leave(t) /\ Goto(t, "idle") /\ "idle" \in Common
    BY DEF TypeOK, PcType, Refuse, TellGone, Common
  <1>2. batch[t] \in SUBSET Msgs
    BY DEF TypeOK
  <1>3. /\ unsent' \in SUBSET Msgs /\ received' \in SUBSET Msgs /\ returned' \in SUBSET Msgs
        /\ dropped' \in SUBSET Msgs /\ told' \in BOOLEAN
    BY <1>2 DEF Refuse, TellGone, TypeOK
  <1>. QED
    BY <1>1, <1>3, Move, LeaveType

LEMMA OnlyMovesType ==
  ASSUME TypeOK, OnlyMoves, PcType' PROVE TypeOK'
  BY DEF OnlyMoves, TypeOK, PcType, locals, words, handles, views, fates

LEMMA WakeType ==
  ASSUME TypeOK, NEW S \in {Senders, Receivers}, NEW t \in Threads \ S, NEW loc \in Common,
         \/ pc[t] = "wake" /\ pc' \in WakeOne(S, [pc EXCEPT ![t] = loc])
         \/ pc' = WakeAll(S, [pc EXCEPT ![t] = loc])
  PROVE  /\ PcType' /\ pc'[t] = loc
         /\ \A u \in Threads \ {t} :
              pc'[u] = pc[u] \/ (u \in S /\ pc[u] = "asleep" /\ pc'[u] = "torch")
  <1>1. loc \in Locations /\ loc \notin SendLocations \cup RecvLocations
    BY DEF Common, Locations, SendLocations, RecvLocations, CallLocations
  <1>2. /\ pc' \in [Threads -> Locations] /\ pc'[t] = loc
        /\ \A u \in Threads \ {t} :
             pc'[u] = pc[u] \/ (u \in S /\ pc[u] = "asleep" /\ pc'[u] = "torch")
    BY <1>1, WakeOneEffect, WakeAllEffect
  <1>3. "torch" \notin SendLocations \cup RecvLocations
    BY DEF SendLocations, RecvLocations
  <1>. QED
    BY <1>1, <1>2, <1>3, ThreadsFinite DEF TypeOK, PcType

(* A turn of a polling loop; polling on needs a poll to be left.           *)
LEMMA PollType ==
  ASSUME TypeOK, NEW t \in Threads, NEW w, NEW ready, NEW again,
         again = IF t \in Senders THEN "reserve" ELSE "claim",
         Poll(t, w, ready, again), pc[t] = "spin", spin[t] = 0 => w.flags # {}
  PROVE  /\ PcType' /\ spin' \in [Threads -> 0..Spins]
         /\ \/ ready /\ pc'[t] = again
            \/ ~ready /\ pc'[t] = "sleep" /\ w.flags = {"SLEEPING"}
            \/ ~ready /\ pc'[t] = "spin" /\ w.flags = {}
         /\ \A u \in Threads \ {t} : pc'[u] = pc[u]
         /\ UNCHANGED <<blocking, bias, retry, batch, mine, work, fates>>
  <1>0. /\ PcType /\ spin \in [Threads -> 0..Spins] /\ spin[t] \in 0..Spins
         /\ \/ t \in Senders /\ again = "reserve"
            \/ t \in Receivers /\ again = "claim"
    BY Sides DEF TypeOK, PcType
  <1>1. spin' = [spin EXCEPT ![t] = Spins] => spin' \in [Threads -> 0..Spins]
    BY <1>0, MpmcAssumption
  <1>2. CASE ready /\ Goto(t, again) /\ spin' = [spin EXCEPT ![t] = Spins]
    <2>1. PcType' /\ pc'[t] = again /\ \A u \in Threads \ {t} : pc'[u] = pc[u]
      BY <1>0, <1>2, Move DEF SendLocations, RecvLocations
    <2>. QED
      BY <1>1, <1>2, <2>1 DEF Poll
  <1>3. CASE ~ready /\ w.flags = {"SLEEPING"} /\ Goto(t, "sleep") /\ spin' = [spin EXCEPT ![t] = Spins]
    <2>1. PcType' /\ pc'[t] = "sleep" /\ \A u \in Threads \ {t} : pc'[u] = pc[u]
      BY <1>0, <1>3, Move DEF Common, CallLocations
    <2>. QED
      BY <1>1, <1>3, <2>1 DEF Poll
  <1>4. CASE ~ready /\ w.flags = {} /\ UNCHANGED pc /\ spin' = [spin EXCEPT ![t] = @ - 1]
    <2>1. spin[t] - 1 \in 0..Spins
      BY <1>0, <1>4, MpmcAssumption
    <2>2. spin' \in [Threads -> 0..Spins]
      BY <1>0, <1>4, <2>1
    <2>. QED
      BY <1>0, <1>4, <2>2 DEF Poll, PcType
  <1>. QED
    BY <1>2, <1>3, <1>4 DEF Poll

LEMMA SenderType ==
  ASSUME Inv, NEW s \in Senders, SenderStep(s)
  PROVE  TypeOK'
  <1>. USE DEF Inv
  <1>0. /\ s \in Threads /\ s \notin Receivers /\ PcType
        /\ pc[s] \in Locations /\ pc[s] \notin RecvLocations
    BY ThreadsFinite, Sides DEF TypeOK, PcType
  <1>1. CASE Reserve(s)
    <2>1. Request(s) \in SUBSET Slots
      <3>1. BiasFor(s) \in Slots
        BY <1>0 DEF TypeOK, BiasFor
      <3>. QED
        BY <1>0, <3>1 DEF Request, RequestMask, TypeOK
    <2>2. send' \in Word
      BY <1>1, <2>1 DEF Reserve, TypeOK, Word
    <2>3. CASE Refuse(s) /\ UNCHANGED seen
      BY <1>0, <1>1, <2>2, <2>3, ErrType DEF Reserve, TypeOK, PcType, handles
    <2>4. CASE /\ Goto(s, "spin") /\ retry' = [retry EXCEPT ![s] = {}]
               /\ UNCHANGED <<mine, work, seen, blocking, spin, bias, batch, fates>>
      <3>1. PcType'
        BY <1>0, <2>4, Move DEF Common, CallLocations
      <3>. QED
        BY <1>0, <1>1, <2>2, <2>4, <3>1 DEF Reserve, TypeOK, PcType, fates, handles
    <2>5. CASE /\ UNCHANGED <<pc, mine, work, seen, blocking, spin, bias, batch, fates>>
               /\ retry' = [retry EXCEPT ![s] =
                              ClearExtraBits(Slots \ send.slots, Cardinality(batch[s]), BiasFor(s))]
      <3>1. retry' \in [Threads -> SUBSET Slots]
        <4>1. ClearExtraBits(Slots \ send.slots, Cardinality(batch[s]), BiasFor(s)) \in SUBSET Slots
          BY DEF ClearExtraBits, Highest, Lowest
        <4>. QED
          BY <2>5, <4>1 DEF TypeOK
      <3>. QED
        BY <1>1, <2>2, <2>5, <3>1 DEF Reserve, TypeOK, fates, handles
    <2>6. CASE /\ Goto(s, "write") /\ retry' = [retry EXCEPT ![s] = {}]
               /\ mine' = [mine EXCEPT ![s] = (Slots \ send.slots) \cap Request(s)]
               /\ work' = [work EXCEPT ![s] = (Slots \ send.slots) \cap Request(s)]
               /\ seen' = AcquireFence(s, (Slots \ send.slots) \cap Request(s))
               /\ UNCHANGED <<blocking, spin, bias, batch, fates>>
      <3>1. PcType'
        BY <1>0, <2>6, Move DEF SendLocations
      <3>2. seen' \in [Slots -> SUBSET Threads]
        BY <1>0, <2>6 DEF AcquireFence, Acquired, TypeOK
      <3>. QED
        BY <1>0, <1>1, <2>2, <2>6, <3>1, <3>2 DEF Reserve, TypeOK, PcType, fates, handles
    <2>. QED
      BY <1>1, <2>3, <2>4, <2>5, <2>6 DEF Reserve
  <1>2. CASE WriteSlot(s)
    <2>. DEFINE i == NextOf(work[s])
    <2>1. work[s] \in SUBSET Slots /\ work[s] # {}
      BY <1>0, <1>2 DEF WriteSlot, TypeOK, MpmcInvariant, Duties
    <2>2. i \in Slots
      BY <2>1, NextOfLeast
    <2>. HIDE DEF i
    <2>3. PICK m \in Popped(batch[s], 1) : /\ AccessSlot(s, i)
                                           /\ bag' = [bag EXCEPT ![i] = m]
                                           /\ batch' = [batch EXCEPT ![s] = @ \ {m}]
                                           /\ work' = [work EXCEPT ![s] = @ \ {i}]
      BY <1>2 DEF WriteSlot, i
    <2>4. m \in Msgs
      BY <1>0 DEF Popped, TypeOK
    <2>5. PcType'
      BY <1>0, <1>2, Move DEF WriteSlot, SendLocations
    <2>6. /\ raced' \in BOOLEAN /\ seen' \in [Slots -> SUBSET Threads]
          /\ sendView' \in SUBSET Slots /\ recvView' \in SUBSET Slots
      BY <1>0, <2>3 DEF AccessSlot, TypeOK
    <2>. QED
      BY <1>0, <1>2, <2>3, <2>4, <2>5, <2>6
        DEF WriteSlot, TypeOK, PcType, words, handles, fates
  <1>3. CASE Commit(s)
    <2>1. PcType'
      BY <1>0, <1>3, Move DEF Commit, Common, CallLocations
    <2>2. recv' \in Word /\ recvView' \in SUBSET Slots /\ unsent' \in SUBSET Msgs
      BY <1>0, <1>3 DEF Commit, Released, Word, TypeOK
    <2>. QED
      BY <1>0, <1>3, <2>1, <2>2, LeaveType DEF Commit, TypeOK, PcType, handles
  <1>4. CASE WakeReceiver(s)
    <2>1. PcType'
      BY <1>0, <1>4, WakeType DEF WakeReceiver, Common
    <2>. QED
      BY <1>4, <2>1, OnlyMovesType DEF WakeReceiver
  <1>5. CASE SpinSend(s)
    <2>1. send' \in Word /\ (spin[s] = 0 => send'.flags # {})
      BY <1>5, PolledWord DEF SpinSend, TypeOK
    <2>2. CASE Poll(s, send', send'.slots # Slots, "reserve")
      <3>. DEFINE ready == send'.slots # Slots
      <3>0. Poll(s, send', ready, "reserve")
        BY <2>2
      <3>. HIDE DEF ready
      <3>1. pc[s] = "spin"
        BY <1>5 DEF SpinSend
      <3>2. /\ PcType' /\ spin' \in [Threads -> 0..Spins]
            /\ UNCHANGED <<blocking, bias, retry, batch, mine, work, fates>>
        BY <1>0, <2>1, <3>0, <3>1, PollType
      <3>. QED
        BY <1>5, <2>1, <3>2 DEF SpinSend, TypeOK, PcType, handles, views, fates
    <2>3. CASE Refuse(s)
      BY <1>0, <1>5, <2>1, <2>3, ErrType DEF SpinSend, TypeOK, PcType, handles, views
    <2>. QED
      BY <1>5, <2>2, <2>3 DEF SpinSend
  <1>6. CASE SleepSend(s)
    <2>1. PcType'
      BY <1>0, <1>6, Move DEF SleepSend, Common, CallLocations
    <2>. QED
      BY <1>6, <2>1, OnlyMovesType DEF SleepSend
  <1>7. CASE PassTorchSend(s)
    <2>1. PcType' /\ send' \in Word
      BY <1>0, <1>7, Move, WordClosed DEF PassTorchSend, SendLocations, TypeOK, Status
    <2>. QED
      BY <1>7, <2>1 DEF PassTorchSend, TypeOK, PcType, locals, handles, views, fates
  <1>8. CASE HangUpSenders(s)
    <2>1. PcType' /\ recv' \in Word
      BY <1>0, <1>8, Move, WordClosed DEF HangUpSenders, Common, TypeOK, Status
    <2>. QED
      BY <1>8, <2>1 DEF HangUpSenders, TypeOK, PcType, locals, handles, views, fates
  <1>9. CASE WakeAllReceivers(s)
    <2>1. PcType'
      BY <1>0, <1>9, WakeType DEF WakeAllReceivers, Common
    <2>. QED
      BY <1>9, <2>1, OnlyMovesType DEF WakeAllReceivers
  <1>10. CASE Abort(s)
    BY <1>10 DEF Abort, TypeOK, locals, words, handles, views, fates
  <1>. QED
    BY <1>1, <1>2, <1>3, <1>4, <1>5, <1>6, <1>7, <1>8, <1>9, <1>10 DEF SenderStep

LEMMA ReceiverType ==
  ASSUME Inv, phase = "open", NEW r \in Receivers, ReceiverStep(r)
  PROVE  TypeOK'
  <1>. USE DEF Inv
  <1>0. /\ r \in Threads /\ r \notin Senders /\ PcType
        /\ pc[r] \in Locations /\ pc[r] \notin SendLocations
    BY ThreadsFinite, Sides DEF TypeOK, PcType
  <1>1. CASE Claim(r)
    <2>1. recv' \in Word /\ seen' \in [Slots -> SUBSET Threads] /\ recv.slots \in SUBSET Slots
      BY <1>0, <1>1, WordClosed DEF Claim, Acquired, TypeOK, Word
    <2>2. CASE TellGone(r)
      BY <1>0, <1>1, <2>1, <2>2, ErrType DEF Claim, TypeOK, PcType, handles
    <2>3. CASE Goto(r, "spin") /\ UNCHANGED <<locals, fates>>
      <3>1. PcType'
        BY <1>0, <2>3, Move DEF Common, CallLocations
      <3>. QED
        BY <1>1, <2>1, <2>3, <3>1 DEF Claim, TypeOK, PcType, locals, handles, fates
    <2>4. CASE Goto(r, "idle") /\ Leave(r) /\ UNCHANGED fates
      <3>1. PcType'
        BY <1>0, <2>4, Move DEF Common
      <3>. QED
        BY <1>0, <1>1, <2>1, <2>4, <3>1, LeaveType DEF Claim, TypeOK, PcType, handles, fates
    <2>5. CASE /\ Goto(r, "read")
               /\ mine' = [mine EXCEPT ![r] = recv.slots]
               /\ work' = [work EXCEPT ![r] = recv.slots]
               /\ UNCHANGED <<blocking, spin, bias, retry, batch, fates>>
      <3>1. PcType'
        BY <1>0, <2>5, Move DEF RecvLocations
      <3>. QED
        BY <1>1, <2>1, <2>5, <3>1 DEF Claim, TypeOK, PcType, handles, fates
    <2>. QED
      BY <1>1, <2>2, <2>3, <2>4, <2>5 DEF Claim
  <1>2. CASE ReadSlot(r)
    <2>. DEFINE i == NextOf(work[r])
    <2>1. work[r] \in SUBSET Slots /\ work[r] # {}
      BY <1>0, <1>2 DEF ReadSlot, TypeOK, MpmcInvariant, Duties
    <2>2. i \in Slots /\ i \in work[r]
      BY <2>1, NextOfLeast
    <2>. HIDE DEF i
    <2>3. bag[i] \in Msgs
      BY <2>2 DEF MpmcInvariant, Contents, Filled, TypeOK
    <2>4. /\ AccessSlot(r, i)
          /\ batch' = [batch EXCEPT ![r] = @ \cup {bag[i]}]
          /\ bag' = [bag EXCEPT ![i] = Uninit]
          /\ work' = [work EXCEPT ![r] = @ \ {i}]
      BY <1>2 DEF ReadSlot, i
    <2>5. PcType'
      BY <1>0, <1>2, Move DEF ReadSlot, RecvLocations
    <2>6. /\ raced' \in BOOLEAN /\ seen' \in [Slots -> SUBSET Threads]
          /\ sendView' \in SUBSET Slots /\ recvView' \in SUBSET Slots
      BY <1>0, <2>4 DEF AccessSlot, TypeOK
    <2>7. /\ batch' \in [Threads -> SUBSET Msgs] /\ work' \in [Threads -> SUBSET Slots]
          /\ bag' \in [Slots -> Msgs \cup {Uninit}]
      BY <1>0, <2>3, <2>4 DEF TypeOK
    <2>. QED
      BY <1>2, <2>5, <2>6, <2>7 DEF ReadSlot, TypeOK, PcType, words, handles, fates
  <1>3. CASE FreeSlots(r)
    <2>1. PcType'
      BY <1>0, <1>3, Move DEF FreeSlots, Common, CallLocations
    <2>2. send' \in Word /\ sendView' \in SUBSET Slots /\ received' \in SUBSET Msgs
      BY <1>0, <1>3, WordClosed DEF FreeSlots, Released, TypeOK
    <2>. QED
      BY <1>0, <1>3, <2>1, <2>2, LeaveType DEF FreeSlots, TypeOK, PcType, handles
  <1>4. CASE WakeSender(r)
    <2>1. PcType'
      BY <1>0, <1>4, WakeType DEF WakeSender, Common
    <2>. QED
      BY <1>4, <2>1, OnlyMovesType DEF WakeSender
  <1>5. CASE SpinRecv(r)
    <2>1. recv' \in Word /\ (spin[r] = 0 => recv'.flags # {})
      BY <1>5, PolledWord DEF SpinRecv, TypeOK
    <2>2. CASE Poll(r, recv', recv'.slots # {}, "claim")
      <3>. DEFINE ready == recv'.slots # {}
      <3>0. Poll(r, recv', ready, "claim")
        BY <2>2
      <3>. HIDE DEF ready
      <3>1. pc[r] = "spin"
        BY <1>5 DEF SpinRecv
      <3>2. /\ PcType' /\ spin' \in [Threads -> 0..Spins]
            /\ UNCHANGED <<blocking, bias, retry, batch, mine, work, fates>>
        BY <1>0, <2>1, <3>0, <3>1, PollType
      <3>. QED
        BY <1>5, <2>1, <3>2 DEF SpinRecv, TypeOK, PcType, handles, views, fates
    <2>3. CASE TellGone(r)
      BY <1>0, <1>5, <2>1, <2>3, ErrType DEF SpinRecv, TypeOK, PcType, handles, views
    <2>. QED
      BY <1>5, <2>2, <2>3 DEF SpinRecv
  <1>6. CASE SleepRecv(r)
    <2>1. PcType'
      BY <1>0, <1>6, Move DEF SleepRecv, Common, CallLocations
    <2>. QED
      BY <1>6, <2>1, OnlyMovesType DEF SleepRecv
  <1>7. CASE PassTorchRecv(r)
    <2>1. PcType' /\ recv' \in Word
      BY <1>0, <1>7, Move, WordClosed DEF PassTorchRecv, RecvLocations, TypeOK, Status
    <2>. QED
      BY <1>7, <2>1 DEF PassTorchRecv, TypeOK, PcType, locals, handles, views, fates
  <1>8. CASE HangUpReceivers(r)
    <2>1. PcType' /\ send' \in Word
      BY <1>0, <1>8, Move, WordClosed DEF HangUpReceivers, Common, TypeOK, Status
    <2>. QED
      BY <1>8, <2>1 DEF HangUpReceivers, TypeOK, PcType, locals, handles, views, fates
  <1>9. CASE WakeAllSenders(r)
    <2>1. PcType'
      BY <1>0, <1>9, WakeType DEF WakeAllSenders, Common
    <2>. QED
      BY <1>9, <2>1, OnlyMovesType DEF WakeAllSenders
  <1>10. CASE Abort(r)
    BY <1>10 DEF Abort, TypeOK, locals, words, handles, views, fates
  <1>. QED
    BY <1>1, <1>2, <1>3, <1>4, <1>5, <1>6, <1>7, <1>8, <1>9, <1>10 DEF ReceiverStep

LEMMA UserType ==
  ASSUME Inv, UserStep
  PROVE  TypeOK'
  <1>. USE DEF Inv
  <1>0. PcType /\ Senders \subseteq Threads /\ Receivers \subseteq Threads /\ "idle" \in Common
    BY ThreadsFinite DEF TypeOK, PcType, Common
  <1>1. ASSUME NEW s \in Senders, NEW k \in 1..MaxItems, NEW b \in BOOLEAN, CallSend(s, k, b)
        PROVE  TypeOK'
    <2>1. PcType'
      BY <1>0, <1>1, Move DEF CallSend, SendLocations
    <2>2. /\ Popped(UnsentBy(s), k) \in SUBSET Msgs /\ unsent' \in SUBSET Msgs
          /\ batch' = [batch EXCEPT ![s] = Popped(UnsentBy(s), k)]
      BY <1>1 DEF CallSend, Popped, UnsentBy, TypeOK
    <2>3. batch' \in [Threads -> SUBSET Msgs] /\ blocking' \in [Threads -> BOOLEAN]
      BY <1>0, <1>1, <2>2 DEF CallSend, TypeOK
    <2>. QED
      BY <1>1, <2>1, <2>2, <2>3 DEF CallSend, TypeOK, PcType, words, handles, views
  <1>2. ASSUME NEW r \in Receivers, NEW b \in BOOLEAN, CallRecv(r, b)
        PROVE  TypeOK'
    <2>1. PcType'
      BY <1>0, <1>2, Move DEF CallRecv, RecvLocations
    <2>2. blocking' \in [Threads -> BOOLEAN]
      BY <1>0, <1>2 DEF CallRecv, TypeOK
    <2>. QED
      BY <1>2, <2>1, <2>2 DEF CallRecv, TypeOK, PcType, words, handles, views, fates
  <1>3. ASSUME NEW s \in Senders, NEW t \in Senders, CloneSender(s, t)
        PROVE  TypeOK'
    <2>1. PcType'
      BY <1>0, <1>3, Move DEF CloneSender, Common
    <2>2. numSenders' \in 0..(CountRange - 1)
      BY <1>3, CountsInRange DEF CloneSender, TypeOK
    <2>3. bias' \in [Threads -> Slots]
      <3>1. numSenders \in Nat
        BY CountRangePositive DEF TypeOK
      <3>. QED
        BY <1>0, <1>3, <3>1, BiasInRange DEF CloneSender, TypeOK
    <2>. QED
      BY <1>3, <2>1, <2>2, <2>3 DEF CloneSender, TypeOK, PcType, words, views, fates
  <1>4. ASSUME NEW r \in Receivers, NEW t \in Receivers, CloneReceiver(r, t)
        PROVE  TypeOK'
    <2>1. PcType'
      BY <1>0, <1>4, Move DEF CloneReceiver, Common
    <2>2. numReceivers' \in 0..(CountRange - 1)
      BY <1>4, CountsInRange DEF CloneReceiver, TypeOK
    <2>. QED
      BY <1>4, <2>1, <2>2 DEF CloneReceiver, TypeOK, PcType, locals, words, views, fates
  <1>5. ASSUME NEW s \in Senders, DropSender(s)
        PROVE  TypeOK'
    <2>1. PcType'
      BY <1>0, <1>5, Move DEF DropSender, Common
    <2>2. numSenders' \in 0..(CountRange - 1)
      BY <1>5, CountsInRange DEF DropSender, TypeOK
    <2>. QED
      BY <1>5, <2>1, <2>2 DEF DropSender, TypeOK, PcType, locals, words, views, fates
  <1>6. ASSUME NEW r \in Receivers, DropReceiver(r)
        PROVE  TypeOK'
    <2>1. PcType'
      BY <1>0, <1>6, Move DEF DropReceiver, Common
    <2>2. numReceivers' \in 0..(CountRange - 1)
      BY <1>6, CountsInRange DEF DropReceiver, TypeOK
    <2>. QED
      BY <1>6, <2>1, <2>2 DEF DropReceiver, TypeOK, PcType, locals, words, views, fates
  <1>7. ASSUME NEW t \in Threads, NEW u \in Threads, Share(t, u)
        PROVE  TypeOK'
    <2>1. PcType'
      BY <1>0, <1>7, Move DEF Share
    <2>2. handle' \in [Threads -> Threads]
      BY <1>7 DEF Share, TypeOK
    <2>. QED
      BY <1>7, <2>1, <2>2 DEF Share, TypeOK, PcType, locals, words, views, fates
  <1>8. ASSUME NEW t \in Threads, Unshare(t)
        PROVE  TypeOK'
    <2>1. PcType'
      BY <1>0, <1>8, Move DEF Unshare, Common
    <2>. QED
      BY <1>8, <2>1, OnlyMovesType DEF Unshare
  <1>. QED
    BY <1>0, <1>1, <1>2, <1>3, <1>4, <1>5, <1>6, <1>7, <1>8 DEF UserStep

LEMMA TypeStep ==
  ASSUME Inv, [Next]_vars
  PROVE  TypeOK'
  <1>. USE DEF Inv
  <1>1. ASSUME NEW t \in Threads, Interrupt(t)
        PROVE  TypeOK'
    <2>1. PcType'
      BY <1>1, Move DEF Interrupt, Common, CallLocations, TypeOK, PcType
    <2>. QED
      BY <1>1, <2>1, OnlyMovesType DEF Interrupt
  <1>2. ASSUME NEW k \in 1..N, Teardown(k), phase = "open"
        PROVE  TypeOK'
    <2>1. \A i \in Lowest(recv.slots, k) : i \in Slots /\ bag[i] \in Msgs
      BY <1>2 DEF Lowest, MpmcInvariant, Contents, Filled, TypeOK, Word
    <2>2. dropped' \in SUBSET Msgs /\ bag' \in [Slots -> Msgs \cup {Uninit}] /\ phase' = "freed"
      BY <1>2, <2>1 DEF Teardown, TypeOK
    <2>. QED
      BY <1>2, <2>2 DEF Teardown, TypeOK, locals, words, handles, views
  <1>3. CASE UNCHANGED vars
    BY <1>3 DEF vars, TypeOK, locals, words, handles, views, fates
  <1>. QED
    BY <1>1, <1>2, <1>3, SenderType, ReceiverType, UserType DEF Next, Finished
-----------------------------------------------------------------------------
(* What Duties says of one thread. *)
Duty(t) ==
  /\ (mine[t] # {}) <=> pc[t] \in Busy
  /\ (work[t] # {}) <=> pc[t] \in {"write", "read"}
  /\ work[t] \subseteq mine[t]
  /\ t \in Receivers => (batch[t] # {} => pc[t] \in {"read", "free"})
  /\ t \in Senders =>
       /\ batch[t] # {} => pc[t] \in Offering \cup SendLocations
       /\ pc[t] \in Offering => batch[t] # {}
       /\ pc[t] = "write" => Cardinality(work[t]) <= Cardinality(batch[t])
       /\ retry[t] # {} => pc[t] = "reserve" /\ Cardinality(retry[t]) <= Cardinality(batch[t])
       /\ \A m \in batch[t] : m[1] = t

LEMMA DutiesByThread == Duties <=> \A t \in Threads : Duty(t)
  BY ThreadsFinite, Zenon DEF Duties, Duty

LEMMA DutiesByThreadNext == Duties' <=> \A t \in Threads : Duty(t)'
  BY ThreadsFinite, Zenon DEF Duties, Duty

(* Threads that do not enter or leave an operation keep their duties.      *)
Strolls(t) ==
  \/ pc'[t] = pc[t]
  \/ t \in Receivers /\ pc[t] \notin Busy /\ pc'[t] \notin Busy
  \/ t \in Senders /\ pc[t] \in Offering \ {"reserve"} /\ pc'[t] \in Offering
  \/ t \in Senders /\ pc[t] \notin Offering \cup Busy /\ pc'[t] \notin Offering \cup Busy

Kept(t) == /\ mine'[t] = mine[t] /\ work'[t] = work[t]
           /\ batch'[t] = batch[t] /\ retry'[t] = retry[t]

LEMMA DutyKept ==
  ASSUME TypeOK, NEW t \in Threads, Duty(t), Kept(t), Strolls(t)
  PROVE  Duty(t)'
  <1>1. CASE pc'[t] = pc[t]
    BY <1>1 DEF Duty, Kept
  <1>2. CASE t \in Receivers /\ pc[t] \notin Busy /\ pc'[t] \notin Busy
    BY <1>2, Sides DEF Duty, Kept, Busy
  <1>3. CASE t \in Senders /\ pc[t] \in Offering \ {"reserve"} /\ pc'[t] \in Offering
    BY <1>3, Sides DEF Duty, Kept, Busy, Offering
  <1>4. CASE t \in Senders /\ pc[t] \notin Offering \cup Busy /\ pc'[t] \notin Offering \cup Busy
    BY <1>4, Sides DEF Duty, Kept, Busy, Offering, SendLocations
  <1>. QED
    BY <1>1, <1>2, <1>3, <1>4 DEF Strolls

LEMMA DutyDone ==
  ASSUME NEW t \in Threads, mine'[t] = {}, work'[t] = {}, batch'[t] = {}, retry'[t] = {},
         pc'[t] \notin Busy, t \in Senders => pc'[t] \notin Offering
  PROVE  Duty(t)'
  BY DEF Duty, Busy

(* One thread acts, and the others keep what they have. *)
LEMMA DutiesOfOne ==
  ASSUME TypeOK, Duties, NEW t \in Threads, Duty(t)',
         \A u \in Threads \ {t} : Kept(u) /\ Strolls(u)
  PROVE  Duties'
  BY DutiesByThread, DutiesByThreadNext, DutyKept

LEMMA DutiesOfNone ==
  ASSUME TypeOK, Duties, \A u \in Threads : Kept(u) /\ Strolls(u)
  PROVE  Duties'
  BY DutiesByThread, DutiesByThreadNext, DutyKept

(* A thread without work leaves its call with nothing in its hands.        *)
LEMMA LeaveDuties ==
  ASSUME TypeOK, Duties, NEW t \in Threads, work[t] = {}, Leave(t),
         pc'[t] \notin Busy \cup Offering, \A u \in Threads \ {t} : pc'[u] = pc[u]
  PROVE  Duties'
  <1>1. /\ mine'[t] = {} /\ work'[t] = {} /\ batch'[t] = {} /\ retry'[t] = {}
        /\ \A u \in Threads \ {t} : Kept(u)
    BY LeaveType DEF Kept
  <1>2. Duty(t)'
    BY <1>1, DutyDone
  <1>3. \A u \in Threads \ {t} : Kept(u) /\ Strolls(u)
    BY <1>1 DEF Strolls
  <1>. QED
    BY <1>2, <1>3, DutiesOfOne

LEMMA MsgsFinite ==
  /\ IsFiniteSet(Msgs)
  /\ \A D \in SUBSET Msgs : /\ IsFiniteSet(D) /\ Cardinality(D) \in Nat
                            /\ (D = {} <=> Cardinality(D) = 0)
  <1>1. IsFiniteSet(Msgs)
    <2>1. IsFiniteSet(1..MaxItems)
      BY MpmcAssumption, FS_Interval
    <2>. QED
      BY <2>1, MpmcAssumption, FS_Product, Zenon DEF Msgs
  <1>. QED
    BY <1>1, FS_Subset, FS_CardinalityType, FS_EmptySet

LEMMA SlotSetsFinite ==
  \A S \in SUBSET Slots : /\ IsFiniteSet(S) /\ Cardinality(S) \in Nat
                          /\ (S = {} <=> Cardinality(S) = 0)
  BY SlotsFinite, FS_Subset, FS_CardinalityType, FS_EmptySet

(* Popping k items of one sender's yields k of them, or all. *)
LEMMA PoppedCount ==
  ASSUME NEW D \in SUBSET Msgs, NEW s, \A m \in D : m[1] = s, NEW k \in Nat
  PROVE  /\ Popped(D, k) \subseteq D
         /\ Cardinality(Popped(D, k)) = IF k < Cardinality(D) THEN k ELSE Cardinality(D)
  <1>. DEFINE key == [m \in D |-> m[2]]
  <1>1. IsFiniteSet(D)
    BY MsgsFinite
  <1>2. key \in [D -> Nat] /\ \A x, y \in D : key[x] = key[y] => x = y
    BY MpmcAssumption DEF Msgs
  <1>3. Popped(D, k) = Top(D, key, k)
    <2>1. \A x, y \in D : key[y] > key[x] <=> y[2] > x[2]
      OBVIOUS
    <2>. QED
      BY <2>1 DEF Popped, Top
  <1>. HIDE DEF key
  <1>. QED
    BY <1>1, <1>2, <1>3, TopCount

(* What a sender asks for is never empty and never more than it offers.    *)
LEMMA RequestFits ==
  ASSUME TypeOK, Duties, NEW s \in Senders, pc[s] = "reserve"
  PROVE  /\ Request(s) \in SUBSET Slots /\ Request(s) # {}
         /\ Cardinality(Request(s)) <= Cardinality(batch[s])
  <1>1. batch[s] \in SUBSET Msgs /\ batch[s] # {} /\ BiasFor(s) \in Slots
    BY ThreadsFinite DEF TypeOK, Duties, Offering, BiasFor
  <1>2. Cardinality(batch[s]) \in Nat \ {0}
    BY <1>1, MsgsFinite
  <1>3. CASE retry[s] = {}
    BY <1>1, <1>2, <1>3, RequestMaskFits DEF Request
  <1>4. CASE retry[s] # {}
    BY <1>4, ThreadsFinite DEF Request, Duties, TypeOK
  <1>. QED
    BY <1>3, <1>4

LEMMA SenderDuties ==
  ASSUME Inv, NEW s \in Senders, SenderStep(s)
  PROVE  Duties'
  <1>0. /\ TypeOK /\ Duties /\ s \in Threads /\ s \notin Receivers /\ Duty(s) /\ PcType
        /\ pc[s] \in Locations
    BY ThreadsFinite, Sides, DutiesByThread DEF Inv, MpmcInvariant, TypeOK, PcType
  <1>1. CASE Reserve(s)
    <2>. DEFINE got == (Slots \ send.slots) \cap Request(s)
    <2>1. /\ pc[s] = "reserve" /\ mine[s] = {} /\ work[s] = {} /\ batch[s] # {}
          /\ batch[s] \in SUBSET Msgs
      BY <1>0, <1>1 DEF Reserve, Duty, Busy, Offering, TypeOK
    <2>2. CASE Refuse(s)
      <3>1. Leave(s) /\ pc'[s] = "idle" /\ \A u \in Threads \ {s} : pc'[u] = pc[u]
        BY <1>0, <2>2, ErrType DEF Refuse
      <3>. QED
        BY <1>0, <2>1, <3>1, LeaveDuties DEF Busy, Offering
    <2>3. CASE /\ Goto(s, "spin") /\ retry' = [retry EXCEPT ![s] = {}]
               /\ UNCHANGED <<mine, work, batch>>
      <3>1. Duty(s)'
        BY <1>0, <2>1, <2>3 DEF Goto, TypeOK, Duty, Busy, Offering
      <3>2. \A u \in Threads \ {s} : Kept(u) /\ Strolls(u)
        BY <1>0, <2>3 DEF Goto, TypeOK, Kept, Strolls
      <3>. QED
        BY <1>0, <3>1, <3>2, DutiesOfOne
    <2>4. CASE /\ UNCHANGED <<pc, mine, work, batch>> /\ Slots \ send.slots # {}
               /\ retry' = [retry EXCEPT ![s] =
                              ClearExtraBits(Slots \ send.slots, Cardinality(batch[s]), BiasFor(s))]
      <3>1. Cardinality(ClearExtraBits(Slots \ send.slots, Cardinality(batch[s]), BiasFor(s)))
              <= Cardinality(batch[s])
        <4>1. Cardinality(batch[s]) \in Nat \ {0}
          BY <2>1, MsgsFinite
        <4>. QED
          BY <2>4, <4>1, ClearExtraBitsFits
      <3>2. Duty(s)'
        BY <1>0, <2>1, <2>4, <3>1 DEF TypeOK, Duty
      <3>3. \A u \in Threads \ {s} : Kept(u) /\ Strolls(u)
        BY <1>0, <2>4 DEF TypeOK, Kept, Strolls
      <3>. QED
        BY <1>0, <3>2, <3>3, DutiesOfOne
    <2>5. CASE /\ Goto(s, "write") /\ got # {} /\ retry' = [retry EXCEPT ![s] = {}]
               /\ mine' = [mine EXCEPT ![s] = got] /\ work' = [work EXCEPT ![s] = got]
               /\ UNCHANGED batch
      <3>1. Cardinality(got) <= Cardinality(batch[s])
        <4>1. /\ Request(s) \in SUBSET Slots
              /\ Cardinality(Request(s)) <= Cardinality(batch[s])
          BY <1>0, <2>1, RequestFits
        <4>2. /\ IsFiniteSet(Request(s)) /\ got \in SUBSET Request(s)
              /\ Cardinality(batch[s]) \in Nat /\ Cardinality(Request(s)) \in Nat
              /\ Cardinality(got) \in Nat
          BY <2>1, <4>1, SlotSetsFinite, MsgsFinite
        <4>3. Cardinality(got) <= Cardinality(Request(s))
          BY <4>2, FS_Subset
        <4>. QED
          BY <4>1, <4>2, <4>3
      <3>2. Duty(s)'
        <4>. HIDE DEF got
        <4>. QED
          BY <1>0, <2>1, <2>5, <3>1 DEF Goto, TypeOK, Duty, Busy, Offering, SendLocations
      <3>3. \A u \in Threads \ {s} : Kept(u) /\ Strolls(u)
        BY <1>0, <2>5 DEF Goto, TypeOK, Kept, Strolls
      <3>. QED
        BY <1>0, <3>2, <3>3, DutiesOfOne
    <2>. QED
      BY <1>1, <2>2, <2>3, <2>4, <2>5 DEF Reserve
  <1>2. CASE WriteSlot(s)
    <2>. DEFINE i == NextOf(work[s])
    <2>1. /\ work[s] \in SUBSET Slots /\ work[s] # {} /\ pc[s] = "write"
          /\ batch[s] \in SUBSET Msgs /\ Cardinality(work[s]) <= Cardinality(batch[s])
      BY <1>0, <1>2 DEF WriteSlot, TypeOK, Duty
    <2>2. i \in work[s]
      BY <2>1, NextOfLeast
    <2>. HIDE DEF i
    <2>3. PICK m \in Popped(batch[s], 1) : /\ batch' = [batch EXCEPT ![s] = @ \ {m}]
                                           /\ work' = [work EXCEPT ![s] = @ \ {i}]
      BY <1>2 DEF WriteSlot, i
    <2>4. /\ work'[s] = work[s] \ {i} /\ batch'[s] = batch[s] \ {m} /\ m \in batch[s]
          /\ UNCHANGED <<mine, retry>>
      BY <1>0, <1>2, <2>3 DEF WriteSlot, Popped, TypeOK
    <2>5. Cardinality(work'[s]) <= Cardinality(batch'[s])
      <3>1. IsFiniteSet(work[s]) /\ Cardinality(work[s]) \in Nat
        BY <2>1, SlotSetsFinite
      <3>2. IsFiniteSet(batch[s]) /\ Cardinality(batch[s]) \in Nat
        BY <2>1, MsgsFinite
      <3>3. Cardinality(work[s] \ {i}) = Cardinality(work[s]) - 1
        BY <2>2, <3>1, FS_RemoveElement
      <3>4. Cardinality(batch[s] \ {m}) = Cardinality(batch[s]) - 1
        BY <2>4, <3>2, FS_RemoveElement
      <3>. QED
        BY <2>1, <2>4, <3>1, <3>2, <3>3, <3>4
    <2>6. pc'[s] = (IF work'[s] = {} THEN "commit" ELSE "write")
      BY <1>0, <1>2 DEF WriteSlot, Goto, TypeOK
    <2>7. Duty(s)'
      BY <1>0, <2>1, <2>4, <2>5, <2>6 DEF Duty, Busy, Offering, SendLocations
    <2>8. \A u \in Threads \ {s} : Kept(u) /\ Strolls(u)
      BY <1>0, <1>2, <2>3, <2>4 DEF WriteSlot, Goto, TypeOK, Kept, Strolls
    <2>. QED
      BY <1>0, <2>7, <2>8, DutiesOfOne
  <1>3. CASE Commit(s)
    <2>1. /\ Leave(s) /\ work[s] = {} /\ pc'[s] \in {"wake", "idle"}
          /\ \A u \in Threads \ {s} : pc'[u] = pc[u]
      BY <1>0, <1>3 DEF Commit, Duty, Goto, PcType
    <2>. QED
      BY <1>0, <2>1, LeaveDuties DEF Busy, Offering
  <1>4. CASE WakeReceiver(s)
    <2>1. \A u \in Threads : Kept(u) /\ Strolls(u)
      BY <1>0, <1>4, WakeType
        DEF WakeReceiver, OnlyMoves, locals, Common, Kept, Strolls, Busy, Offering
    <2>. QED
      BY <1>0, <2>1, DutiesOfNone
  <1>5. CASE SpinSend(s)
    <2>1. pc[s] = "spin" /\ send' = IF spin[s] = 0 THEN With(send, "SLEEPING") ELSE send
      BY <1>5 DEF SpinSend
    <2>. send' \in Word /\ (spin[s] = 0 => send'.flags # {})
      BY <1>0, <2>1, PolledWord DEF TypeOK
    <2>2. CASE Poll(s, send', send'.slots # Slots, "reserve")
      <3>1. /\ pc'[s] \in {"spin", "reserve", "sleep"}
            /\ UNCHANGED <<mine, work, batch, retry>>
            /\ \A u \in Threads \ {s} : pc'[u] = pc[u]
        BY <1>0, <2>1, <2>2, PollType
      <3>2. \A u \in Threads : Kept(u) /\ Strolls(u)
        BY <2>1, <3>1 DEF Kept, Strolls, Offering
      <3>. QED
        BY <1>0, <3>2, DutiesOfNone
    <2>3. CASE Refuse(s)
      <3>0. work[s] = {}
        BY <1>0, <2>1 DEF Duty
      <3>1. Leave(s) /\ pc'[s] = "idle" /\ \A u \in Threads \ {s} : pc'[u] = pc[u]
        BY <1>0, <2>3, ErrType DEF Refuse
      <3>. QED
        BY <1>0, <3>0, <3>1, LeaveDuties DEF Busy, Offering
    <2>. QED
      BY <1>5, <2>2, <2>3 DEF SpinSend
  <1>6. CASE SleepSend(s) \/ PassTorchSend(s)
    <2>1. \A u \in Threads : Kept(u) /\ Strolls(u)
      BY <1>0, <1>6
        DEF SleepSend, PassTorchSend, OnlyMoves, locals, Goto, Kept, Strolls, Offering, PcType
    <2>. QED
      BY <1>0, <2>1, DutiesOfNone
  <1>7. CASE HangUpSenders(s)
    <2>1. \A u \in Threads : Kept(u) /\ Strolls(u)
      BY <1>0, <1>7 DEF HangUpSenders, locals, Goto, Kept, Strolls, Busy, Offering, PcType
    <2>. QED
      BY <1>0, <2>1, DutiesOfNone
  <1>8. CASE WakeAllReceivers(s)
    <2>0. /\ pc[s] = "hangupWake" /\ pc'[s] = "dead"
          /\ \A u \in Threads \ {s} :
               pc'[u] = pc[u] \/ (u \in Receivers /\ pc[u] = "asleep" /\ pc'[u] = "torch")
      BY <1>0, <1>8, WakeType DEF WakeAllReceivers, Common
    <2>1. \A u \in Threads : Kept(u) /\ Strolls(u)
      BY <1>0, <1>8, <2>0, Sides DEF WakeAllReceivers, OnlyMoves, locals, Kept, Strolls, Busy, Offering
    <2>. QED
      BY <1>0, <2>1, DutiesOfNone
  <1>9. CASE Abort(s)
    <2>1. \A u \in Threads : Kept(u) /\ Strolls(u)
      BY <1>9 DEF Abort, locals, Kept, Strolls
    <2>. QED
      BY <1>0, <2>1, DutiesOfNone
  <1>. QED
    BY <1>1, <1>2, <1>3, <1>4, <1>5, <1>6, <1>7, <1>8, <1>9 DEF SenderStep

LEMMA ReceiverDuties ==
  ASSUME Inv, NEW r \in Receivers, ReceiverStep(r)
  PROVE  Duties'
  <1>0. /\ TypeOK /\ Duties /\ r \in Threads /\ r \notin Senders /\ Duty(r) /\ PcType
        /\ pc[r] \in Locations
    BY ThreadsFinite, Sides, DutiesByThread DEF Inv, MpmcInvariant, TypeOK, PcType
  <1>1. CASE Claim(r)
    <2>1. pc[r] = "claim" /\ mine[r] = {} /\ work[r] = {} /\ batch[r] = {}
      BY <1>0, <1>1 DEF Claim, Duty, Busy
    <2>2. CASE TellGone(r) \/ (Goto(r, "idle") /\ Leave(r))
      <3>1. Leave(r) /\ pc'[r] = "idle" /\ \A u \in Threads \ {r} : pc'[u] = pc[u]
        BY <1>0, <2>2 DEF TellGone, Goto, PcType
      <3>. QED
        BY <1>0, <2>1, <3>1, LeaveDuties DEF Busy, Offering
    <2>3. CASE Goto(r, "spin") /\ UNCHANGED locals
      <3>1. \A u \in Threads : Kept(u) /\ Strolls(u)
        BY <1>0, <2>1, <2>3 DEF Goto, locals, PcType, Kept, Strolls, Busy
      <3>. QED
        BY <1>0, <3>1, DutiesOfNone
    <2>4. CASE /\ Goto(r, "read") /\ recv.slots # {} /\ UNCHANGED <<batch, retry>>
               /\ mine' = [mine EXCEPT ![r] = recv.slots]
               /\ work' = [work EXCEPT ![r] = recv.slots]
      <3>1. Duty(r)'
        BY <1>0, <2>1, <2>4 DEF Goto, TypeOK, Duty, Busy
      <3>2. \A u \in Threads \ {r} : Kept(u) /\ Strolls(u)
        BY <1>0, <2>4 DEF Goto, TypeOK, Kept, Strolls
      <3>. QED
        BY <1>0, <3>1, <3>2, DutiesOfOne
    <2>. QED
      BY <1>1, <2>2, <2>3, <2>4 DEF Claim
  <1>2. CASE ReadSlot(r)
    <2>. DEFINE i == NextOf(work[r])
    <2>1. work[r] \in SUBSET Slots /\ work[r] # {} /\ pc[r] = "read"
      BY <1>0, <1>2 DEF ReadSlot, TypeOK, Duty
    <2>2. i \in work[r]
      BY <2>1, NextOfLeast
    <2>. HIDE DEF i
    <2>3. /\ batch' = [batch EXCEPT ![r] = @ \cup {bag[i]}]
          /\ work' = [work EXCEPT ![r] = @ \ {i}]
          /\ UNCHANGED <<mine, retry>>
      BY <1>2 DEF ReadSlot, i
    <2>4. pc'[r] = (IF work'[r] = {} THEN "free" ELSE "read")
      BY <1>0, <1>2 DEF ReadSlot, Goto, TypeOK
    <2>5. Duty(r)'
      BY <1>0, <2>1, <2>2, <2>3, <2>4 DEF Duty, Busy, TypeOK
    <2>6. \A u \in Threads \ {r} : Kept(u) /\ Strolls(u)
      BY <1>0, <1>2, <2>3 DEF ReadSlot, Goto, TypeOK, Kept, Strolls
    <2>. QED
      BY <1>0, <2>5, <2>6, DutiesOfOne
  <1>3. CASE FreeSlots(r)
    <2>1. /\ Leave(r) /\ work[r] = {} /\ pc'[r] \in {"wake", "idle"}
          /\ \A u \in Threads \ {r} : pc'[u] = pc[u]
      BY <1>0, <1>3 DEF FreeSlots, Duty, Goto, PcType
    <2>. QED
      BY <1>0, <2>1, LeaveDuties DEF Busy, Offering
  <1>4. CASE WakeSender(r)
    <2>1. \A u \in Threads : Kept(u) /\ Strolls(u)
      BY <1>0, <1>4, WakeType
        DEF WakeSender, OnlyMoves, locals, Common, Kept, Strolls, Busy, Offering
    <2>. QED
      BY <1>0, <2>1, DutiesOfNone
  <1>5. CASE SpinRecv(r)
    <2>1. pc[r] = "spin" /\ recv' = IF spin[r] = 0 THEN With(recv, "SLEEPING") ELSE recv
      BY <1>5 DEF SpinRecv
    <2>. recv' \in Word /\ (spin[r] = 0 => recv'.flags # {})
      BY <1>0, <2>1, PolledWord DEF TypeOK
    <2>2. CASE Poll(r, recv', recv'.slots # {}, "claim")
      <3>1. /\ pc'[r] \in {"spin", "claim", "sleep"}
            /\ UNCHANGED <<mine, work, batch, retry>>
            /\ \A u \in Threads \ {r} : pc'[u] = pc[u]
        BY <1>0, <2>1, <2>2, PollType
      <3>2. \A u \in Threads : Kept(u) /\ Strolls(u)
        BY <2>1, <3>1 DEF Kept, Strolls, Busy
      <3>. QED
        BY <1>0, <3>2, DutiesOfNone
    <2>3. CASE TellGone(r)
      <3>0. work[r] = {}
        BY <1>0, <2>1 DEF Duty
      <3>1. Leave(r) /\ pc'[r] = "idle" /\ \A u \in Threads \ {r} : pc'[u] = pc[u]
        BY <1>0, <2>3, ErrType DEF TellGone
      <3>. QED
        BY <1>0, <3>0, <3>1, LeaveDuties DEF Busy, Offering
    <2>. QED
      BY <1>5, <2>2, <2>3 DEF SpinRecv
  <1>6. CASE SleepRecv(r) \/ PassTorchRecv(r)
    <2>1. \A u \in Threads : Kept(u) /\ Strolls(u)
      BY <1>0, <1>6
        DEF SleepRecv, PassTorchRecv, OnlyMoves, locals, Goto, Kept, Strolls, Busy, PcType
    <2>. QED
      BY <1>0, <2>1, DutiesOfNone
  <1>7. CASE HangUpReceivers(r)
    <2>1. \A u \in Threads : Kept(u) /\ Strolls(u)
      BY <1>0, <1>7 DEF HangUpReceivers, locals, Goto, Kept, Strolls, Busy, PcType
    <2>. QED
      BY <1>0, <2>1, DutiesOfNone
  <1>8. CASE WakeAllSenders(r)
    <2>0. /\ pc[r] = "hangupWake" /\ pc'[r] = "dead"
          /\ \A u \in Threads \ {r} :
               pc'[u] = pc[u] \/ (u \in Senders /\ pc[u] = "asleep" /\ pc'[u] = "torch")
      BY <1>0, <1>8, WakeType DEF WakeAllSenders, Common
    <2>1. \A u \in Threads : Kept(u) /\ Strolls(u)
      BY <1>0, <1>8, <2>0, Sides DEF WakeAllSenders, OnlyMoves, locals, Kept, Strolls, Busy, Offering
    <2>. QED
      BY <1>0, <2>1, DutiesOfNone
  <1>9. CASE Abort(r)
    <2>1. \A u \in Threads : Kept(u) /\ Strolls(u)
      BY <1>9 DEF Abort, locals, Kept, Strolls
    <2>. QED
      BY <1>0, <2>1, DutiesOfNone
  <1>. QED
    BY <1>1, <1>2, <1>3, <1>4, <1>5, <1>6, <1>7, <1>8, <1>9 DEF ReceiverStep

(* A call of send offers at least one message. *)
LEMMA Offers ==
  ASSUME TypeOK, NEW s \in Senders, NEW k \in 1..MaxItems, k <= Cardinality(UnsentBy(s))
  PROVE  /\ Popped(UnsentBy(s), k) \subseteq UnsentBy(s)
         /\ UnsentBy(s) \in SUBSET Msgs
         /\ Cardinality(Popped(UnsentBy(s), k)) = k
         /\ Popped(UnsentBy(s), k) # {}
  <1>1. UnsentBy(s) \in SUBSET Msgs /\ \A m \in UnsentBy(s) : m[1] = s
    BY DEF UnsentBy, TypeOK
  <1>2. k \in Nat \ {0} /\ Cardinality(UnsentBy(s)) \in Nat
    BY <1>1, MsgsFinite, MpmcAssumption
  <1>3. /\ Popped(UnsentBy(s), k) \subseteq UnsentBy(s)
        /\ Cardinality(Popped(UnsentBy(s), k)) = k
    BY <1>1, <1>2, PoppedCount
  <1>. QED
    BY <1>1, <1>2, <1>3, MsgsFinite

LEMMA UserDuties ==
  ASSUME Inv, UserStep
  PROVE  Duties'
  <1>0. /\ TypeOK /\ Duties /\ PcType
        /\ Senders \subseteq Threads /\ Receivers \subseteq Threads
        /\ \A t \in Threads : Duty(t)
    BY ThreadsFinite, DutiesByThread DEF Inv, MpmcInvariant, TypeOK, PcType
  <1>1. ASSUME NEW s \in Senders, NEW k \in 1..MaxItems, NEW b \in BOOLEAN, CallSend(s, k, b)
        PROVE  Duties'
    <2>1. /\ Popped(UnsentBy(s), k) # {}
          /\ \A m \in Popped(UnsentBy(s), k) : m[1] = s
      BY <1>0, <1>1, Offers DEF CallSend, UnsentBy
    <2>2. /\ mine'[s] = {} /\ work'[s] = {} /\ retry'[s] = {} /\ pc'[s] = "reserve"
          /\ batch'[s] = Popped(UnsentBy(s), k)
      BY <1>0, <1>1 DEF CallSend, Duty, Busy, Goto, TypeOK
    <2>3. Duty(s)'
      BY <2>1, <2>2, Sides, ThreadsFinite DEF Duty, Busy, Offering, SendLocations
    <2>4. \A u \in Threads \ {s} : Kept(u) /\ Strolls(u)
      BY <1>0, <1>1 DEF CallSend, Goto, TypeOK, Kept, Strolls
    <2>. QED
      BY <1>0, <2>3, <2>4, DutiesOfOne
  <1>2. ASSUME NEW r \in Receivers, NEW b \in BOOLEAN, CallRecv(r, b)
        PROVE  Duties'
    <2>1. \A u \in Threads : Kept(u) /\ Strolls(u)
      BY <1>0, <1>2 DEF CallRecv, Goto, PcType, Kept, Strolls, Busy
    <2>. QED
      BY <1>0, <2>1, DutiesOfNone
  <1>3. ASSUME NEW s \in Senders, NEW t \in Senders, CloneSender(s, t)
        PROVE  Duties'
    <2>1. \A u \in Threads : Kept(u) /\ Strolls(u)
      BY <1>0, <1>3 DEF CloneSender, Goto, PcType, Kept, Strolls, Busy, Offering
    <2>. QED
      BY <1>0, <2>1, DutiesOfNone
  <1>4. ASSUME NEW r \in Receivers, NEW t \in Receivers, CloneReceiver(r, t)
        PROVE  Duties'
    <2>1. \A u \in Threads : Kept(u) /\ Strolls(u)
      BY <1>0, <1>4 DEF CloneReceiver, locals, Goto, PcType, Kept, Strolls, Busy
    <2>. QED
      BY <1>0, <2>1, DutiesOfNone
  <1>5. ASSUME NEW s \in Senders, DropSender(s)
        PROVE  Duties'
    <2>1. \A u \in Threads : Kept(u) /\ Strolls(u)
      BY <1>0, <1>5 DEF DropSender, locals, Goto, PcType, Kept, Strolls, Busy, Offering
    <2>. QED
      BY <1>0, <2>1, DutiesOfNone
  <1>6. ASSUME NEW r \in Receivers, DropReceiver(r)
        PROVE  Duties'
    <2>1. \A u \in Threads : Kept(u) /\ Strolls(u)
      BY <1>0, <1>6 DEF DropReceiver, locals, Goto, PcType, Kept, Strolls, Busy
    <2>. QED
      BY <1>0, <2>1, DutiesOfNone
  <1>7. ASSUME NEW t \in Threads, NEW u \in Threads, Share(t, u)
        PROVE  Duties'
    <2>1. \A v \in Threads : Kept(v) /\ Strolls(v)
      BY <1>0, <1>7, Sides DEF Share, locals, Goto, PcType, Kept, Strolls, Busy, Offering
    <2>. QED
      BY <1>0, <2>1, DutiesOfNone
  <1>8. ASSUME NEW t \in Threads, Unshare(t)
        PROVE  Duties'
    <2>1. \A v \in Threads : Kept(v) /\ Strolls(v)
      BY <1>0, <1>8, Sides
        DEF Unshare, OnlyMoves, locals, Goto, PcType, Kept, Strolls, Busy, Offering
    <2>. QED
      BY <1>0, <2>1, DutiesOfNone
  <1>. QED
    BY <1>0, <1>1, <1>2, <1>3, <1>4, <1>5, <1>6, <1>7, <1>8 DEF UserStep

LEMMA DutiesStep ==
  ASSUME Inv, [Next]_vars
  PROVE  Duties'
  <1>0. TypeOK /\ Duties /\ PcType
    BY DEF Inv, MpmcInvariant, TypeOK, PcType
  <1>1. ASSUME NEW t \in Threads, Interrupt(t)
        PROVE  Duties'
    <2>1. \A v \in Threads : Kept(v) /\ Strolls(v)
      BY <1>0, <1>1, Sides
        DEF Interrupt, OnlyMoves, locals, Goto, PcType, Kept, Strolls, Busy, Offering
    <2>. QED
      BY <1>0, <2>1, DutiesOfNone
  <1>2. ASSUME NEW k, Teardown(k)
        PROVE  Duties'
    <2>1. \A v \in Threads : Kept(v) /\ Strolls(v)
      BY <1>2 DEF Teardown, locals, Kept, Strolls
    <2>. QED
      BY <1>0, <2>1, DutiesOfNone
  <1>3. CASE UNCHANGED vars
    <2>1. \A v \in Threads : Kept(v) /\ Strolls(v)
      BY <1>3 DEF vars, locals, Kept, Strolls
    <2>. QED
      BY <1>0, <2>1, DutiesOfNone
  <1>. QED
    BY <1>1, <1>2, <1>3, SenderDuties, ReceiverDuties, UserDuties DEF Next, Finished
-----------------------------------------------------------------------------
(* What the steps do to the slots: most leave them alone, and the others   *)
(* move some of them or touch one.                                         *)
Quiet ==
  /\ UNCHANGED <<mine, work, bag, seen, sendView, recvView, raced>>
  /\ recv'.slots = recv.slots
  /\ Dead(send) => Dead(send)'
  /\ ~Dead(send)' => send'.slots = send.slots
  /\ phase' # "freed" => phase # "freed"

Obtains(s, S) ==
  /\ S \subseteq Slots \ send.slots /\ mine[s] = {} /\ work[s] = {} /\ ~Dead(send)
  /\ send' = [send EXCEPT !.slots = @ \cup S]
  /\ mine' = [mine EXCEPT ![s] = S] /\ work' = [work EXCEPT ![s] = S]
  /\ seen' = Acquired(s, S \cap sendView)
  /\ UNCHANGED <<recv, bag, sendView, recvView, raced, phase>>

Puts(s, i, m) ==
  /\ i \in work[s] /\ m \in Msgs
  /\ AccessSlot(s, i) /\ bag' = [bag EXCEPT ![i] = m] /\ work' = [work EXCEPT ![s] = @ \ {i}]
  /\ UNCHANGED <<mine, send, recv, phase>>

Commits(s) ==
  /\ work[s] = {} /\ recv'.slots = recv.slots \cup mine[s]
  /\ recvView' = Released(s, recvView) /\ mine' = [mine EXCEPT ![s] = {}]
  /\ UNCHANGED <<work, send, bag, seen, sendView, raced, phase>>

Grabs(r) ==
  /\ mine[r] = {} /\ work[r] = {} /\ recv'.slots = {} /\ ~Dead(send)
  /\ mine' = [mine EXCEPT ![r] = recv.slots] /\ work' = [work EXCEPT ![r] = recv.slots]
  /\ seen' = Acquired(r, recv.slots \cap recvView)
  /\ UNCHANGED <<send, bag, sendView, recvView, raced, phase>>

Takes(r, i) ==
  /\ i \in work[r]
  /\ AccessSlot(r, i) /\ bag' = [bag EXCEPT ![i] = Uninit]
  /\ work' = [work EXCEPT ![r] = @ \ {i}]
  /\ UNCHANGED <<mine, send, recv, phase>>

Frees(r) ==
  /\ work[r] = {} /\ ~Dead(send) /\ ~Dead(send)' /\ send'.slots = send.slots \ mine[r]
  /\ sendView' = Released(r, sendView) /\ mine' = [mine EXCEPT ![r] = {}]
  /\ UNCHANGED <<work, recv, bag, seen, recvView, raced, phase>>

Drains ==
  /\ \A i \in Slots : bag'[i] \in {bag[i], Uninit}
  /\ phase' = "freed"
  /\ UNCHANGED <<mine, work, send, recv, seen, sendView, recvView, raced>>

DataStep == \/ Quiet \/ Drains
            \/ \E s \in Senders : \/ \E S \in SUBSET Slots : Obtains(s, S)
                                  \/ \E i \in Slots, m \in Msgs : Puts(s, i, m)
                                  \/ Commits(s)
            \/ \E r \in Receivers : Grabs(r) \/ (\E i \in Slots : Takes(r, i)) \/ Frees(r)

(* A call that has no slots leaves with none. *)
LEMMA LeaveEmpty ==
  ASSUME TypeOK, NEW t \in Threads, mine[t] = {}, Leave(t)
  PROVE  mine' = mine /\ work' = work
  <1>1. mine \in [Threads -> SUBSET Slots] /\ mine' = [mine EXCEPT ![t] = {}]
    BY DEF TypeOK, Leave
  <1>. QED
    BY <1>1 DEF Leave

LEMMA SenderData ==
  ASSUME Inv, phase = "open", NEW s \in Senders, SenderStep(s)
  PROVE  DataStep
  <1>0. /\ TypeOK /\ Duties /\ s \in Threads /\ s \notin Receivers /\ Duty(s)
        /\ send \in Word /\ recv \in Word
    BY ThreadsFinite, Sides, DutiesByThread DEF Inv, MpmcInvariant, TypeOK
  <1>1. CASE Reserve(s)
    <2>. DEFINE got == (Slots \ send.slots) \cap Request(s)
    <2>1. /\ pc[s] = "reserve" /\ mine[s] = {} /\ work[s] = {} /\ phase' = phase
          /\ Request(s) \in SUBSET Slots /\ send.slots \in SUBSET Slots
          /\ send' = [send EXCEPT !.slots = @ \cup Request(s)]
          /\ UNCHANGED <<recv, bag, sendView, recvView, raced>>
      BY <1>0, <1>1, RequestFits DEF Reserve, Duty, Busy, Word
    <2>2. /\ send'.flags = send.flags /\ send'.slots = send.slots \cup Request(s)
          /\ (Dead(send)' <=> Dead(send))
      BY <1>0, <2>1 DEF Word, Dead
    <2>3. CASE (Dead(send) \/ Slots \ send.slots = {}) /\ Refuse(s) /\ UNCHANGED seen
      <3>1. mine' = mine /\ work' = work
        BY <1>0, <2>1, <2>3, LeaveEmpty DEF Refuse
      <3>2. ~Dead(send) => send.slots = send.slots \cup Request(s)
        BY <2>1, <2>3
      <3>. QED
        BY <2>1, <2>2, <2>3, <3>1, <3>2 DEF DataStep, Quiet
    <2>4. CASE got = {} /\ UNCHANGED <<mine, work, seen>>
      <3>1. send.slots = send.slots \cup Request(s)
        BY <2>1, <2>4
      <3>. QED
        BY <2>1, <2>2, <2>4, <3>1 DEF DataStep, Quiet
    <2>5. CASE /\ ~Dead(send) /\ seen' = AcquireFence(s, got)
               /\ mine' = [mine EXCEPT ![s] = got] /\ work' = [work EXCEPT ![s] = got]
      <3>1. send.slots \cup Request(s) = send.slots \cup got
        BY <2>1
      <3>2. Obtains(s, got)
        BY <2>1, <2>5, <3>1 DEF Obtains, AcquireFence
      <3>. QED
        BY <3>2 DEF DataStep
    <2>. QED
      BY <1>1, <2>3, <2>4, <2>5 DEF Reserve
  <1>2. CASE WriteSlot(s)
    <2>. DEFINE i == NextOf(work[s])
    <2>1. i \in work[s] /\ work[s] \in SUBSET Slots
      BY <1>0, <1>2, NextOfLeast DEF WriteSlot, Duty, TypeOK
    <2>. HIDE DEF i
    <2>2. \A m \in Popped(batch[s], 1) : m \in Msgs
      BY <1>0 DEF Popped, TypeOK
    <2>3. \E m \in Popped(batch[s], 1) : Puts(s, i, m)
      BY <1>2, <2>1, <2>2 DEF WriteSlot, Puts, words, i
    <2>. QED
      BY <2>1, <2>2, <2>3 DEF DataStep
  <1>3. CASE Commit(s)
    <2>1. Commits(s)
      BY <1>0, <1>3 DEF Commit, Commits, Leave, Duty, TypeOK
    <2>. QED
      BY <2>1 DEF DataStep
  <1>4. CASE SpinSend(s)
    <2>1. mine' = mine /\ work' = work
      <3>1. mine[s] = {}
        BY <1>0, <1>4 DEF SpinSend, Duty, Busy
      <3>. QED
        BY <1>0, <1>4, <3>1, LeaveEmpty DEF SpinSend, Poll, Refuse
    <2>2. send'.slots = send.slots /\ (Dead(send)' <=> Dead(send))
      BY <1>0, <1>4, PolledWord DEF SpinSend
    <2>. QED
      BY <1>4, <2>1, <2>2 DEF SpinSend, views, DataStep, Quiet
  <1>5. CASE HangUpSenders(s)
    <2>1. recv'.slots = recv.slots
      BY <1>0, <1>5, WordClosed DEF HangUpSenders, Status
    <2>. QED
      BY <1>5, <2>1 DEF HangUpSenders, locals, views, DataStep, Quiet
  <1>6. CASE PassTorchSend(s)
    <2>1. send'.slots = send.slots /\ (Dead(send)' <=> Dead(send))
      BY <1>0, <1>6, WordClosed DEF PassTorchSend, Status, Dead
    <2>. QED
      BY <1>6, <2>1 DEF PassTorchSend, locals, views, DataStep, Quiet
  <1>7. CASE WakeReceiver(s) \/ SleepSend(s) \/ WakeAllReceivers(s)
    BY <1>7 DEF WakeReceiver, SleepSend, WakeAllReceivers, OnlyMoves, locals, words, views,
                DataStep, Quiet
  <1>8. CASE Abort(s)
    BY <1>8 DEF Abort, locals, words, views, DataStep, Quiet
  <1>. QED
    BY <1>1, <1>2, <1>3, <1>4, <1>5, <1>6, <1>7, <1>8 DEF SenderStep

LEMMA ReceiverData ==
  ASSUME Inv, phase = "open", NEW r \in Receivers, ReceiverStep(r)
  PROVE  DataStep
  <1>0. /\ TypeOK /\ Duties /\ r \in Threads /\ r \notin Senders /\ Duty(r)
        /\ send \in Word /\ recv \in Word
    BY ThreadsFinite, Sides, DutiesByThread DEF Inv, MpmcInvariant, TypeOK
  <1>l. pc[r] \in {"claim", "free"} => ~Dead(send)
    BY DEF Inv, MpmcInvariant, HandlesInv, Announced, GoneOnlyIf
  <1>1. CASE Claim(r)
    <2>1. /\ pc[r] = "claim" /\ mine[r] = {} /\ work[r] = {} /\ phase' = phase /\ ~Dead(send)
          /\ recv' = AfterClaim(recv) /\ recv'.slots = {}
          /\ seen' = Acquired(r, recv.slots \cap recvView)
          /\ UNCHANGED <<send, bag, sendView, recvView, raced>>
      BY <1>0, <1>1, <1>l, WordClosed DEF Claim, Duty, Busy
    <2>2. CASE recv.slots = {} /\ (TellGone(r) \/ UNCHANGED locals \/ Leave(r))
      <3>1. mine' = mine /\ work' = work
        BY <1>0, <2>1, <2>2, LeaveEmpty DEF TellGone, locals
      <3>2. seen' = seen
        BY <1>0, <2>1, <2>2 DEF Acquired, TypeOK
      <3>. QED
        BY <2>1, <2>2, <3>1, <3>2 DEF DataStep, Quiet
    <2>3. CASE /\ mine' = [mine EXCEPT ![r] = recv.slots]
               /\ work' = [work EXCEPT ![r] = recv.slots]
      <3>1. Grabs(r)
        BY <2>1, <2>3 DEF Grabs
      <3>. QED
        BY <3>1 DEF DataStep
    <2>. QED
      BY <1>1, <2>2, <2>3 DEF Claim
  <1>2. CASE ReadSlot(r)
    <2>. DEFINE i == NextOf(work[r])
    <2>1. i \in work[r] /\ work[r] \in SUBSET Slots
      BY <1>0, <1>2, NextOfLeast DEF ReadSlot, Duty, TypeOK
    <2>. HIDE DEF i
    <2>2. Takes(r, i)
      BY <1>2, <2>1 DEF ReadSlot, Takes, words, i
    <2>. QED
      BY <2>1, <2>2 DEF DataStep
  <1>3. CASE FreeSlots(r)
    <2>1. ~Dead(send) /\ ~Dead(send)' /\ send'.slots = send.slots \ mine[r]
      BY <1>0, <1>3, <1>l DEF FreeSlots, AfterFree, Dead
    <2>2. Frees(r)
      BY <1>0, <1>3, <2>1 DEF FreeSlots, Frees, Leave, Duty, TypeOK
    <2>. QED
      BY <2>2 DEF DataStep
  <1>4. CASE SpinRecv(r)
    <2>1. mine' = mine /\ work' = work
      <3>1. mine[r] = {}
        BY <1>0, <1>4 DEF SpinRecv, Duty, Busy
      <3>. QED
        BY <1>0, <1>4, <3>1, LeaveEmpty DEF SpinRecv, Poll, TellGone
    <2>2. recv'.slots = recv.slots
      BY <1>0, <1>4, PolledWord DEF SpinRecv
    <2>. QED
      BY <1>4, <2>1, <2>2 DEF SpinRecv, views, DataStep, Quiet
  <1>5. CASE HangUpReceivers(r)
    <2>1. send'.slots = send.slots /\ (Dead(send) => Dead(send)')
      BY <1>0, <1>5, WordClosed DEF HangUpReceivers, Status, Dead
    <2>. QED
      BY <1>5, <2>1 DEF HangUpReceivers, locals, views, DataStep, Quiet
  <1>6. CASE PassTorchRecv(r)
    <2>1. recv'.slots = recv.slots
      BY <1>0, <1>6, WordClosed DEF PassTorchRecv, Status
    <2>. QED
      BY <1>6, <2>1 DEF PassTorchRecv, locals, views, DataStep, Quiet
  <1>7. CASE WakeSender(r) \/ SleepRecv(r) \/ WakeAllSenders(r)
    BY <1>7 DEF WakeSender, SleepRecv, WakeAllSenders, OnlyMoves, locals, words, views,
                DataStep, Quiet
  <1>8. CASE Abort(r)
    BY <1>8 DEF Abort, locals, words, views, DataStep, Quiet
  <1>. QED
    BY <1>1, <1>2, <1>3, <1>4, <1>5, <1>6, <1>7, <1>8 DEF ReceiverStep

LEMMA NextData ==
  ASSUME Inv, [Next]_vars
  PROVE  DataStep
  <1>1. CASE UserStep
    BY <1>1 DEF UserStep, CallSend, CallRecv, CloneSender, CloneReceiver, DropSender, DropReceiver,
                Share, Unshare, OnlyMoves, locals, words, views, DataStep, Quiet
  <1>2. CASE \E t \in Threads : Interrupt(t)
    BY <1>2 DEF Interrupt, OnlyMoves, locals, words, views, DataStep, Quiet
  <1>3. ASSUME NEW k \in 1..N, Teardown(k)
        PROVE  DataStep
    <2>1. \A i \in Slots : bag'[i] \in {bag[i], Uninit}
      BY <1>3 DEF Teardown
    <2>. QED
      BY <1>3, <2>1 DEF Teardown, locals, words, views, DataStep, Drains
  <1>4. CASE UNCHANGED vars
    BY <1>4 DEF vars, locals, words, views, DataStep, Quiet
  <1>. QED
    BY <1>1, <1>2, <1>3, <1>4, SenderData, ReceiverData DEF Next, Finished

LEMMA SlotsPartitionedStep ==
  ASSUME TypeOK, TypeOK', SlotsPartitioned, DataStep
  PROVE  SlotsPartitioned'
  <1>0. /\ mine \in [Threads -> SUBSET Slots] /\ send \in Word /\ recv \in Word
        /\ Senders \subseteq Threads /\ Receivers \subseteq Threads
    BY ThreadsFinite DEF TypeOK
  <1>1. CASE Quiet \/ Drains
    BY <1>1 DEF Quiet, Drains, SlotsPartitioned, Dead
  <1>2. ASSUME NEW s \in Senders, NEW S \in SUBSET Slots, Obtains(s, S)
        PROVE  SlotsPartitioned'
    <2>1. /\ mine'[s] = S /\ \A t \in Threads \ {s} : mine'[t] = mine[t]
          /\ mine[s] = {} /\ recv'.slots = recv.slots /\ s \in Threads
          /\ send'.slots = send.slots \cup S
          /\ S \cap recv.slots = {} /\ \A t \in Threads : S \cap mine[t] = {}
          /\ send.slots = recv.slots \cup UNION {mine[t] : t \in Threads}
      BY <1>0, <1>2 DEF Obtains, SlotsPartitioned, Word
    <2>2. send'.slots = recv'.slots \cup UNION {mine'[t] : t \in Threads}
      BY <2>1
    <2>. QED
      BY <2>1, <2>2 DEF SlotsPartitioned
  <1>3. CASE \/ \E s \in Senders, i \in Slots, m \in Msgs : Puts(s, i, m)
             \/ \E r \in Receivers, i \in Slots : Takes(r, i)
    BY <1>3 DEF Puts, Takes, SlotsPartitioned, Dead
  <1>4. ASSUME NEW s \in Senders, Commits(s)
        PROVE  SlotsPartitioned'
    <2>1. /\ mine'[s] = {} /\ \A t \in Threads \ {s} : mine'[t] = mine[t]
          /\ recv'.slots = recv.slots \cup mine[s] /\ send' = send /\ s \in Threads
      BY <1>0, <1>4 DEF Commits
    <2>2. ~Dead(send)' => send'.slots = recv'.slots \cup UNION {mine'[t] : t \in Threads}
      BY <2>1 DEF SlotsPartitioned, Dead
    <2>. QED
      BY <2>1, <2>2 DEF SlotsPartitioned
  <1>5. ASSUME NEW r \in Receivers, Grabs(r)
        PROVE  SlotsPartitioned'
    <2>1. /\ mine'[r] = recv.slots /\ \A t \in Threads \ {r} : mine'[t] = mine[t]
          /\ mine[r] = {} /\ recv'.slots = {} /\ send' = send /\ r \in Threads
      BY <1>0, <1>5 DEF Grabs, Word
    <2>2. ~Dead(send)' => send'.slots = recv'.slots \cup UNION {mine'[t] : t \in Threads}
      BY <2>1 DEF SlotsPartitioned, Dead
    <2>. QED
      BY <2>1, <2>2 DEF SlotsPartitioned
  <1>6. ASSUME NEW r \in Receivers, Frees(r)
        PROVE  SlotsPartitioned'
    <2>1. /\ mine'[r] = {} /\ \A t \in Threads \ {r} : mine'[t] = mine[t]
          /\ send'.slots = send.slots \ mine[r] /\ recv' = recv /\ r \in Threads
          /\ mine[r] \cap recv.slots = {}
          /\ \A t \in Threads \ {r} : mine[r] \cap mine[t] = {}
          /\ send.slots = recv.slots \cup UNION {mine[t] : t \in Threads}
      BY <1>0, <1>6 DEF Frees, SlotsPartitioned
    <2>2. send'.slots = recv'.slots \cup UNION {mine'[t] : t \in Threads}
      BY <2>1
    <2>. QED
      BY <2>1, <2>2 DEF SlotsPartitioned
  <1>. QED
    BY <1>1, <1>2, <1>3, <1>4, <1>5, <1>6 DEF DataStep

(* The slots of different threads differ, and none of them is committed.   *)
LEMMA Owned ==
  ASSUME TypeOK, Duties, SlotsPartitioned, NEW t \in Threads, NEW i \in work[t]
  PROVE  /\ i \in mine[t] /\ i \in Slots /\ i \notin recv.slots
         /\ \A u \in Threads \ {t} : i \notin mine[u] /\ i \notin work[u]
         /\ ~Dead(send) => i \in send.slots
  BY DEF TypeOK, Duties, SlotsPartitioned

LEMMA ContentsStep ==
  ASSUME TypeOK, TypeOK', Duties, SlotsPartitioned, Contents, DataStep
  PROVE  Contents'
  <1>0. /\ mine \in [Threads -> SUBSET Slots] /\ work \in [Threads -> SUBSET Slots]
        /\ bag \in [Slots -> Msgs \cup {Uninit}] /\ Uninit \notin Msgs
        /\ Senders \subseteq Threads /\ Receivers \subseteq Threads
        /\ recv.slots \in SUBSET Slots
    BY ThreadsFinite, MpmcAssumption DEF TypeOK, Word, Msgs
  <1>1. CASE Quiet \/ Drains
    <2>1. \A i \in Slots : Filled(i)' <=> Filled(i)
      BY <1>1 DEF Quiet, Drains, Filled
    <2>. QED
      BY <1>1, <2>1 DEF Quiet, Drains, Contents
  <1>2. ASSUME NEW s \in Senders, NEW S \in SUBSET Slots, Obtains(s, S)
        PROVE  Contents'
    <2>1. /\ mine'[s] = S /\ work'[s] = S /\ mine[s] = {} /\ work[s] = {} /\ recv' = recv
          /\ \A t \in Threads \ {s} : mine'[t] = mine[t] /\ work'[t] = work[t]
          /\ s \in Threads /\ s \notin Receivers
      BY <1>0, <1>2, Sides DEF Obtains
    <2>2. \A i \in Slots : Filled(i)' <=> Filled(i)
      BY <1>0, <2>1 DEF Filled
    <2>. QED
      BY <1>2, <2>2 DEF Obtains, Contents
  <1>3. ASSUME NEW s \in Senders, NEW i \in Slots, NEW m \in Msgs, Puts(s, i, m)
        PROVE  Contents'
    <2>1. /\ i \in work[s] /\ i \in mine[s] /\ work'[s] = work[s] \ {i}
          /\ s \in Threads /\ s \notin Receivers
          /\ \A t \in Threads \ {s} : work'[t] = work[t]
          /\ mine' = mine /\ recv' = recv /\ phase' = phase
          /\ bag'[i] = m /\ \A j \in Slots \ {i} : bag'[j] = bag[j]
      BY <1>0, <1>3, Owned, Sides DEF Puts
    <2>2. Filled(i)' /\ \A j \in Slots \ {i} : Filled(j)' <=> Filled(j)
      BY <1>0, <2>1 DEF Filled
    <2>. QED
      BY <1>0, <2>1, <2>2 DEF Contents
  <1>4. ASSUME NEW s \in Senders, Commits(s)
        PROVE  Contents'
    <2>1. /\ mine'[s] = {} /\ work[s] = {} /\ work' = work
          /\ \A t \in Threads \ {s} : mine'[t] = mine[t]
          /\ recv'.slots = recv.slots \cup mine[s] /\ s \in Threads
      BY <1>0, <1>4 DEF Commits
    <2>2. \A i \in Slots : Filled(i)' <=> Filled(i)
      BY <1>0, <2>1 DEF Filled
    <2>. QED
      BY <1>4, <2>2 DEF Commits, Contents
  <1>5. ASSUME NEW r \in Receivers, Grabs(r)
        PROVE  Contents'
    <2>1. /\ mine'[r] = recv.slots /\ work'[r] = recv.slots /\ mine[r] = {} /\ work[r] = {}
          /\ \A t \in Threads \ {r} : mine'[t] = mine[t] /\ work'[t] = work[t]
          /\ recv'.slots = {} /\ r \in Threads /\ r \notin Senders
      BY <1>0, <1>5, Sides DEF Grabs
    <2>2. \A i \in Slots : Filled(i)' <=> Filled(i)
      BY <1>0, <2>1 DEF Filled
    <2>. QED
      BY <1>5, <2>2 DEF Grabs, Contents
  <1>6. ASSUME NEW r \in Receivers, NEW i \in Slots, Takes(r, i)
        PROVE  Contents'
    <2>1. /\ i \in work[r] /\ work'[r] = work[r] \ {i} /\ i \notin recv.slots
          /\ r \in Threads /\ r \notin Senders
          /\ \A t \in Threads \ {r} : work'[t] = work[t] /\ i \notin mine[t] /\ i \notin work[t]
          /\ mine' = mine /\ recv' = recv /\ phase' = phase
          /\ bag'[i] = Uninit /\ \A j \in Slots \ {i} : bag'[j] = bag[j]
      BY <1>0, <1>6, Owned, Sides DEF Takes
    <2>2. ~Filled(i)' /\ \A j \in Slots \ {i} : Filled(j)' <=> Filled(j)
      BY <1>0, <2>1 DEF Filled
    <2>. QED
      BY <1>0, <2>1, <2>2 DEF Contents
  <1>7. ASSUME NEW r \in Receivers, Frees(r)
        PROVE  Contents'
    <2>1. /\ \A t \in Threads \ {r} : mine'[t] = mine[t]
          /\ r \notin Senders /\ UNCHANGED <<work, recv, bag, phase>>
      BY <1>0, <1>7, Sides DEF Frees
    <2>2. \A i \in Slots : Filled(i)' <=> Filled(i)
      BY <1>0, <2>1 DEF Filled
    <2>. QED
      BY <2>1, <2>2 DEF Contents
  <1>. QED
    BY <1>1, <1>2, <1>3, <1>4, <1>5, <1>6, <1>7 DEF DataStep

(* Every access to a slot is ordered after the previous one.               *)
LEMMA AccessOwned ==
  ASSUME TypeOK, Duties, SlotsPartitioned, Visibility, NEW t \in Threads, NEW i \in work[t],
         AccessSlot(t, i), UNCHANGED <<mine, send, recv>>
  PROVE  Visibility'
  <1>1. /\ i \in mine[t] /\ i \in Slots /\ i \notin recv.slots /\ t \in seen[i]
        /\ \A u \in Threads \ {t} : i \notin mine[u]
        /\ ~Dead(send) => i \in send.slots
    BY Owned DEF Visibility
  <1>2. /\ raced' = (raced \/ t \notin seen[i]) /\ seen'[i] = {t}
        /\ \A j \in Slots \ {i} : seen'[j] = seen[j]
        /\ sendView' = sendView \ {i} /\ recvView' = recvView \ {i}
    BY <1>1 DEF AccessSlot, TypeOK
  <1>3. \A u \in Threads : mine[u] \in SUBSET Slots
    BY DEF TypeOK
  <1>4. \A u \in Threads : \A j \in mine'[u] : u \in seen'[j]
    BY <1>1, <1>2, <1>3 DEF Visibility
  <1>5. recv'.slots \subseteq recvView'
    BY <1>1, <1>2 DEF Visibility
  <1>6. ~Dead(send)' => \A j \in Slots \ send'.slots : j \in sendView' \/ seen'[j] = Threads
    BY <1>1, <1>2 DEF Visibility, Dead
  <1>. QED
    BY <1>1, <1>2, <1>4, <1>5, <1>6 DEF Visibility

LEMMA VisibilityStep ==
  ASSUME TypeOK, TypeOK', Duties, SlotsPartitioned, Visibility, DataStep
  PROVE  Visibility'
  <1>0. /\ mine \in [Threads -> SUBSET Slots] /\ seen \in [Slots -> SUBSET Threads]
        /\ Senders \subseteq Threads /\ Receivers \subseteq Threads
        /\ recv.slots \in SUBSET Slots /\ send \in Word
    BY ThreadsFinite DEF TypeOK, Word
  <1>1. CASE Quiet \/ Drains
    BY <1>1 DEF Quiet, Drains, Visibility, Dead
  <1>2. ASSUME NEW s \in Senders, NEW S \in SUBSET Slots, Obtains(s, S)
        PROVE  Visibility'
    <2>1. /\ mine'[s] = S /\ \A t \in Threads \ {s} : mine'[t] = mine[t]
          /\ \A i \in Slots : seen[i] \subseteq seen'[i]
          /\ \A i \in S : i \in sendView => s \in seen'[i]
          /\ \A i \in Slots \ S : seen'[i] = seen[i]
          /\ s \in Threads /\ ~Dead(send) /\ S \subseteq Slots \ send.slots
          /\ send'.slots = send.slots \cup S
          /\ UNCHANGED <<recv, sendView, recvView, raced>>
      BY <1>0, <1>2 DEF Obtains, Acquired, Word
    <2>2. \A t \in Threads : \A i \in mine'[t] : t \in seen'[i]
      BY <1>0, <2>1 DEF Visibility
    <2>3. \A i \in Slots \ send'.slots : i \in sendView' \/ seen'[i] = Threads
      BY <2>1 DEF Visibility
    <2>. QED
      BY <2>1, <2>2, <2>3 DEF Visibility
  <1>3. CASE \/ \E s \in Senders, i \in Slots, m \in Msgs : Puts(s, i, m)
             \/ \E r \in Receivers, i \in Slots : Takes(r, i)
    <2>1. PICK t \in Threads, i \in Slots : /\ i \in work[t] /\ AccessSlot(t, i)
                                           /\ UNCHANGED <<mine, send, recv>>
      <3>1. CASE \E s \in Senders, i \in Slots, m \in Msgs : Puts(s, i, m)
        BY <1>0, <3>1 DEF Puts
      <3>2. CASE \E r \in Receivers, i \in Slots : Takes(r, i)
        BY <1>0, <3>2 DEF Takes
      <3>. QED
        BY <1>3, <3>1, <3>2
    <2>. QED
      BY <2>1, AccessOwned
  <1>4. ASSUME NEW s \in Senders, Commits(s)
        PROVE  Visibility'
    <2>1. /\ mine'[s] = {} /\ \A t \in Threads \ {s} : mine'[t] = mine[t]
          /\ recv'.slots = recv.slots \cup mine[s] /\ s \in Threads
          /\ recvView' = recvView \cup {i \in mine[s] : s \in seen[i]}
          /\ UNCHANGED <<send, seen, sendView, raced>>
      BY <1>0, <1>4 DEF Commits, Released
    <2>. QED
      BY <2>1 DEF Visibility, Dead
  <1>5. ASSUME NEW r \in Receivers, Grabs(r)
        PROVE  Visibility'
    <2>1. /\ mine'[r] = recv.slots /\ \A t \in Threads \ {r} : mine'[t] = mine[t]
          /\ \A i \in Slots : seen[i] \subseteq seen'[i] /\ seen'[i] \subseteq Threads
          /\ \A i \in recv.slots \cap recvView : r \in seen'[i]
          /\ recv'.slots = {} /\ r \in Threads
          /\ UNCHANGED <<send, sendView, recvView, raced>>
      BY <1>0, <1>5 DEF Grabs, Acquired
    <2>2. \A t \in Threads : \A i \in mine'[t] : t \in seen'[i]
      BY <1>0, <2>1 DEF Visibility
    <2>3. ~Dead(send)' => \A i \in Slots \ send'.slots : i \in sendView' \/ seen'[i] = Threads
      <3>1. \A i \in Slots : seen[i] = Threads => seen'[i] = Threads
        BY <2>1
      <3>2. send' = send /\ sendView' = sendView
        BY <2>1
      <3>. QED
        BY <3>1, <3>2 DEF Visibility, Dead
    <2>. QED
      BY <2>1, <2>2, <2>3 DEF Visibility
  <1>6. ASSUME NEW r \in Receivers, Frees(r)
        PROVE  Visibility'
    <2>1. /\ mine'[r] = {} /\ \A t \in Threads \ {r} : mine'[t] = mine[t]
          /\ ~Dead(send) /\ send'.slots = send.slots \ mine[r] /\ r \in Threads
          /\ sendView' = sendView \cup {i \in mine[r] : r \in seen[i]}
          /\ UNCHANGED <<recv, seen, recvView, raced>>
      BY <1>0, <1>6 DEF Frees, Released
    <2>. QED
      BY <2>1 DEF Visibility
  <1>. QED
    BY <1>1, <1>2, <1>3, <1>4, <1>5, <1>6 DEF DataStep
-----------------------------------------------------------------------------
(* HandlesInv by side: who has a handle, how many handles and aborting     *)
(* clones there are, and who is gone.                                      *)
Working == {"idle"} \cup SendLocations \cup RecvLocations \cup CallLocations

Identity == /\ \A t \in Threads \ Borrowers : handle[t] = t
            /\ \A t \in Threads : pc[handle[t]] = "unborn" => handle[t] = t

LastHangsUp(S) == \A t \in S : pc[t] = "hangup" => \A u \in S \ {t} : pc[u] \in {"unborn", "dead"}
WakesNext(S) == \E t \in S : pc[t] = "hangupWake"
Gone(S) == \A t \in S : pc[t] \in {"unborn", "hangupWake", "dead"}
HandleSum(S) == Cardinality(HandlesOf(S)) + Cardinality(AbortingOf(S))

SideInv(S) == /\ \A t \in S : handle[t] \in S
              /\ Cardinality(HandlesOf(S)) <= HandleLimit + 1
              /\ LastHangsUp(S)

SidesInv == /\ Identity /\ SideInv(Senders) /\ SideInv(Receivers)
            /\ numSenders = HandleSum(Senders) % CountRange
            /\ numReceivers = HandleSum(Receivers) % CountRange
            /\ WakesNext(Senders) => Dead(recv)
            /\ WakesNext(Receivers) => Dead(send)
            /\ (Dead(recv) <=> Gone(Senders)) /\ (Dead(send) <=> Gone(Receivers))

LEMMA HandlesBySide == HandlesInv <=> SidesInv
  BY DEF HandlesInv, SidesInv, Identity, SideInv, Counted, Announced, LastHangsUp, WakesNext, Gone,
         GoneOnlyIf, GoneIf, HandleSum

LEMMA HandlesBySideNext == HandlesInv' <=> SidesInv'
  BY DEF HandlesInv, SidesInv, Identity, SideInv, Counted, Announced, LastHangsUp, WakesNext, Gone,
         GoneOnlyIf, GoneIf, HandleSum

LEMMA SideSetsFinite ==
  ASSUME NEW S \in {Senders, Receivers}, \A t \in S : handle[t] \in S
  PROVE  /\ IsFiniteSet(HandlesOf(S)) /\ Cardinality(HandlesOf(S)) \in Nat
         /\ IsFiniteSet(AbortingOf(S)) /\ Cardinality(AbortingOf(S)) \in Nat
         /\ IsFiniteSet(S) /\ Cardinality(S) \in Nat
         /\ HandleSum(S) \in Nat
  <1>1. HandlesOf(S) \in SUBSET S /\ AbortingOf(S) \in SUBSET S /\ IsFiniteSet(S)
    BY ThreadsFinite DEF HandlesOf, Holding, AbortingOf
  <1>2. /\ IsFiniteSet(HandlesOf(S)) /\ Cardinality(HandlesOf(S)) \in Nat
        /\ IsFiniteSet(AbortingOf(S)) /\ Cardinality(AbortingOf(S)) \in Nat
        /\ Cardinality(S) \in Nat
    BY <1>1, FS_Subset, FS_CardinalityType
  <1>. QED
    BY <1>1, <1>2 DEF HandleSum

(* As long as a thread of the side is idle, the count does not wrap: the   *)
(* others cannot be as many as the range of the counter has room for.      *)
LEMMA NoWrap ==
  ASSUME TypeOK, Identity, NEW S \in {Senders, Receivers}, SideInv(S),
         NEW t \in S, pc[t] = "idle"
  PROVE  /\ HandleSum(S) \in 1..(CountRange - 1) /\ HandleSum(S) % CountRange = HandleSum(S)
         /\ Cardinality(HandlesOf(S)) \in Nat \ {0}
  <1>1. /\ IsFiniteSet(HandlesOf(S)) /\ Cardinality(HandlesOf(S)) \in Nat
        /\ IsFiniteSet(AbortingOf(S)) /\ Cardinality(AbortingOf(S)) \in Nat
        /\ IsFiniteSet(S) /\ Cardinality(S) \in Nat
    BY SideSetsFinite DEF SideInv
  <1>2. t \in Holding(S) /\ handle[t] \in HandlesOf(S)
    BY DEF Holding, HandlesOf
  <1>3. Cardinality(HandlesOf(S)) # 0
    BY <1>1, <1>2, FS_EmptySet
  <1>4. Cardinality(AbortingOf(S)) <= HandleLimit
    <2>1. CASE S \cap Borrowers = {}
      <3>1. HandlesOf(S) = Holding(S)
        BY <2>1, ThreadsFinite DEF HandlesOf, Holding, Identity
      <3>2. AbortingOf(S) \in SUBSET (HandlesOf(S) \ {t})
        BY <3>1 DEF AbortingOf, Holding
      <3>3. /\ Cardinality(HandlesOf(S) \ {t}) = Cardinality(HandlesOf(S)) - 1
            /\ IsFiniteSet(HandlesOf(S) \ {t})
        BY <1>1, <1>2, <3>1, FS_RemoveElement
      <3>4. Cardinality(AbortingOf(S)) <= Cardinality(HandlesOf(S) \ {t})
        BY <3>2, <3>3, FS_Subset
      <3>. QED
        BY <1>1, <3>3, <3>4, MpmcAssumption DEF SideInv
    <2>2. CASE Cardinality(S) <= HandleLimit + 1
      <3>1. AbortingOf(S) \in SUBSET (S \ {t})
        BY DEF AbortingOf
      <3>2. Cardinality(S \ {t}) = Cardinality(S) - 1 /\ IsFiniteSet(S \ {t})
        BY <1>1, FS_RemoveElement
      <3>3. Cardinality(AbortingOf(S)) <= Cardinality(S \ {t})
        BY <3>1, <3>2, FS_Subset
      <3>. QED
        BY <1>1, <2>2, <3>2, <3>3, MpmcAssumption
    <2>. QED
      BY <2>1, <2>2, ThreadsAssumption
  <1>5. HandleSum(S) \in 1..(CountRange - 1)
    BY <1>1, <1>3, <1>4, CountRangePositive, MpmcAssumption DEF HandleSum, SideInv
  <1>. QED
    BY <1>1, <1>3, <1>5, CountRangePositive, Remainder

(* A step that moves the threads of a side within their calls. *)
SideQuiet(S) ==
  \A t \in S : /\ handle'[t] = handle[t]
               /\ pc'[t] = pc[t] \/ (pc[t] \in Working /\ pc'[t] \in Working)

LEMMA SideKept ==
  ASSUME NEW S, SideInv(S), SideQuiet(S)
  PROVE  /\ SideInv(S)' /\ HandleSum(S)' = HandleSum(S)
         /\ WakesNext(S)' <=> WakesNext(S)
         /\ Gone(S)' <=> Gone(S)
  <1>. DEFINE idlers == {"unborn", "hangup", "hangupWake", "dead", "abortClone"}
  <1>1. \A t \in S : \A loc \in idlers : pc'[t] = loc <=> pc[t] = loc
    BY DEF SideQuiet, Working, SendLocations, RecvLocations, CallLocations
  <1>2. Holding(S)' = Holding(S) /\ AbortingOf(S)' = AbortingOf(S)
    BY <1>1 DEF Holding, AbortingOf
  <1>3. HandlesOf(S)' = HandlesOf(S)
    BY <1>2 DEF HandlesOf, Holding, SideQuiet
  <1>4. LastHangsUp(S)'
    BY <1>1 DEF SideInv, LastHangsUp
  <1>5. (WakesNext(S)' <=> WakesNext(S)) /\ (Gone(S)' <=> Gone(S))
    BY <1>1 DEF WakesNext, Gone
  <1>. QED
    BY <1>2, <1>3, <1>4, <1>5 DEF SideInv, HandleSum, SideQuiet

(* The steps that change who has a handle, for either side.  A new handle: *)
(* its name is not in use, as a handle that was never made is nobody's.    *)
LEMMA SideGrows ==
  ASSUME TypeOK, Identity, NEW S \in {Senders, Receivers}, SideInv(S),
         NEW s \in S, NEW t \in S \ Borrowers, pc[s] = "idle", pc[t] = "unborn",
         handle' = handle, pc' = [pc EXCEPT ![t] = "idle"], HandleSum(S) <= HandleLimit
  PROVE  /\ SideInv(S)' /\ HandleSum(S)' = HandleSum(S) + 1
         /\ ~Gone(S)' /\ (WakesNext(S)' => WakesNext(S))
  <1>1. /\ s # t /\ s \in Threads /\ t \in Threads /\ handle[t] = t /\ S \subseteq Threads
        /\ pc'[t] = "idle" /\ \A u \in Threads \ {t} : pc'[u] = pc[u]
    BY ThreadsFinite DEF Identity, TypeOK
  <1>2. Holding(S)' = Holding(S) \cup {t} /\ AbortingOf(S)' = AbortingOf(S)
    BY <1>1 DEF Holding, AbortingOf
  <1>3. HandlesOf(S)' = HandlesOf(S) \cup {t}
    BY <1>1, <1>2 DEF HandlesOf
  <1>4. t \notin HandlesOf(S)
    BY <1>1 DEF HandlesOf, Holding, Identity
  <1>5. /\ IsFiniteSet(HandlesOf(S)) /\ Cardinality(HandlesOf(S)) \in Nat
        /\ Cardinality(AbortingOf(S)) \in Nat
    BY SideSetsFinite DEF SideInv
  <1>6. Cardinality(HandlesOf(S))' = Cardinality(HandlesOf(S)) + 1
    BY <1>3, <1>4, <1>5, FS_AddElement
  <1>7. HandleSum(S)' = HandleSum(S) + 1 /\ Cardinality(HandlesOf(S))' <= HandleLimit + 1
    BY <1>2, <1>5, <1>6, MpmcAssumption DEF HandleSum
  <1>8. LastHangsUp(S)'
    BY <1>1 DEF LastHangsUp, SideInv
  <1>. QED
    BY <1>1, <1>7, <1>8 DEF SideInv, Gone, WakesNext

(* A clone that is about to abort. *)
LEMMA SideAborts ==
  ASSUME TypeOK, NEW S \in {Senders, Receivers}, SideInv(S),
         NEW s \in S, pc[s] = "idle", handle' = handle, pc' = [pc EXCEPT ![s] = "abortClone"]
  PROVE  /\ SideInv(S)' /\ HandleSum(S)' = HandleSum(S) + 1
         /\ ~Gone(S)' /\ (WakesNext(S)' => WakesNext(S))
  <1>1. /\ s \in Threads /\ S \subseteq Threads
        /\ pc'[s] = "abortClone" /\ \A u \in Threads \ {s} : pc'[u] = pc[u]
    BY ThreadsFinite DEF TypeOK
  <1>2. Holding(S)' = Holding(S) /\ AbortingOf(S)' = AbortingOf(S) \cup {s} /\ s \notin AbortingOf(S)
    BY <1>1 DEF Holding, AbortingOf
  <1>3. HandlesOf(S)' = HandlesOf(S)
    BY <1>2 DEF HandlesOf
  <1>4. /\ IsFiniteSet(AbortingOf(S)) /\ Cardinality(HandlesOf(S)) \in Nat
        /\ Cardinality(AbortingOf(S)) \in Nat
    BY SideSetsFinite DEF SideInv
  <1>5. Cardinality(AbortingOf(S))' = Cardinality(AbortingOf(S)) + 1
    BY <1>2, <1>4, FS_AddElement
  <1>6. HandleSum(S)' = HandleSum(S) + 1
    BY <1>3, <1>4, <1>5 DEF HandleSum
  <1>7. LastHangsUp(S)'
    BY <1>1 DEF LastHangsUp, SideInv
  <1>. QED
    BY <1>1, <1>3, <1>6, <1>7 DEF SideInv, Gone, WakesNext

(* A handle that is dropped, which hangs up if it is the last one.         *)
LEMMA SideShrinks ==
  ASSUME TypeOK, Identity, NEW S \in {Senders, Receivers}, SideInv(S), ~WakesNext(S),
         NEW s \in S, pc[s] = "idle", ~Shared(s), handle' = handle,
         pc' = [pc EXCEPT ![s] = IF OthersLeft(HandleSum(S)) THEN "dead" ELSE "hangup"]
  PROVE  /\ SideInv(S)' /\ HandleSum(S)' = HandleSum(S) - 1
         /\ ~Gone(S)' /\ (WakesNext(S)' => WakesNext(S))
  <1>1. /\ s \in Threads /\ S \subseteq Threads /\ pc'[s] \in {"dead", "hangup"}
        /\ \A u \in Threads \ {s} : pc'[u] = pc[u]
    BY ThreadsFinite DEF TypeOK
  <1>2. /\ Holding(S)' = Holding(S) \ {s} /\ AbortingOf(S)' = AbortingOf(S)
        /\ s \in Holding(S) /\ s \notin AbortingOf(S)
    BY <1>1 DEF Holding, AbortingOf
  <1>3. HandlesOf(S)' = HandlesOf(S) \ {handle[s]} /\ handle[s] \in HandlesOf(S)
    <2>1. \A u \in Holding(S) \ {s} : handle[u] # handle[s]
      BY <1>1 DEF Shared, Holding
    <2>2. HandlesOf(S)' = {handle[u] : u \in Holding(S) \ {s}}
      BY <1>2 DEF HandlesOf
    <2>. QED
      BY <1>2, <2>1, <2>2 DEF HandlesOf
  <1>4. /\ IsFiniteSet(HandlesOf(S)) /\ Cardinality(HandlesOf(S)) \in Nat
        /\ IsFiniteSet(AbortingOf(S)) /\ Cardinality(AbortingOf(S)) \in Nat
    BY SideSetsFinite DEF SideInv
  <1>5. Cardinality(HandlesOf(S))' = Cardinality(HandlesOf(S)) - 1
    <2>1. Cardinality(HandlesOf(S) \ {handle[s]}) = Cardinality(HandlesOf(S)) - 1
      BY <1>3, <1>4, FS_RemoveElement
    <2>. QED
      BY <1>3, <2>1
  <1>6. /\ HandleSum(S)' = HandleSum(S) - 1 /\ HandleSum(S) \in Nat
        /\ Cardinality(HandlesOf(S))' <= HandleLimit + 1
    BY <1>2, <1>4, <1>5, MpmcAssumption DEF HandleSum, SideInv
  <1>7. CASE OthersLeft(HandleSum(S))
    <2>1. pc'[s] = "dead" /\ HandleSum(S)' > 0
      BY <1>1, <1>6, <1>7 DEF OthersLeft, TypeOK
    <2>2. \E u \in S \ {s} : u \in Holding(S)
      <3>1. Cardinality(HandlesOf(S))' = 0 => Cardinality(AbortingOf(S)) # 0
        BY <1>2, <1>4, <1>5, <2>1 DEF HandleSum
      <3>2. (HandlesOf(S) \ {handle[s]} # {}) \/ AbortingOf(S) # {}
        <4>1. Cardinality({}) = 0
          BY FS_EmptySet
        <4>. QED
          BY <1>3, <3>1, <4>1
      <3>. QED
        BY <1>2, <1>3, <3>2 DEF HandlesOf, AbortingOf, Holding
    <2>3. LastHangsUp(S)'
      BY <1>1, <2>1 DEF LastHangsUp, SideInv
    <2>. QED
      BY <1>1, <1>6, <2>1, <2>2, <2>3 DEF SideInv, Gone, WakesNext, Holding
  <1>8. CASE ~OthersLeft(HandleSum(S))
    <2>1. pc'[s] = "hangup" /\ Cardinality(HandlesOf(S))' = 0
      <3>1. pc'[s] = "hangup"
        BY <1>1, <1>8 DEF TypeOK
      <3>2. Cardinality(HandlesOf(S)) # 0
        BY <1>3, <1>4, FS_EmptySet
      <3>3. ~(HandleSum(S) > 1)
        BY <1>8 DEF OthersLeft
      <3>. QED
        BY <1>4, <1>5, <3>1, <3>2, <3>3 DEF HandleSum
    <2>2. HandlesOf(S) \ {handle[s]} = {}
      BY <1>3, <1>4, <2>1, FS_RemoveElement, FS_EmptySet
    <2>3. \A u \in S \ {s} : u \notin Holding(S)
      BY <1>2, <1>3, <2>2 DEF HandlesOf
    <2>4. \A u \in S \ {s} : pc[u] \in {"unborn", "dead"}
      BY <2>3 DEF Holding, SideInv, LastHangsUp, WakesNext
    <2>. QED
      BY <1>1, <1>6, <2>1, <2>4 DEF SideInv, LastHangsUp, Gone, WakesNext
  <1>. QED
    BY <1>7, <1>8

(* The last of a side hangs up, and then wakes the other side if it has to. *)
LEMMA SideHangsUp ==
  ASSUME TypeOK, NEW S \in {Senders, Receivers}, SideInv(S),
         NEW s \in S, pc[s] \in {"hangup", "hangupWake"}, handle' = handle,
         \A u \in S \ {s} : pc'[u] = pc[u], pc'[s] \in {"hangupWake", "dead"},
         pc[s] = "hangupWake" => Gone(S)
  PROVE  /\ SideInv(S)' /\ HandleSum(S)' = HandleSum(S)
         /\ Gone(S)'
  <1>1. Holding(S)' = Holding(S) /\ AbortingOf(S)' = AbortingOf(S)
    BY DEF Holding, AbortingOf
  <1>2. HandlesOf(S)' = HandlesOf(S)
    BY <1>1 DEF HandlesOf
  <1>3. LastHangsUp(S)' /\ Gone(S)'
    BY DEF LastHangsUp, SideInv, Gone
  <1>. QED
    BY <1>1, <1>2, <1>3 DEF SideInv, HandleSum

(* Another thread gets to use the handle of t, or ceases to. *)
LEMMA SideShares ==
  ASSUME TypeOK, NEW S \in {Senders, Receivers}, SideInv(S), NEW t \in S, pc[t] = "idle",
         \/ \E u \in S : /\ pc[u] = "unborn" /\ pc' = [pc EXCEPT ![u] = "idle"]
                         /\ handle' = [handle EXCEPT ![u] = handle[t]]
         \/ /\ Shared(t) /\ \A u \in Threads : handle[u] \in S => u \in S
            /\ ~WakesNext(S) /\ pc' = [pc EXCEPT ![t] = "dead"] /\ handle' = handle
  PROVE  /\ SideInv(S)' /\ HandleSum(S)' = HandleSum(S)
         /\ ~Gone(S)' /\ (WakesNext(S)' => WakesNext(S))
  <1>0. S \subseteq Threads /\ t \in Holding(S)
    BY ThreadsFinite DEF Holding
  <1>1. ASSUME NEW u \in S, pc[u] = "unborn", pc' = [pc EXCEPT ![u] = "idle"],
               handle' = [handle EXCEPT ![u] = handle[t]]
        PROVE  /\ SideInv(S)' /\ HandleSum(S)' = HandleSum(S)
               /\ ~Gone(S)' /\ (WakesNext(S)' => WakesNext(S))
    <2>1. /\ pc'[u] = "idle" /\ \A v \in Threads \ {u} : pc'[v] = pc[v]
          /\ handle'[u] = handle[t] /\ \A v \in Threads \ {u} : handle'[v] = handle[v]
          /\ u # t /\ u \in Threads
      BY <1>0, <1>1 DEF TypeOK
    <2>2. Holding(S)' = Holding(S) \cup {u} /\ AbortingOf(S)' = AbortingOf(S) /\ u \notin Holding(S)
      BY <1>0, <1>1, <2>1 DEF Holding, AbortingOf
    <2>3. HandlesOf(S)' = HandlesOf(S)
      BY <1>0, <2>1, <2>2 DEF HandlesOf, Holding
    <2>4. LastHangsUp(S)'
      BY <1>0, <2>1 DEF LastHangsUp, SideInv
    <2>. QED
      BY <1>0, <2>1, <2>2, <2>3, <2>4 DEF SideInv, HandleSum, Gone, WakesNext
  <1>2. ASSUME Shared(t), \A u \in Threads : handle[u] \in S => u \in S,
               ~WakesNext(S), pc' = [pc EXCEPT ![t] = "dead"], handle' = handle
        PROVE  /\ SideInv(S)' /\ HandleSum(S)' = HandleSum(S)
               /\ ~Gone(S)' /\ (WakesNext(S)' => WakesNext(S))
    <2>1. pc'[t] = "dead" /\ \A v \in Threads \ {t} : pc'[v] = pc[v]
      BY <1>0, <1>2 DEF TypeOK
    <2>2. PICK u \in S \ {t} : handle[u] = handle[t] /\ pc[u] \notin {"unborn", "dead"}
      BY <1>2 DEF Shared, SideInv
    <2>3. u \in Holding(S)
      BY <1>2, <2>2 DEF Holding, SideInv, LastHangsUp, WakesNext
    <2>4. Holding(S)' = Holding(S) \ {t} /\ AbortingOf(S)' = AbortingOf(S)
      BY <1>0, <2>1 DEF Holding, AbortingOf
    <2>5. HandlesOf(S)' = HandlesOf(S)
      BY <1>2, <2>2, <2>3, <2>4 DEF HandlesOf
    <2>6. LastHangsUp(S)'
      BY <1>0, <2>1 DEF LastHangsUp, SideInv
    <2>. QED
      BY <1>0, <1>2, <2>1, <2>2, <2>3, <2>4, <2>5, <2>6
        DEF SideInv, HandleSum, Gone, WakesNext, Holding
  <1>. QED
    BY <1>1, <1>2

(* The steps that keep all handles. *)
HandlesQuiet ==
  /\ SideQuiet(Senders) /\ SideQuiet(Receivers)
  /\ UNCHANGED <<numSenders, numReceivers, handle>>
  /\ (Dead(send)' <=> Dead(send)) /\ (Dead(recv)' <=> Dead(recv))

LEMMA HandlesQuietStep ==
  ASSUME SidesInv, HandlesQuiet
  PROVE  SidesInv'
  <1>1. \A t \in Threads : pc'[t] = "unborn" => pc[t] = "unborn"
    BY DEF HandlesQuiet, SideQuiet, Working, SendLocations, RecvLocations, CallLocations, Threads
  <1>2. Identity'
    <2>1. \A t \in Threads : handle[t] \in Threads
      BY DEF SidesInv, SideInv, Threads
    <2>. QED
      BY <1>1, <2>1 DEF SidesInv, Identity, HandlesQuiet
  <1>3. /\ SideInv(Senders)' /\ HandleSum(Senders)' = HandleSum(Senders)
        /\ WakesNext(Senders)' <=> WakesNext(Senders)
        /\ Gone(Senders)' <=> Gone(Senders)
    BY SideKept DEF SidesInv, HandlesQuiet
  <1>4. /\ SideInv(Receivers)' /\ HandleSum(Receivers)' = HandleSum(Receivers)
        /\ WakesNext(Receivers)' <=> WakesNext(Receivers)
        /\ Gone(Receivers)' <=> Gone(Receivers)
    BY SideKept DEF SidesInv, HandlesQuiet
  <1>. QED
    BY <1>2, <1>3, <1>4 DEF SidesInv, HandlesQuiet

LEMMA SenderHandles ==
  ASSUME Inv, phase = "open", NEW s \in Senders, SenderStep(s)
  PROVE  HandlesInv'
  <1>0. /\ TypeOK /\ PcType /\ SidesInv /\ s \in Threads /\ s \notin Receivers
        /\ send \in Word /\ recv \in Word /\ pc[s] \in Locations
        /\ pc[s] \notin RecvLocations
    BY HandlesBySide, ThreadsFinite, Sides DEF Inv, MpmcInvariant, TypeOK, PcType
  <1>s. SUFFICES SidesInv'
    BY HandlesBySideNext
  <1>1. CASE Reserve(s)
    <2>1. /\ pc[s] = "reserve" /\ handle' = handle /\ pc'[s] \in Working
          /\ \A t \in Threads \ {s} : pc'[t] = pc[t]
          /\ UNCHANGED <<numSenders, numReceivers, recv>>
          /\ send'.flags = send.flags
      BY <1>0, <1>1 DEF Reserve, Refuse, Goto, PcType, handles, Word, Working, SendLocations,
                        CallLocations
    <2>2. HandlesQuiet
      BY <1>0, <2>1, ThreadsFinite DEF HandlesQuiet, SideQuiet, Working, SendLocations, Dead
    <2>. QED
      BY <1>0, <2>2, HandlesQuietStep
  <1>2. CASE WriteSlot(s)
    <2>1. HandlesQuiet
      BY <1>0, <1>2, ThreadsFinite
        DEF WriteSlot, Goto, PcType, words, handles, HandlesQuiet, SideQuiet, Working, SendLocations,
            Dead
    <2>. QED
      BY <1>0, <2>1, HandlesQuietStep
  <1>3. CASE Commit(s)
    <2>1. ~Dead(recv) /\ ~Dead(recv)'
      BY <1>0, <1>3 DEF Commit, SidesInv, Gone, Dead
    <2>2. HandlesQuiet
      BY <1>0, <1>3, <2>1, ThreadsFinite
        DEF Commit, Goto, PcType, handles, HandlesQuiet, SideQuiet, Working, SendLocations,
            CallLocations, Dead
    <2>. QED
      BY <1>0, <2>2, HandlesQuietStep
  <1>4. CASE WakeReceiver(s)
    <2>1. /\ pc[s] = "wake" /\ pc'[s] = "idle"
          /\ \A u \in Threads \ {s} :
               pc'[u] = pc[u] \/ (u \in Receivers /\ pc[u] = "asleep" /\ pc'[u] = "torch")
      BY <1>0, <1>4, WakeType DEF WakeReceiver, Common
    <2>2. HandlesQuiet
      BY <1>0, <1>4, <2>1, ThreadsFinite
        DEF WakeReceiver, OnlyMoves, words, handles, HandlesQuiet, SideQuiet, Working, CallLocations,
            Dead
    <2>. QED
      BY <1>0, <2>2, HandlesQuietStep
  <1>5. CASE SpinSend(s)
    <2>1. send' \in Word /\ (spin[s] = 0 => send'.flags # {}) /\ (Dead(send') <=> Dead(send))
      BY <1>0, <1>5, PolledWord DEF SpinSend
    <2>2. /\ pc[s] = "spin" /\ pc'[s] \in Working /\ \A u \in Threads \ {s} : pc'[u] = pc[u]
      <3>1. CASE Poll(s, send', send'.slots # Slots, "reserve")
        BY <1>0, <1>5, <2>1, <3>1, PollType DEF SpinSend, Working, SendLocations, CallLocations
      <3>2. CASE Refuse(s)
        BY <1>0, <1>5, <3>2, ErrType DEF SpinSend, Working
      <3>. QED
        BY <1>5, <3>1, <3>2 DEF SpinSend
    <2>3. HandlesQuiet
      BY <1>0, <1>5, <2>1, <2>2, ThreadsFinite
        DEF SpinSend, handles, HandlesQuiet, SideQuiet, Working, CallLocations, Dead
    <2>. QED
      BY <1>0, <2>3, HandlesQuietStep
  <1>6. CASE SleepSend(s)
    <2>1. HandlesQuiet
      BY <1>0, <1>6, ThreadsFinite
        DEF SleepSend, OnlyMoves, Goto, PcType, words, handles, HandlesQuiet, SideQuiet, Working,
            CallLocations, Dead
    <2>. QED
      BY <1>0, <2>1, HandlesQuietStep
  <1>7. CASE PassTorchSend(s)
    <2>1. Dead(send)' <=> Dead(send)
      BY <1>0, <1>7, WordClosed DEF PassTorchSend, Dead, Status
    <2>2. HandlesQuiet
      BY <1>0, <1>7, <2>1, ThreadsFinite
        DEF PassTorchSend, Goto, PcType, handles, HandlesQuiet, SideQuiet, Working, SendLocations,
            CallLocations, Dead
    <2>. QED
      BY <1>0, <2>2, HandlesQuietStep
  <1>8. CASE Abort(s)
    <2>1. HandlesQuiet
      BY <1>8 DEF Abort, words, handles, HandlesQuiet, SideQuiet, Dead
    <2>. QED
      BY <1>0, <2>1, HandlesQuietStep
  <1>9. CASE HangUpSenders(s) \/ WakeAllReceivers(s)
    <2>1. /\ pc'[s] \in {"hangupWake", "dead"}
          /\ \A u \in Senders \ {s} : pc'[u] = pc[u]
          /\ \A u \in Receivers : \/ pc'[u] = pc[u]
                                  \/ pc[u] = "asleep" /\ pc'[u] = "torch"
          /\ pc[s] \in {"hangup", "hangupWake"} /\ (pc[s] = "hangupWake" => Dead(recv))
      <3>1. CASE HangUpSenders(s)
        BY <1>0, <3>1, ThreadsFinite, Sides DEF HangUpSenders, Goto, PcType
      <3>2. CASE WakeAllReceivers(s)
        <4>1. /\ pc[s] = "hangupWake" /\ pc'[s] = "dead"
              /\ \A u \in Threads \ {s} :
                   pc'[u] = pc[u] \/ (u \in Receivers /\ pc[u] = "asleep" /\ pc'[u] = "torch")
          BY <1>0, <3>2, WakeType DEF WakeAllReceivers, Common
        <4>. QED
          BY <1>0, <4>1, ThreadsFinite, Sides DEF SidesInv, WakesNext
      <3>. QED
        BY <1>9, <3>1, <3>2
    <2>2. Dead(recv)' /\ UNCHANGED <<send, handle, numSenders, numReceivers>>
      BY <1>0, <1>9, <2>1, WordClosed
        DEF HangUpSenders, WakeAllReceivers, OnlyMoves, words, handles, Dead, Status
    <2>3. /\ SideInv(Senders)' /\ HandleSum(Senders)' = HandleSum(Senders)
          /\ Gone(Senders)'
      BY <1>0, <2>1, <2>2, SideHangsUp DEF SidesInv
    <2>4. /\ SideInv(Receivers)' /\ HandleSum(Receivers)' = HandleSum(Receivers)
          /\ WakesNext(Receivers)' <=> WakesNext(Receivers)
          /\ Gone(Receivers)' <=> Gone(Receivers)
      <3>1. SideQuiet(Receivers)
        BY <2>1, <2>2 DEF SideQuiet, Working, CallLocations
      <3>. QED
        BY <1>0, <3>1, SideKept DEF SidesInv
    <2>5. Identity'
      BY <1>0, <2>1, <2>2 DEF SidesInv, Identity, SideInv, Threads
    <2>. QED
      BY <1>0, <2>2, <2>3, <2>4, <2>5 DEF SidesInv, Dead
  <1>. QED
    BY <1>1, <1>2, <1>3, <1>4, <1>5, <1>6, <1>7, <1>8, <1>9 DEF SenderStep

LEMMA ReceiverHandles ==
  ASSUME Inv, phase = "open", NEW r \in Receivers, ReceiverStep(r)
  PROVE  HandlesInv'
  <1>0. /\ TypeOK /\ PcType /\ SidesInv /\ r \in Threads /\ r \notin Senders
        /\ send \in Word /\ recv \in Word /\ pc[r] \in Locations
        /\ pc[r] \notin SendLocations
    BY HandlesBySide, ThreadsFinite, Sides DEF Inv, MpmcInvariant, TypeOK, PcType
  <1>s. SUFFICES SidesInv'
    BY HandlesBySideNext
  <1>1. CASE Claim(r)
    <2>1. /\ pc[r] = "claim" /\ handle' = handle /\ pc'[r] \in Working
          /\ \A t \in Threads \ {r} : pc'[t] = pc[t]
          /\ UNCHANGED <<numSenders, numReceivers, send>>
          /\ recv'.flags = recv.flags
      BY <1>0, <1>1, WordClosed DEF Claim, TellGone, Goto, PcType, handles, Working, RecvLocations,
                                    CallLocations
    <2>2. HandlesQuiet
      BY <1>0, <2>1, ThreadsFinite DEF HandlesQuiet, SideQuiet, Working, RecvLocations, Dead
    <2>. QED
      BY <1>0, <2>2, HandlesQuietStep
  <1>2. CASE ReadSlot(r)
    <2>1. HandlesQuiet
      BY <1>0, <1>2, ThreadsFinite
        DEF ReadSlot, Goto, PcType, words, handles, HandlesQuiet, SideQuiet, Working, RecvLocations,
            Dead
    <2>. QED
      BY <1>0, <2>1, HandlesQuietStep
  <1>3. CASE FreeSlots(r)
    <2>1. ~Dead(send) /\ ~Dead(send)'
      BY <1>0, <1>3 DEF FreeSlots, AfterFree, SidesInv, Gone, Dead
    <2>2. HandlesQuiet
      BY <1>0, <1>3, <2>1, ThreadsFinite
        DEF FreeSlots, Goto, PcType, handles, HandlesQuiet, SideQuiet, Working, RecvLocations,
            CallLocations, Dead
    <2>. QED
      BY <1>0, <2>2, HandlesQuietStep
  <1>4. CASE WakeSender(r)
    <2>1. /\ pc[r] = "wake" /\ pc'[r] = "idle"
          /\ \A u \in Threads \ {r} :
               pc'[u] = pc[u] \/ (u \in Senders /\ pc[u] = "asleep" /\ pc'[u] = "torch")
      BY <1>0, <1>4, WakeType DEF WakeSender, Common
    <2>2. HandlesQuiet
      BY <1>0, <1>4, <2>1, ThreadsFinite
        DEF WakeSender, OnlyMoves, words, handles, HandlesQuiet, SideQuiet, Working, CallLocations,
            Dead
    <2>. QED
      BY <1>0, <2>2, HandlesQuietStep
  <1>5. CASE SpinRecv(r)
    <2>1. recv' \in Word /\ (spin[r] = 0 => recv'.flags # {}) /\ (Dead(recv') <=> Dead(recv))
      BY <1>0, <1>5, PolledWord DEF SpinRecv
    <2>2. /\ pc[r] = "spin" /\ pc'[r] \in Working /\ \A u \in Threads \ {r} : pc'[u] = pc[u]
      <3>1. CASE Poll(r, recv', recv'.slots # {}, "claim")
        BY <1>0, <1>5, <2>1, <3>1, PollType DEF SpinRecv, Working, RecvLocations, CallLocations
      <3>2. CASE TellGone(r)
        BY <1>0, <1>5, <3>2, ErrType DEF SpinRecv, Working
      <3>. QED
        BY <1>5, <3>1, <3>2 DEF SpinRecv
    <2>3. HandlesQuiet
      BY <1>0, <1>5, <2>1, <2>2, ThreadsFinite
        DEF SpinRecv, handles, HandlesQuiet, SideQuiet, Working, CallLocations, Dead
    <2>. QED
      BY <1>0, <2>3, HandlesQuietStep
  <1>6. CASE SleepRecv(r)
    <2>1. HandlesQuiet
      BY <1>0, <1>6, ThreadsFinite
        DEF SleepRecv, OnlyMoves, Goto, PcType, words, handles, HandlesQuiet, SideQuiet, Working,
            CallLocations, Dead
    <2>. QED
      BY <1>0, <2>1, HandlesQuietStep
  <1>7. CASE PassTorchRecv(r)
    <2>1. Dead(recv)' <=> Dead(recv)
      BY <1>0, <1>7, WordClosed DEF PassTorchRecv, Dead, Status
    <2>2. HandlesQuiet
      BY <1>0, <1>7, <2>1, ThreadsFinite
        DEF PassTorchRecv, Goto, PcType, handles, HandlesQuiet, SideQuiet, Working, RecvLocations,
            CallLocations, Dead
    <2>. QED
      BY <1>0, <2>2, HandlesQuietStep
  <1>8. CASE Abort(r)
    <2>1. HandlesQuiet
      BY <1>8 DEF Abort, words, handles, HandlesQuiet, SideQuiet, Dead
    <2>. QED
      BY <1>0, <2>1, HandlesQuietStep
  <1>9. CASE HangUpReceivers(r) \/ WakeAllSenders(r)
    <2>1. /\ pc'[r] \in {"hangupWake", "dead"}
          /\ \A u \in Receivers \ {r} : pc'[u] = pc[u]
          /\ \A u \in Senders : \/ pc'[u] = pc[u]
                                \/ pc[u] = "asleep" /\ pc'[u] = "torch"
          /\ pc[r] \in {"hangup", "hangupWake"} /\ (pc[r] = "hangupWake" => Dead(send))
      <3>1. CASE HangUpReceivers(r)
        BY <1>0, <3>1, ThreadsFinite, Sides DEF HangUpReceivers, Goto, PcType
      <3>2. CASE WakeAllSenders(r)
        <4>1. /\ pc[r] = "hangupWake" /\ pc'[r] = "dead"
              /\ \A u \in Threads \ {r} :
                   pc'[u] = pc[u] \/ (u \in Senders /\ pc[u] = "asleep" /\ pc'[u] = "torch")
          BY <1>0, <3>2, WakeType DEF WakeAllSenders, Common
        <4>. QED
          BY <1>0, <4>1, ThreadsFinite, Sides DEF SidesInv, WakesNext
      <3>. QED
        BY <1>9, <3>1, <3>2
    <2>2. Dead(send)' /\ UNCHANGED <<recv, handle, numSenders, numReceivers>>
      BY <1>0, <1>9, <2>1, WordClosed
        DEF HangUpReceivers, WakeAllSenders, OnlyMoves, words, handles, Dead, Status
    <2>3. /\ SideInv(Receivers)' /\ HandleSum(Receivers)' = HandleSum(Receivers)
          /\ Gone(Receivers)'
      BY <1>0, <2>1, <2>2, SideHangsUp DEF SidesInv
    <2>4. /\ SideInv(Senders)' /\ HandleSum(Senders)' = HandleSum(Senders)
          /\ WakesNext(Senders)' <=> WakesNext(Senders)
          /\ Gone(Senders)' <=> Gone(Senders)
      <3>1. SideQuiet(Senders)
        BY <2>1, <2>2 DEF SideQuiet, Working, CallLocations
      <3>. QED
        BY <1>0, <3>1, SideKept DEF SidesInv
    <2>5. Identity'
      BY <1>0, <2>1, <2>2 DEF SidesInv, Identity, SideInv, Threads
    <2>. QED
      BY <1>0, <2>2, <2>3, <2>4, <2>5 DEF SidesInv, Dead
  <1>. QED
    BY <1>1, <1>2, <1>3, <1>4, <1>5, <1>6, <1>7, <1>8, <1>9 DEF ReceiverStep

(* What the counters become, while they do not wrap. *)
LEMMA CountSteps ==
  ASSUME NEW n \in 1..(CountRange - 1)
  PROVE  OneMore(n) = (n + 1) % CountRange /\ OneLess(n) = (n - 1) % CountRange
  <1>1. /\ n - 1 \in Nat /\ n - 1 < CountRange /\ n + CountRange - 1 \in Nat
        /\ CountRange <= n + CountRange - 1 /\ n + CountRange - 1 < 2 * CountRange
        /\ (n + CountRange - 1) - CountRange = n - 1
    BY CountRangePositive
  <1>2. (n + CountRange - 1) % CountRange = n - 1 /\ (n - 1) % CountRange = n - 1
    <2>. HIDE DEF CountRange
    <2>. QED
      BY <1>1, CountRangePositive, Remainder
  <1>. QED
    BY <1>2 DEF OneMore, OneLess

LEMMA UserHandles ==
  ASSUME Inv, UserStep
  PROVE  HandlesInv'
  <1>0. /\ TypeOK /\ PcType /\ SidesInv
        /\ Senders \subseteq Threads /\ Receivers \subseteq Threads
        /\ Senders \cap Receivers = {}
    BY HandlesBySide, ThreadsFinite, MpmcAssumption DEF Inv, MpmcInvariant, TypeOK, PcType
  <1>s. SUFFICES SidesInv'
    BY HandlesBySideNext
  <1>1. ASSUME NEW s \in Senders, NEW k \in 1..MaxItems, NEW b \in BOOLEAN, CallSend(s, k, b)
        PROVE  SidesInv'
    <2>1. HandlesQuiet
      BY <1>0, <1>1
        DEF CallSend, Goto, PcType, words, handles, HandlesQuiet, SideQuiet, Working, SendLocations,
            Dead
    <2>. QED
      BY <1>0, <2>1, HandlesQuietStep
  <1>2. ASSUME NEW r \in Receivers, NEW b \in BOOLEAN, CallRecv(r, b)
        PROVE  SidesInv'
    <2>1. HandlesQuiet
      BY <1>0, <1>2
        DEF CallRecv, Goto, PcType, words, handles, HandlesQuiet, SideQuiet, Working, RecvLocations,
            Dead
    <2>. QED
      BY <1>0, <2>1, HandlesQuietStep
  <1>3. ASSUME NEW s \in Senders, NEW t \in Senders \ Borrowers, CloneSender(s, t)
        PROVE  SidesInv'
    <2>1. /\ pc[s] = "idle" /\ pc[t] = "unborn" /\ handle' = handle
          /\ UNCHANGED <<send, recv, numReceivers>>
          /\ numSenders' = OneMore(numSenders)
          /\ \/ numSenders > HandleLimit /\ pc' = [pc EXCEPT ![s] = "abortClone"]
             \/ ~(numSenders > HandleLimit) /\ pc' = [pc EXCEPT ![t] = "idle"]
      BY <1>3 DEF CloneSender, Goto, words
    <2>2. /\ HandleSum(Senders) \in 1..(CountRange - 1) /\ numSenders = HandleSum(Senders)
          /\ ~Gone(Senders)
      BY <1>0, <2>1, NoWrap DEF SidesInv, Gone
    <2>3. /\ SideInv(Senders)' /\ HandleSum(Senders)' = HandleSum(Senders) + 1
          /\ ~Gone(Senders)' /\ (WakesNext(Senders)' => WakesNext(Senders))
      <3>1. CASE numSenders > HandleLimit
        BY <1>0, <2>1, <3>1, SideAborts DEF SidesInv
      <3>2. CASE ~(numSenders > HandleLimit)
        <4>1. HandleSum(Senders) <= HandleLimit
          BY <2>2, <3>2, CountRangePositive, MpmcAssumption
        <4>. QED
          BY <1>0, <2>1, <3>2, <4>1, SideGrows DEF SidesInv
      <3>. QED
        BY <3>1, <3>2
    <2>4. SideQuiet(Receivers)
      BY <1>0, <2>1 DEF SideQuiet, PcType
    <2>5. /\ SideInv(Receivers)' /\ HandleSum(Receivers)' = HandleSum(Receivers)
          /\ WakesNext(Receivers)' <=> WakesNext(Receivers)
          /\ Gone(Receivers)' <=> Gone(Receivers)
      BY <1>0, <2>4, SideKept DEF SidesInv
    <2>6. Identity'
      BY <1>0, <2>1 DEF SidesInv, Identity, PcType, TypeOK
    <2>7. numSenders' = HandleSum(Senders)' % CountRange
      BY <2>1, <2>2, <2>3, CountSteps
    <2>. QED
      BY <1>0, <2>1, <2>2, <2>3, <2>5, <2>6, <2>7 DEF SidesInv, Dead
  <1>4. ASSUME NEW r \in Receivers, NEW t \in Receivers \ Borrowers, CloneReceiver(r, t)
        PROVE  SidesInv'
    <2>1. /\ pc[r] = "idle" /\ pc[t] = "unborn" /\ handle' = handle
          /\ UNCHANGED <<send, recv, numSenders>>
          /\ numReceivers' = OneMore(numReceivers)
          /\ \/ numReceivers > HandleLimit /\ pc' = [pc EXCEPT ![r] = "abortClone"]
             \/ ~(numReceivers > HandleLimit) /\ pc' = [pc EXCEPT ![t] = "idle"]
      BY <1>4 DEF CloneReceiver, Goto, words
    <2>2. /\ HandleSum(Receivers) \in 1..(CountRange - 1)
          /\ numReceivers = HandleSum(Receivers) /\ ~Gone(Receivers)
      BY <1>0, <2>1, NoWrap DEF SidesInv, Gone
    <2>3. /\ SideInv(Receivers)' /\ HandleSum(Receivers)' = HandleSum(Receivers) + 1
          /\ ~Gone(Receivers)' /\ (WakesNext(Receivers)' => WakesNext(Receivers))
      <3>1. CASE numReceivers > HandleLimit
        BY <1>0, <2>1, <3>1, SideAborts DEF SidesInv
      <3>2. CASE ~(numReceivers > HandleLimit)
        <4>1. HandleSum(Receivers) <= HandleLimit
          BY <2>2, <3>2, CountRangePositive, MpmcAssumption
        <4>. QED
          BY <1>0, <2>1, <3>2, <4>1, SideGrows DEF SidesInv
      <3>. QED
        BY <3>1, <3>2
    <2>4. SideQuiet(Senders)
      BY <1>0, <2>1 DEF SideQuiet, PcType
    <2>5. /\ SideInv(Senders)' /\ HandleSum(Senders)' = HandleSum(Senders)
          /\ WakesNext(Senders)' <=> WakesNext(Senders)
          /\ Gone(Senders)' <=> Gone(Senders)
      BY <1>0, <2>4, SideKept DEF SidesInv
    <2>6. Identity'
      BY <1>0, <2>1 DEF SidesInv, Identity, PcType, TypeOK
    <2>7. numReceivers' = HandleSum(Receivers)' % CountRange
      BY <2>1, <2>2, <2>3, CountSteps
    <2>. QED
      BY <1>0, <2>1, <2>2, <2>3, <2>5, <2>6, <2>7 DEF SidesInv, Dead
  <1>5. ASSUME NEW s \in Senders, DropSender(s)
        PROVE  SidesInv'
    <2>1. /\ pc[s] = "idle" /\ ~Shared(s) /\ handle' = handle
          /\ UNCHANGED <<send, recv, numReceivers>>
          /\ numSenders' = OneLess(numSenders)
          /\ pc' = [pc EXCEPT ![s] = IF OthersLeft(numSenders) THEN "dead" ELSE "hangup"]
      BY <1>5 DEF DropSender, Goto, words
    <2>2. /\ HandleSum(Senders) \in 1..(CountRange - 1) /\ numSenders = HandleSum(Senders)
          /\ ~Gone(Senders) /\ ~WakesNext(Senders)
      BY <1>0, <2>1, NoWrap DEF SidesInv, Gone
    <2>3. /\ SideInv(Senders)' /\ HandleSum(Senders)' = HandleSum(Senders) - 1
          /\ ~Gone(Senders)' /\ (WakesNext(Senders)' => WakesNext(Senders))
      BY <1>0, <2>1, <2>2, SideShrinks DEF SidesInv
    <2>4. SideQuiet(Receivers)
      BY <1>0, <2>1 DEF SideQuiet, PcType
    <2>5. /\ SideInv(Receivers)' /\ HandleSum(Receivers)' = HandleSum(Receivers)
          /\ WakesNext(Receivers)' <=> WakesNext(Receivers)
          /\ Gone(Receivers)' <=> Gone(Receivers)
      BY <1>0, <2>4, SideKept DEF SidesInv
    <2>6. Identity'
      BY <1>0, <2>1 DEF SidesInv, Identity, PcType, TypeOK
    <2>7. numSenders' = HandleSum(Senders)' % CountRange
      BY <2>1, <2>2, <2>3, CountSteps
    <2>. QED
      BY <1>0, <2>1, <2>2, <2>3, <2>5, <2>6, <2>7 DEF SidesInv, Dead
  <1>6. ASSUME NEW r \in Receivers, DropReceiver(r)
        PROVE  SidesInv'
    <2>1. /\ pc[r] = "idle" /\ ~Shared(r) /\ handle' = handle
          /\ UNCHANGED <<send, recv, numSenders>>
          /\ numReceivers' = OneLess(numReceivers)
          /\ pc' = [pc EXCEPT ![r] = IF OthersLeft(numReceivers) THEN "dead" ELSE "hangup"]
      BY <1>6 DEF DropReceiver, Goto, words
    <2>2. /\ HandleSum(Receivers) \in 1..(CountRange - 1)
          /\ numReceivers = HandleSum(Receivers)
          /\ ~Gone(Receivers) /\ ~WakesNext(Receivers)
      BY <1>0, <2>1, NoWrap DEF SidesInv, Gone
    <2>3. /\ SideInv(Receivers)' /\ HandleSum(Receivers)' = HandleSum(Receivers) - 1
          /\ ~Gone(Receivers)' /\ (WakesNext(Receivers)' => WakesNext(Receivers))
      BY <1>0, <2>1, <2>2, SideShrinks DEF SidesInv
    <2>4. SideQuiet(Senders)
      BY <1>0, <2>1 DEF SideQuiet, PcType
    <2>5. /\ SideInv(Senders)' /\ HandleSum(Senders)' = HandleSum(Senders)
          /\ WakesNext(Senders)' <=> WakesNext(Senders)
          /\ Gone(Senders)' <=> Gone(Senders)
      BY <1>0, <2>4, SideKept DEF SidesInv
    <2>6. Identity'
      BY <1>0, <2>1 DEF SidesInv, Identity, PcType, TypeOK
    <2>7. numReceivers' = HandleSum(Receivers)' % CountRange
      BY <2>1, <2>2, <2>3, CountSteps
    <2>. QED
      BY <1>0, <2>1, <2>2, <2>3, <2>5, <2>6, <2>7 DEF SidesInv, Dead
  <1>7. ASSUME NEW S \in {Senders, Receivers}, NEW t \in S,
               (\E u \in S \cap Borrowers : Share(t, u)) \/ Unshare(t)
        PROVE  SidesInv'
    <2>. DEFINE R == Threads \ S
    <2>1. R \in {Senders, Receivers} /\ S \subseteq Threads /\ R \cap S = {}
      BY <1>0 DEF Threads
    <2>2. /\ pc[t] = "idle" /\ UNCHANGED <<send, recv, numSenders, numReceivers>>
          /\ SideInv(S) /\ ~Gone(S) /\ ~WakesNext(S)
          /\ \A v \in Threads : handle[v] \in S => v \in S
      <3>1. pc[t] = "idle" /\ UNCHANGED <<send, recv, numSenders, numReceivers>>
        BY <1>7 DEF Share, Unshare, OnlyMoves, words, handles
      <3>2. SideInv(S) /\ ~Gone(S) /\ ~WakesNext(S)
        BY <1>0, <3>1 DEF SidesInv, Gone
      <3>3. \A v \in Threads : handle[v] \in S => v \in S
        BY <1>0, <2>1 DEF SidesInv, SideInv, Threads
      <3>. QED
        BY <3>1, <3>2, <3>3
    <2>3. /\ SideInv(S)' /\ HandleSum(S)' = HandleSum(S)
          /\ ~Gone(S)' /\ (WakesNext(S)' => WakesNext(S))
      BY <1>0, <1>7, <2>2, SideShares DEF Share, Unshare, OnlyMoves, handles, Goto
    <2>4. SideQuiet(R)
      BY <1>0, <1>7, <2>1 DEF SideQuiet, PcType, TypeOK, Share, Unshare, OnlyMoves, handles, Goto
    <2>5. /\ SideInv(R)' /\ HandleSum(R)' = HandleSum(R)
          /\ WakesNext(R)' <=> WakesNext(R)
          /\ Gone(R)' <=> Gone(R)
      BY <1>0, <2>1, <2>4, SideKept DEF SidesInv
    <2>6. Identity'
      <3>1. ASSUME NEW u \in S \cap Borrowers, Share(t, u)
            PROVE  Identity'
        <4>1. /\ pc[t] = "idle" /\ pc[u] = "unborn" /\ u \in Threads /\ t \in Threads
              /\ pc'[u] = "idle" /\ \A v \in Threads \ {u} : pc'[v] = pc[v]
              /\ handle'[u] = handle[t] /\ \A v \in Threads \ {u} : handle'[v] = handle[v]
              /\ \A v \in Threads : handle[v] \in Threads
          BY <1>0, <2>1, <3>1 DEF Share, Goto, TypeOK
        <4>2. \A v \in Threads \ Borrowers : handle'[v] = v
          BY <1>0, <4>1 DEF SidesInv, Identity
        <4>3. \A v \in Threads : pc'[handle'[v]] = "unborn" => handle'[v] = v
          BY <1>0, <4>1 DEF SidesInv, Identity
        <4>. QED
          BY <4>2, <4>3 DEF Identity
      <3>2. CASE Unshare(t)
        BY <1>0, <2>1, <3>2 DEF Unshare, OnlyMoves, handles, Goto, SidesInv, Identity, TypeOK
      <3>. QED
        BY <1>7, <3>1, <3>2
    <2>. QED
      BY <1>0, <2>1, <2>2, <2>3, <2>5, <2>6 DEF SidesInv, Dead
  <1>. QED
    BY <1>0, <1>1, <1>2, <1>3, <1>4, <1>5, <1>6, <1>7 DEF UserStep, Threads

LEMMA HandlesStep ==
  ASSUME Inv, [Next]_vars
  PROVE  HandlesInv'
  <1>0. TypeOK /\ PcType /\ SidesInv
    BY HandlesBySide DEF Inv, MpmcInvariant, TypeOK, PcType
  <1>1. ASSUME NEW t \in Threads, Interrupt(t)
        PROVE  HandlesInv'
    <2>1. HandlesQuiet
      BY <1>0, <1>1, ThreadsFinite
        DEF Interrupt, OnlyMoves, Goto, PcType, words, handles, HandlesQuiet, SideQuiet, Working,
            CallLocations, Dead
    <2>. QED
      BY <1>0, <2>1, HandlesQuietStep, HandlesBySideNext
  <1>2. ASSUME NEW k, Teardown(k)
        PROVE  HandlesInv'
    <2>1. HandlesQuiet
      BY <1>2 DEF Teardown, words, handles, HandlesQuiet, SideQuiet, Dead
    <2>. QED
      BY <1>0, <2>1, HandlesQuietStep, HandlesBySideNext
  <1>3. CASE UNCHANGED vars
    <2>1. HandlesQuiet
      BY <1>3 DEF vars, words, handles, HandlesQuiet, SideQuiet, Dead
    <2>. QED
      BY <1>0, <2>1, HandlesQuietStep, HandlesBySideNext
  <1>. QED
    BY <1>1, <1>2, <1>3, SenderHandles, ReceiverHandles, UserHandles DEF Next, Finished
-----------------------------------------------------------------------------
(* NoSleeperForgotten by side, and the steps that do not disturb it. *)
ReceiversAwaited ==
  ~Dead(recv) /\ Asleep(Receivers) # {} =>
    \/ \E s \in Senders : pc[s] = "wake"
    \/ \E r \in Receivers : pc[r] = "torch"
    \/ Sleeping(recv) /\ (recv.slots = {} \/ \E r \in Receivers : pc[r] = "claim")

SendersAwaited ==
  ~Dead(send) /\ Asleep(Senders) # {} =>
    \/ \E r \in Receivers : pc[r] = "wake"
    \/ \E s \in Senders : pc[s] = "torch"
    \/ Sleeping(send) /\ (send.slots # {} \/ \E s \in Senders : pc[s] = "reserve")

ReceiversRest ==
  /\ \A r \in Receivers : /\ pc'[r] = "asleep" => pc[r] = "asleep"
                          /\ pc[r] \in {"torch", "claim"} => pc'[r] = pc[r]
  /\ \A s \in Senders : pc[s] = "wake" => pc'[s] = "wake"
  /\ (Dead(recv) => Dead(recv)') /\ (Sleeping(recv) => Sleeping(recv)')
  /\ recv.slots = {} => recv'.slots = {}

SendersRest ==
  /\ \A s \in Senders : /\ pc'[s] = "asleep" => pc[s] = "asleep"
                        /\ pc[s] \in {"torch", "reserve"} => pc'[s] = pc[s]
  /\ \A r \in Receivers : pc[r] = "wake" => pc'[r] = "wake"
  /\ (Dead(send) => Dead(send)') /\ (Sleeping(send) => Sleeping(send)')
  /\ send.slots # {} => send'.slots # {}

LEMMA RestKept ==
  /\ ReceiversAwaited /\ ReceiversRest => ReceiversAwaited'
  /\ SendersAwaited /\ SendersRest => SendersAwaited'
  BY DEF ReceiversAwaited, SendersAwaited, ReceiversRest, SendersRest, Asleep

LEMMA AwaitedBySide ==
  /\ NoSleeperForgotten <=> ReceiversAwaited /\ SendersAwaited
  /\ NoSleeperForgotten' <=> ReceiversAwaited' /\ SendersAwaited'
  BY DEF NoSleeperForgotten, ReceiversAwaited, SendersAwaited

LEMMA SenderSleepers ==
  ASSUME Inv, NEW s \in Senders, SenderStep(s)
  PROVE  NoSleeperForgotten'
  <1>0. /\ TypeOK /\ PcType /\ Duties /\ ReceiversAwaited /\ SendersAwaited
        /\ s \in Threads /\ s \notin Receivers /\ Senders \cap Receivers = {}
        /\ Senders \subseteq Threads /\ Receivers \subseteq Threads
        /\ send \in Word /\ recv \in Word
    BY AwaitedBySide, ThreadsFinite, Sides, MpmcAssumption DEF Inv, MpmcInvariant, TypeOK, PcType
  <1>s. SUFFICES ReceiversAwaited' /\ SendersAwaited'
    BY AwaitedBySide
  <1>1. CASE Reserve(s)
    <2>1. /\ pc[s] = "reserve" /\ pc'[s] \notin {"asleep", "torch"} /\ UNCHANGED recv
          /\ \A t \in Threads \ {s} : pc'[t] = pc[t]
          /\ send'.flags = send.flags /\ send'.slots = send.slots \cup Request(s)
          /\ Request(s) # {}
      BY <1>0, <1>1, RequestFits DEF Reserve, Refuse, Goto, PcType, Word
    <2>2. ReceiversRest
      BY <1>0, <2>1 DEF ReceiversRest, Dead, Sleeping
    <2>3. SendersAwaited'
      BY <1>0, <2>1 DEF SendersAwaited, Asleep, Dead, Sleeping
    <2>. QED
      BY <1>0, <2>2, <2>3, RestKept
  <1>2. CASE WriteSlot(s)
    <2>1. ReceiversRest /\ SendersRest
      BY <1>0, <1>2
        DEF WriteSlot, Goto, PcType, words, ReceiversRest, SendersRest, Dead, Sleeping
    <2>. QED
      BY <1>0, <2>1, RestKept
  <1>3. CASE Commit(s)
    <2>1. /\ pc[s] = "commit" /\ pc'[s] = (IF Sleeping(recv) THEN "wake" ELSE "idle")
          /\ \A t \in Threads \ {s} : pc'[t] = pc[t]
          /\ UNCHANGED send
      BY <1>0, <1>3 DEF Commit, Goto, PcType
    <2>2. SendersRest
      BY <1>0, <2>1 DEF SendersRest, Dead, Sleeping
    <2>3. ~Dead(recv)
      BY <1>0, <2>1 DEF Inv, MpmcInvariant, HandlesInv, Announced, GoneOnlyIf
    <2>4. ReceiversAwaited'
      <3>1. CASE Sleeping(recv)
        BY <1>0, <2>1, <3>1 DEF ReceiversAwaited
      <3>2. CASE ~Sleeping(recv)
        BY <1>0, <2>1, <2>3, <3>2 DEF ReceiversAwaited, Asleep
      <3>. QED
        BY <3>1, <3>2
    <2>. QED
      BY <1>0, <2>2, <2>4, RestKept
  <1>4. CASE WakeReceiver(s)
    <2>1. /\ pc[s] = "wake" /\ pc'[s] = "idle" /\ UNCHANGED <<send, recv>>
          /\ \A u \in Threads \ {s} :
               pc'[u] = pc[u] \/ (u \in Receivers /\ pc[u] = "asleep" /\ pc'[u] = "torch")
          /\ Asleep(Receivers) # {} => \E u \in Receivers : pc'[u] = "torch"
      <3>1. "idle" \in Locations
        BY DEF Locations
      <3>. QED
        BY <1>0, <1>4, <3>1, WakeOneEffect DEF WakeReceiver, OnlyMoves, words
    <2>2. SendersRest
      BY <1>0, <2>1 DEF SendersRest, Dead, Sleeping
    <2>3. ReceiversAwaited'
      BY <1>0, <2>1 DEF ReceiversAwaited, Asleep
    <2>. QED
      BY <1>0, <2>2, <2>3, RestKept
  <1>5. CASE SpinSend(s)
    <2>1. /\ send' \in Word /\ (spin[s] = 0 => send'.flags # {}) /\ (Dead(send') <=> Dead(send))
          /\ send'.slots = send.slots /\ (Sleeping(send) => Sleeping(send'))
      BY <1>0, <1>5, PolledWord DEF SpinSend
    <2>2. /\ pc[s] = "spin" /\ pc'[s] # "asleep" /\ UNCHANGED recv
          /\ \A u \in Threads \ {s} : pc'[u] = pc[u]
      <3>1. CASE Poll(s, send', send'.slots # Slots, "reserve")
        <4>1. pc[s] = "spin" /\ UNCHANGED recv
          BY <1>5 DEF SpinSend
        <4>2. /\ pc'[s] \in {"reserve", "sleep", "spin"}
              /\ \A u \in Threads \ {s} : pc'[u] = pc[u]
          BY <1>0, <2>1, <3>1, <4>1, PollType
        <4>. QED
          BY <4>1, <4>2
      <3>2. CASE Refuse(s)
        BY <1>0, <1>5, <3>2, ErrType DEF SpinSend
      <3>. QED
        BY <1>5, <3>1, <3>2 DEF SpinSend
    <2>3. ReceiversRest /\ SendersRest
      BY <1>0, <2>1, <2>2 DEF ReceiversRest, SendersRest, Dead, Sleeping
    <2>. QED
      BY <1>0, <2>3, RestKept
  <1>6. CASE SleepSend(s)
    <2>1. /\ pc[s] = "sleep" /\ UNCHANGED <<send, recv>>
          /\ \A u \in Threads \ {s} : pc'[u] = pc[u]
          /\ \/ pc'[s] = "torch"
             \/ pc'[s] = "asleep" /\ send = [slots |-> Slots, flags |-> {"SLEEPING"}]
      BY <1>0, <1>6 DEF SleepSend, Blocks, OnlyMoves, words, Goto, PcType
    <2>2. ReceiversRest
      BY <1>0, <2>1 DEF ReceiversRest, Dead, Sleeping
    <2>3. SendersAwaited'
      <3>1. CASE pc'[s] = "torch"
        BY <3>1 DEF SendersAwaited
      <3>2. CASE send = [slots |-> Slots, flags |-> {"SLEEPING"}]
        <4>1. Slots # {} /\ send.slots = Slots /\ Sleeping(send)
          <5>1. 0 \in Slots
            BY SlotCount DEF Slots
          <5>. QED
            BY <3>2, <5>1 DEF Sleeping
        <4>. QED
          BY <2>1, <4>1 DEF SendersAwaited, Sleeping
      <3>. QED
        BY <2>1, <3>1, <3>2
    <2>. QED
      BY <1>0, <2>2, <2>3, RestKept
  <1>7. CASE PassTorchSend(s)
    <2>1. /\ pc[s] = "torch" /\ pc'[s] = "reserve" /\ UNCHANGED recv
          /\ \A u \in Threads \ {s} : pc'[u] = pc[u]
          /\ Sleeping(send')
      BY <1>0, <1>7, WordClosed DEF PassTorchSend, Goto, PcType, Sleeping, Status
    <2>2. ReceiversRest
      BY <1>0, <2>1 DEF ReceiversRest, Dead, Sleeping
    <2>3. SendersAwaited'
      BY <1>0, <2>1 DEF SendersAwaited, Sleeping
    <2>. QED
      BY <1>0, <2>2, <2>3, RestKept
  <1>8. CASE HangUpSenders(s)
    <2>1. /\ pc[s] = "hangup" /\ pc'[s] \in {"hangupWake", "dead"} /\ UNCHANGED send
          /\ \A u \in Threads \ {s} : pc'[u] = pc[u]
          /\ recv'.slots = recv.slots /\ recv'.flags = recv.flags \cup {"COUNTERPARTY_DEAD"}
      BY <1>0, <1>8, WordClosed DEF HangUpSenders, Goto, PcType, Status
    <2>2. ReceiversRest /\ SendersRest
      BY <1>0, <2>1 DEF ReceiversRest, SendersRest, Dead, Sleeping
    <2>. QED
      BY <1>0, <2>2, RestKept
  <1>9. CASE WakeAllReceivers(s)
    <2>1. /\ pc[s] = "hangupWake" /\ pc'[s] = "dead" /\ UNCHANGED <<send, recv>>
          /\ \A u \in Threads \ {s} :
               pc'[u] = pc[u] \/ (u \in Receivers /\ pc[u] = "asleep" /\ pc'[u] = "torch")
      BY <1>0, <1>9, WakeType DEF WakeAllReceivers, OnlyMoves, words, Common
    <2>2. ReceiversRest /\ SendersRest
      BY <1>0, <2>1 DEF ReceiversRest, SendersRest, Dead, Sleeping
    <2>. QED
      BY <1>0, <2>2, RestKept
  <1>10. CASE Abort(s)
    <2>1. ReceiversRest /\ SendersRest
      BY <1>10 DEF Abort, words, ReceiversRest, SendersRest, Dead, Sleeping
    <2>. QED
      BY <1>0, <2>1, RestKept
  <1>. QED
    BY <1>1, <1>2, <1>3, <1>4, <1>5, <1>6, <1>7, <1>8, <1>9, <1>10 DEF SenderStep

LEMMA ReceiverSleepers ==
  ASSUME Inv, NEW r \in Receivers, ReceiverStep(r)
  PROVE  NoSleeperForgotten'
  <1>0. /\ TypeOK /\ PcType /\ ReceiversAwaited /\ SendersAwaited
        /\ r \in Threads /\ r \notin Senders /\ Senders \cap Receivers = {}
        /\ Senders \subseteq Threads /\ Receivers \subseteq Threads
        /\ send \in Word /\ recv \in Word
    BY AwaitedBySide, ThreadsFinite, Sides, MpmcAssumption DEF Inv, MpmcInvariant, TypeOK, PcType
  <1>s. SUFFICES ReceiversAwaited' /\ SendersAwaited'
    BY AwaitedBySide
  <1>1. CASE Claim(r)
    <2>1. /\ pc[r] = "claim" /\ pc'[r] \notin {"asleep", "torch"} /\ UNCHANGED send
          /\ \A t \in Threads \ {r} : pc'[t] = pc[t]
          /\ recv'.flags = recv.flags /\ recv'.slots = {}
      BY <1>0, <1>1, WordClosed DEF Claim, TellGone, Goto, PcType
    <2>2. SendersRest
      BY <1>0, <2>1 DEF SendersRest, Dead, Sleeping
    <2>3. ReceiversAwaited'
      BY <1>0, <2>1 DEF ReceiversAwaited, Asleep, Dead, Sleeping
    <2>. QED
      BY <1>0, <2>2, <2>3, RestKept
  <1>2. CASE ReadSlot(r)
    <2>1. ReceiversRest /\ SendersRest
      BY <1>0, <1>2
        DEF ReadSlot, Goto, PcType, words, ReceiversRest, SendersRest, Dead, Sleeping
    <2>. QED
      BY <1>0, <2>1, RestKept
  <1>3. CASE FreeSlots(r)
    <2>1. /\ pc[r] = "free" /\ pc'[r] = (IF Sleeping(send) THEN "wake" ELSE "idle")
          /\ \A t \in Threads \ {r} : pc'[t] = pc[t]
          /\ UNCHANGED recv
      BY <1>0, <1>3 DEF FreeSlots, Goto, PcType
    <2>2. ReceiversRest
      BY <1>0, <2>1 DEF ReceiversRest, Dead, Sleeping
    <2>3. ~Dead(send)
      BY <1>0, <2>1 DEF Inv, MpmcInvariant, HandlesInv, Announced, GoneOnlyIf
    <2>4. SendersAwaited'
      <3>1. CASE Sleeping(send)
        BY <1>0, <2>1, <3>1 DEF SendersAwaited
      <3>2. CASE ~Sleeping(send)
        BY <1>0, <2>1, <2>3, <3>2 DEF SendersAwaited, Asleep
      <3>. QED
        BY <3>1, <3>2
    <2>. QED
      BY <1>0, <2>2, <2>4, RestKept
  <1>4. CASE WakeSender(r)
    <2>1. /\ pc[r] = "wake" /\ pc'[r] = "idle" /\ UNCHANGED <<send, recv>>
          /\ \A u \in Threads \ {r} :
               pc'[u] = pc[u] \/ (u \in Senders /\ pc[u] = "asleep" /\ pc'[u] = "torch")
          /\ Asleep(Senders) # {} => \E u \in Senders : pc'[u] = "torch"
      <3>1. "idle" \in Locations
        BY DEF Locations
      <3>. QED
        BY <1>0, <1>4, <3>1, WakeOneEffect DEF WakeSender, OnlyMoves, words
    <2>2. ReceiversRest
      BY <1>0, <2>1 DEF ReceiversRest, Dead, Sleeping
    <2>3. SendersAwaited'
      BY <1>0, <2>1 DEF SendersAwaited, Asleep
    <2>. QED
      BY <1>0, <2>2, <2>3, RestKept
  <1>5. CASE SpinRecv(r)
    <2>1. /\ recv' \in Word /\ (spin[r] = 0 => recv'.flags # {}) /\ (Dead(recv') <=> Dead(recv))
          /\ recv'.slots = recv.slots /\ (Sleeping(recv) => Sleeping(recv'))
      BY <1>0, <1>5, PolledWord DEF SpinRecv
    <2>2. /\ pc[r] = "spin" /\ pc'[r] # "asleep" /\ UNCHANGED send
          /\ \A u \in Threads \ {r} : pc'[u] = pc[u]
      <3>1. CASE Poll(r, recv', recv'.slots # {}, "claim")
        <4>1. pc[r] = "spin" /\ UNCHANGED send
          BY <1>5 DEF SpinRecv
        <4>2. /\ pc'[r] \in {"claim", "sleep", "spin"}
              /\ \A u \in Threads \ {r} : pc'[u] = pc[u]
          BY <1>0, <2>1, <3>1, <4>1, PollType
        <4>. QED
          BY <4>1, <4>2
      <3>2. CASE TellGone(r)
        BY <1>0, <1>5, <3>2, ErrType DEF SpinRecv
      <3>. QED
        BY <1>5, <3>1, <3>2 DEF SpinRecv
    <2>3. ReceiversRest /\ SendersRest
      BY <1>0, <2>1, <2>2 DEF ReceiversRest, SendersRest, Dead, Sleeping
    <2>. QED
      BY <1>0, <2>3, RestKept
  <1>6. CASE SleepRecv(r)
    <2>1. /\ pc[r] = "sleep" /\ UNCHANGED <<send, recv>>
          /\ \A u \in Threads \ {r} : pc'[u] = pc[u]
          /\ \/ pc'[r] = "torch"
             \/ pc'[r] = "asleep" /\ recv = [slots |-> {}, flags |-> {"SLEEPING"}]
      BY <1>0, <1>6 DEF SleepRecv, Blocks, OnlyMoves, words, Goto, PcType
    <2>2. SendersRest
      BY <1>0, <2>1 DEF SendersRest, Dead, Sleeping
    <2>3. ReceiversAwaited'
      BY <1>0, <2>1 DEF ReceiversAwaited, Sleeping
    <2>. QED
      BY <1>0, <2>2, <2>3, RestKept
  <1>7. CASE PassTorchRecv(r)
    <2>1. /\ pc[r] = "torch" /\ pc'[r] = "claim" /\ UNCHANGED send
          /\ \A u \in Threads \ {r} : pc'[u] = pc[u]
          /\ Sleeping(recv')
      BY <1>0, <1>7, WordClosed DEF PassTorchRecv, Goto, PcType, Sleeping, Status
    <2>2. SendersRest
      BY <1>0, <2>1 DEF SendersRest, Dead, Sleeping
    <2>3. ReceiversAwaited'
      BY <1>0, <2>1 DEF ReceiversAwaited, Sleeping
    <2>. QED
      BY <1>0, <2>2, <2>3, RestKept
  <1>8. CASE HangUpReceivers(r)
    <2>1. /\ pc[r] = "hangup" /\ pc'[r] \in {"hangupWake", "dead"} /\ UNCHANGED recv
          /\ \A u \in Threads \ {r} : pc'[u] = pc[u]
          /\ send'.slots = send.slots /\ send'.flags = send.flags \cup {"COUNTERPARTY_DEAD"}
      BY <1>0, <1>8, WordClosed DEF HangUpReceivers, Goto, PcType, Status
    <2>2. ReceiversRest /\ SendersRest
      BY <1>0, <2>1 DEF ReceiversRest, SendersRest, Dead, Sleeping
    <2>. QED
      BY <1>0, <2>2, RestKept
  <1>9. CASE WakeAllSenders(r)
    <2>1. /\ pc[r] = "hangupWake" /\ pc'[r] = "dead" /\ UNCHANGED <<send, recv>>
          /\ \A u \in Threads \ {r} :
               pc'[u] = pc[u] \/ (u \in Senders /\ pc[u] = "asleep" /\ pc'[u] = "torch")
      BY <1>0, <1>9, WakeType DEF WakeAllSenders, OnlyMoves, words, Common
    <2>2. ReceiversRest /\ SendersRest
      BY <1>0, <2>1 DEF ReceiversRest, SendersRest, Dead, Sleeping
    <2>. QED
      BY <1>0, <2>2, RestKept
  <1>10. CASE Abort(r)
    <2>1. ReceiversRest /\ SendersRest
      BY <1>10 DEF Abort, words, ReceiversRest, SendersRest, Dead, Sleeping
    <2>. QED
      BY <1>0, <2>1, RestKept
  <1>. QED
    BY <1>1, <1>2, <1>3, <1>4, <1>5, <1>6, <1>7, <1>8, <1>9, <1>10 DEF ReceiverStep

LEMMA SleepersStep ==
  ASSUME Inv, [Next]_vars
  PROVE  NoSleeperForgotten'
  <1>0. /\ PcType /\ ReceiversAwaited /\ SendersAwaited
        /\ Senders \subseteq Threads /\ Receivers \subseteq Threads
    BY AwaitedBySide, ThreadsFinite DEF Inv, MpmcInvariant, TypeOK, PcType
  <1>1. ASSUME UserStep
        PROVE  ReceiversRest /\ SendersRest
    <2>1. \E t \in Threads, l1 \in {"idle", "unborn"} : \E l2 : pc[t] = l1 /\ l2 # "asleep" /\ Goto(t, l2)
      BY <1>0, <1>1 DEF UserStep, CallSend, CallRecv, CloneSender, CloneReceiver, DropSender,
                        DropReceiver, Share, Unshare
    <2>2. UNCHANGED <<send, recv>>
      BY <1>1 DEF UserStep, CallSend, CallRecv, CloneSender, CloneReceiver, DropSender, DropReceiver,
                  Share, Unshare, OnlyMoves, words
    <2>. QED
      BY <1>0, <2>1, <2>2 DEF Goto, PcType, ReceiversRest, SendersRest, Dead, Sleeping
  <1>2. ASSUME NEW t \in Threads, Interrupt(t)
        PROVE  ReceiversRest /\ SendersRest
    BY <1>0, <1>2 DEF Interrupt, OnlyMoves, words, Goto, PcType, ReceiversRest, SendersRest, Dead,
                      Sleeping
  <1>3. ASSUME NEW k, Teardown(k)
        PROVE  ReceiversRest /\ SendersRest
    BY <1>3 DEF Teardown, words, ReceiversRest, SendersRest, Dead, Sleeping
  <1>4. ASSUME UNCHANGED vars
        PROVE  ReceiversRest /\ SendersRest
    BY <1>4 DEF vars, words, ReceiversRest, SendersRest, Dead, Sleeping
  <1>5. ReceiversRest /\ SendersRest => NoSleeperForgotten'
    BY <1>0, RestKept, AwaitedBySide
  <1>. QED
    BY <1>1, <1>2, <1>3, <1>4, <1>5, SenderSleepers, ReceiverSleepers DEF Next, Finished
-----------------------------------------------------------------------------
LEMMA InitInv == Init => Inv
  <1>. SUFFICES ASSUME Init PROVE Inv
    OBVIOUS
  <1>1. TypeOK
    BY InitType
  <1>2. PICK s \in Senders, r \in Receivers :
          pc = [t \in Threads |-> IF t \in {s, r} THEN "idle" ELSE "unborn"]
    BY DEF Init
  <1>3. /\ \A t \in Threads : pc[t] = IF t \in {s, r} THEN "idle" ELSE "unborn"
        /\ s \in Threads /\ r \in Threads /\ s \notin Receivers /\ r \notin Senders
        /\ Senders \subseteq Threads /\ Receivers \subseteq Threads
        /\ \A t \in Threads : /\ mine[t] = {} /\ work[t] = {} /\ batch[t] = {} /\ retry[t] = {}
                              /\ handle[t] = t
    BY <1>2, ThreadsFinite, Sides DEF Init
  <1>4. /\ send = [slots |-> {}, flags |-> {}] /\ recv = [slots |-> {}, flags |-> {}]
        /\ send.slots = {} /\ recv.slots = {} /\ ~Dead(send) /\ ~Dead(recv)
    BY DEF Init, Dead
  <1>5. Duties
    BY <1>3 DEF Duties, Busy, Offering
  <1>6. SidesInv
    <2>1. ASSUME NEW S \in {Senders, Receivers}, NEW x \in S,
                 \A t \in S : pc[t] = IF t = x THEN "idle" ELSE "unborn"
          PROVE  SideInv(S) /\ HandleSum(S) = 1 /\ ~WakesNext(S) /\ ~Gone(S)
      <3>1. HandlesOf(S) = {x} /\ AbortingOf(S) = {}
        BY <1>3, <2>1 DEF HandlesOf, Holding, AbortingOf
      <3>2. Cardinality({x}) = 1 /\ Cardinality({}) = 0
        BY FS_Singleton, FS_EmptySet
      <3>3. HandleSum(S) = 1 /\ Cardinality(HandlesOf(S)) <= HandleLimit + 1
        BY <3>1, <3>2, MpmcAssumption DEF HandleSum
      <3>. QED
        BY <1>3, <2>1, <3>3 DEF SideInv, LastHangsUp, WakesNext, Gone
    <2>2. SideInv(Senders) /\ HandleSum(Senders) = 1 /\ ~WakesNext(Senders) /\ ~Gone(Senders)
      BY <1>3, <2>1
    <2>3. /\ SideInv(Receivers) /\ HandleSum(Receivers) = 1
          /\ ~WakesNext(Receivers) /\ ~Gone(Receivers)
      BY <1>3, <2>1
    <2>4. 1 % CountRange = 1
      <3>1. CountRange \in Nat /\ 1 < CountRange
        BY MpmcAssumption DEF CountRange
      <3>. HIDE DEF CountRange
      <3>. QED
        BY <3>1, Remainder
    <2>5. Identity
      BY <1>3 DEF Identity
    <2>. QED
      BY <1>4, <2>2, <2>3, <2>4, <2>5 DEF SidesInv, Init
  <1>7. SlotsPartitioned
    BY <1>3, <1>4 DEF SlotsPartitioned
  <1>8. Contents /\ Visibility
    BY <1>3, <1>4 DEF Contents, Filled, Visibility, Init
  <1>9. NoSleeperForgotten
    BY <1>3 DEF NoSleeperForgotten, Asleep
  <1>. QED
    BY <1>1, <1>5, <1>6, <1>7, <1>8, <1>9, HandlesBySide DEF Inv, MpmcInvariant

LEMMA InvStep == Inv /\ [Next]_vars => Inv'
  <1>. SUFFICES ASSUME Inv, [Next]_vars PROVE Inv'
    OBVIOUS
  <1>1. TypeOK' /\ Duties' /\ HandlesInv' /\ NoSleeperForgotten' /\ DataStep
    BY TypeStep, DutiesStep, HandlesStep, SleepersStep, NextData
  <1>2. SlotsPartitioned' /\ Contents' /\ Visibility'
    BY <1>1, SlotsPartitionedStep, ContentsStep, VisibilityStep DEF Inv, MpmcInvariant
  <1>. QED
    BY <1>1, <1>2 DEF Inv, MpmcInvariant

LEMMA Invariance == Spec => []Inv
  BY InitInv, InvStep, PTL DEF Spec

(* The words and the threads' locals have their types: in particular every *)
(* slot that is read holds a message, and the counters and biases stay in  *)
(* range (mpmc.rs:331-334, 440-476 and 490-515).                           *)
THEOREM TypeCorrect == Spec => []TypeOK
  BY Invariance, PTL DEF Inv

(* The inductive invariant. *)
THEOREM MpmcInvariance == Spec => []MpmcInvariant
  BY Invariance, PTL DEF Inv

(* The relaxed fetch_or with its acquire fence, the release fetch_or, the  *)
(* acquire fetch_and and the release fence order all accesses to the slots *)
(* (mpmc.rs:298-317 and 440-476).                                          *)
THEOREM NoDataRace == Spec => []RaceFree
  <1>1. MpmcInvariant => RaceFree
    BY DEF MpmcInvariant, Visibility, RaceFree
  <1>. QED
    BY <1>1, MpmcInvariance, PTL

(* No slot leaks, and none is drained twice (mpmc.rs:275-317 and 440-476). *)
THEOREM SlotsHaveOneOwner == Spec => []SlotsPartitioned
  <1>1. MpmcInvariant => SlotsPartitioned
    BY DEF MpmcInvariant
  <1>. QED
    BY <1>1, MpmcInvariance, PTL

(* The SLEEPING flags and the torch miss no sleeper (mpmc.rs:187-216,      *)
(* 320-322, 379-408 and 479-481).                                          *)
THEOREM SleepersAreRemembered == Spec => []NoSleeperForgotten
  <1>1. MpmcInvariant => NoSleeperForgotten
    BY DEF MpmcInvariant
  <1>. QED
    BY <1>1, MpmcInvariance, PTL

(* A request asks for at least one slot and at most for one per message,   *)
(* so the unchecked take() finds an item (mpmc.rs:271-305).                *)
THEOREM RequestsFit == Spec => []RequestsFitOffer
  <1>1. Inv => RequestsFitOffer
    BY RequestFits DEF Inv, MpmcInvariant, Duties, RequestsFitOffer
  <1>. QED
    BY <1>1, Invariance, PTL

(* The counters hang a side up when and only when its last handle is gone, *)
(* though clones add before they check and the counters wrap around        *)
(* (mpmc.rs:331-334, 359-366 and 490-515).                                 *)
THEOREM LastHandleHangsUp == Spec => []HangUpByTheLast
  <1>1. MpmcInvariant => HangUpByTheLast
    BY DEF MpmcInvariant, HandlesInv, Announced, HangUpByTheLast
  <1>. QED
    BY <1>1, MpmcInvariance, PTL

(* A hang-up is never undone, though committing and freeing turn the flags *)
(* of their words off (mpmc.rs:310-316 and 469-475).                       *)
THEOREM HangUpsStay == Spec => HangUpsAreFinal
  <1>1. Inv /\ [Next]_vars => [HangUpsKept]_vars
    <2>. SUFFICES ASSUME Inv, [Next]_vars PROVE HangUpsKept
      OBVIOUS
    <2>1. SidesInv /\ TypeOK /\ send \in Word /\ recv \in Word
      BY HandlesBySide DEF Inv, MpmcInvariant, TypeOK
    <2>2. ASSUME NEW s \in Senders, SenderStep(s)
          PROVE  HangUpsKept
      <3>1. CASE Commit(s)
        BY <2>1, <3>1 DEF Commit, SidesInv, Gone, HangUpsKept, Dead
      <3>2. CASE Reserve(s) \/ SpinSend(s) \/ PassTorchSend(s) \/ HangUpSenders(s)
        BY <2>1, <3>2, WordClosed, PolledWord
          DEF Reserve, SpinSend, PassTorchSend, HangUpSenders, HangUpsKept, Dead, Status, Word
      <3>3. CASE ~(Commit(s) \/ Reserve(s) \/ SpinSend(s) \/ PassTorchSend(s) \/ HangUpSenders(s))
        BY <2>2, <3>3 DEF SenderStep, WriteSlot, WakeReceiver, SleepSend, WakeAllReceivers, Abort,
                          OnlyMoves, words, HangUpsKept, Dead
      <3>. QED
        BY <3>1, <3>2, <3>3
    <2>3. ASSUME NEW r \in Receivers, ReceiverStep(r)
          PROVE  HangUpsKept
      <3>1. CASE FreeSlots(r)
        BY <2>1, <3>1 DEF FreeSlots, SidesInv, Gone, HangUpsKept, Dead
      <3>2. CASE Claim(r) \/ SpinRecv(r) \/ PassTorchRecv(r) \/ HangUpReceivers(r)
        BY <2>1, <3>2, WordClosed, PolledWord
          DEF Claim, SpinRecv, PassTorchRecv, HangUpReceivers, HangUpsKept, Dead, Status, Word
      <3>3. CASE ~(FreeSlots(r) \/ Claim(r) \/ SpinRecv(r) \/ PassTorchRecv(r) \/ HangUpReceivers(r))
        BY <2>3, <3>3 DEF ReceiverStep, ReadSlot, WakeSender, SleepRecv, WakeAllSenders, Abort,
                          OnlyMoves, words, HangUpsKept, Dead
      <3>. QED
        BY <3>1, <3>2, <3>3
    <2>4. ASSUME \/ UserStep \/ UNCHANGED vars
                 \/ \E t \in Threads : Interrupt(t)
                 \/ \E k \in 1..N : Teardown(k)
          PROVE  HangUpsKept
      BY <2>4 DEF UserStep, CallSend, CallRecv, CloneSender, CloneReceiver, DropSender, DropReceiver,
                  Share, Unshare, Interrupt, Teardown, OnlyMoves, words, vars, HangUpsKept, Dead
    <2>. QED
      BY <2>2, <2>3, <2>4 DEF Next, Finished
  <1>. QED
    BY <1>1, Invariance, PTL DEF Spec, HangUpsAreFinal
==============================================================================
